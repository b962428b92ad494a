----------------------------- MODULE MarketsProofs -----------------------------
(***************************************************************************)
(* Proofs about the contracts that pool the users' tokens, and those that  *)
(* keep debts and positions, for any number of users, any amounts and      *)
(* times, and any width of the integers.                                   *)
(***************************************************************************)
EXTENDS MCMarkets, SumLemmas

-----------------------------------------------------------------------------
(* Products and quotients of naturals.                                      *)

LEMMA ProductIsNat ==
  ASSUME NEW a \in Nat, NEW b \in Nat
  PROVE  a * b \in Nat
OBVIOUS

LEMMA ProductGrows ==
  ASSUME NEW a \in Nat, NEW b \in Nat, NEW c \in Nat, a <= b
  PROVE  a * c <= b * c /\ c * a <= c * b
OBVIOUS

LEMMA ProductCancels ==
  ASSUME NEW a \in Nat, NEW b \in Nat, NEW c \in Nat \ {0}, a * c <= b * c
  PROVE  a <= b
<1>1. SUFFICES ASSUME b + 1 <= a PROVE FALSE
  OBVIOUS
<1>2. (b + 1) * c <= a * c
  BY <1>1, ProductGrows
<1>3. (b + 1) * c = b * c + c /\ b * c \in Nat /\ a * c \in Nat
  BY ProductIsNat
<1>4. QED BY <1>2, <1>3

LEMMA Products ==
  ASSUME NEW a \in Nat, NEW b \in Nat, NEW c \in Nat, NEW d \in Nat, a <= c, b <= d
  PROVE  a * b <= c * d
<1>1. a * b <= c * b /\ c * b <= c * d
  BY ProductGrows
<1>2. a * b \in Nat /\ c * b \in Nat /\ c * d \in Nat
  BY ProductIsNat
<1>3. QED BY <1>1, <1>2

LEMMA QuotientBounds ==
  ASSUME NEW a \in Nat, NEW b \in Nat \ {0}
  PROVE  /\ a \div b \in Nat
         /\ (a \div b) * b <= a
         /\ a < (a \div b + 1) * b
OBVIOUS

LEMMA SmallProducts ==
  ASSUME U64 \in Nat, NEW a \in Nat, NEW b \in Nat
  PROVE  Pool!OrZero(Pool!Product(a, b)) \in Nat /\ Pool!OrZero(Pool!Product(a, b)) <= a * b
BY ProductIsNat DEF Pool!OrZero, Pool!Product, Pool!Overflow

LEMMA RootBounds ==
  ASSUME NEW n \in Nat
  PROVE  Pool!Root(n) \in Nat /\ Pool!Root(n) * Pool!Root(n) <= n
<1> DEFINE Above == {k \in Nat : n < (k + 1) * (k + 1)}
<1>1. n \in Above
  <2>1. (n + 1) * (n + 1) = n * n + n + n + 1 /\ n * n \in Nat
    BY ProductIsNat
  <2>2. QED BY <2>1
<1>2. PICK r \in Above : \A k \in Above : r <= k
  <2>1. Above \in SUBSET Nat /\ Above # {}
    BY <1>1
  <2> HIDE DEF Above
  <2>2. QED BY <2>1, LeastElement
<1>3. r \in Nat /\ n < (r + 1) * (r + 1) /\ r <= n
  BY <1>1, <1>2
<1>4. r * r <= n
  <2>1. CASE r = 0
    BY <2>1
  <2>2. CASE r # 0
    <3>1. r - 1 \in Nat /\ r - 1 \notin Above
      BY <1>2, <1>3, <2>2
    <3>2. ~(n < ((r - 1) + 1) * ((r - 1) + 1)) /\ (r - 1) + 1 = r
      BY <1>3, <3>1
    <3>3. r * r \in Nat
      BY <1>3, ProductIsNat
    <3>4. QED BY <3>2, <3>3
  <2>3. QED BY <2>1, <2>2
<1>5. r \in 0 .. n
  BY <1>3
<1>6. \E q \in 0 .. n : q * q <= n /\ n < (q + 1) * (q + 1)
  BY <1>3, <1>4, <1>5
<1>7. Pool!Root(n) \in 0 .. n /\ Pool!Root(n) * Pool!Root(n) <= n
  BY <1>6, Zenon DEF Pool!Root
<1>8. QED BY <1>7

(* Reserves that grew at least as the liquidity did are worth as much of it. *)
LEMMA WorthOfParts ==
  ASSUME NEW a \in Nat, NEW b \in Nat, NEW t \in Nat,
         NEW A \in Nat, NEW B \in Nat, NEW T \in Nat,
         a * T <= A * t, b * T <= B * t
  PROVE  A * B * t * t >= a * b * T * T
<1>1. /\ a * T \in Nat /\ b * T \in Nat /\ A * t \in Nat /\ B * t \in Nat
  BY ProductIsNat
<1>2. (a * T) * (b * T) <= (A * t) * (B * t)
  BY <1>1, Products
<1>3. (a * T) * (b * T) = a * b * T * T
  OBVIOUS
<1>4. (A * t) * (B * t) = A * B * t * t
  OBVIOUS
<1>5. /\ a * b * T * T \in Int /\ A * B * t * t \in Int
  OBVIOUS
<1>6. QED BY <1>2, <1>3, <1>4, <1>5

(* The same liquidity is worth no less of a product that is no less. *)
LEMMA WorthOfProduct ==
  ASSUME NEW p \in Nat, NEW q \in Nat, NEW t \in Nat, p <= q
  PROVE  q * t * t >= p * t * t
<1>1. p * t <= q * t /\ p * t \in Nat /\ q * t \in Nat
  BY ProductGrows, ProductIsNat
<1>2. (p * t) * t <= (q * t) * t /\ (p * t) * t \in Nat /\ (q * t) * t \in Nat
  BY <1>1, ProductGrows, ProductIsNat
<1>3. QED BY <1>2

(* m liquidity tokens for d of a reserve of r. *)
LEMMA MintingPart ==
  ASSUME NEW r \in Nat, NEW d \in Nat, NEW t \in Nat, NEW m \in Nat, m * r <= d * t
  PROVE  r * (t + m) <= (r + d) * t
<1>1. r * (t + m) = r * t + m * r /\ (r + d) * t = r * t + d * t
  OBVIOUS
<1>2. r * t \in Nat /\ m * r \in Nat /\ d * t \in Nat
  BY ProductIsNat
<1>3. QED BY <1>1, <1>2

(* n of t liquidity tokens for s of a reserve of r. *)
LEMMA BurningPart ==
  ASSUME NEW r \in Nat, NEW s \in Nat, NEW t \in Nat \ {0}, NEW n \in Nat, n <= t, s * t <= n * r
  PROVE  s <= r /\ r * (t - n) <= (r - s) * t
<1>1. n * r <= t * r /\ s * t \in Nat /\ n * r \in Nat /\ t * r \in Nat /\ t * r = r * t
  BY ProductGrows, ProductIsNat
<1>2. s <= r
  <2>1. s * t <= r * t
    BY <1>1
  <2>2. QED BY <2>1, ProductCancels
<1>3. r * (t - n) = r * t - n * r /\ (r - s) * t = r * t - s * t
  OBVIOUS
<1>4. QED BY <1>1, <1>2, <1>3

(* Selling g, of which f counts, for o. *)
LEMMA SellingPart ==
  ASSUME NEW x \in Nat, NEW y \in Nat, NEW f \in Nat, NEW g \in Nat, NEW o \in Nat,
         f <= g, 0 < x, o * (x + f) <= y * f
  PROVE  o <= y /\ x * y <= (x + g) * (y - o)
<1>1. y * f <= y * (x + f) /\ y * f \in Nat /\ y * (x + f) \in Nat /\ o * (x + f) \in Nat
  BY ProductGrows, ProductIsNat
<1>2. o <= y
  <2>1. o * (x + f) <= y * (x + f) /\ x + f \in Nat \ {0}
    BY <1>1
  <2>2. QED BY <2>1, ProductCancels
<1>3. (x + f) * (y - o) = x * y + y * f - o * (x + f)
  OBVIOUS
<1>4. y - o \in Nat /\ x + f \in Nat /\ x + g \in Nat /\ x + f <= x + g
  BY <1>2
<1>5. (x + f) * (y - o) <= (x + g) * (y - o)
  BY <1>4, ProductGrows
<1>6. x * y \in Nat /\ (x + f) * (y - o) \in Nat /\ (x + g) * (y - o) \in Nat
  BY <1>4, ProductIsNat
<1>7. QED BY <1>1, <1>2, <1>3, <1>5, <1>6

(* Buying o of y, for what the contract's formula asks. *)
LEMMA BuyingPart ==
  ASSUME NEW x \in Nat, NEW y \in Nat, NEW o \in Nat, o < y
  PROVE  Pool!InAmount(x, y, o) \in Nat /\ x * y <= (x + Pool!InAmount(x, y, o)) * (y - o)
<1> DEFINE d == (y - o) * 997
           n == o * x * 1000
           in == Pool!InAmount(x, y, o)
<1>1. y - o \in Nat \ {0} /\ d \in Nat \ {0}
  OBVIOUS
<1>2. o * x \in Nat /\ n \in Nat /\ n >= (o * x) * 997
  BY ProductIsNat
<1>3. in = n \div d + 1
  BY DEF Pool!InAmount
<1> HIDE DEF d, n, in
<1>4. n \div d \in Nat /\ n < (n \div d + 1) * d
  BY <1>1, <1>2, QuotientBounds
<1>5. in \in Nat /\ n < in * d
  BY <1>3, <1>4
<1>6. in * d = (in * (y - o)) * 997 /\ in * (y - o) \in Nat
  BY <1>1, <1>5, ProductIsNat DEF d
<1>7. o * x <= in * (y - o)
  BY <1>2, <1>5, <1>6
<1>8. (x + in) * (y - o) = x * y - o * x + in * (y - o) /\ x * y \in Nat
  BY <1>5, ProductIsNat
<1>9. x * y <= (x + in) * (y - o)
  BY <1>2, <1>6, <1>7, <1>8
<1>10. QED BY <1>5, <1>9 DEF in

-----------------------------------------------------------------------------
(* What the operators of PoolMath do to a pool.                             *)

Pools == [reserve : [Pool!Tokens -> Nat], fees : [Pool!Tokens -> Nat], total : Nat, lp : [Pool!Users -> Nat]]

HasHolders(p) == SumTo(p.lp, NumUsers) >= p.total

TotalInReserves(p) == p.total * p.total <= p.reserve["a"] * p.reserve["b"]

\* The second pool is no larger than the first in what its type bounds.
NoLarger(p, q) ==
  /\ \A x \in Pool!Tokens : q.reserve[x] <= p.reserve[x] /\ q.fees[x] <= p.fees[x]
  /\ \A u \in Pool!Users : q.lp[u] <= p.lp[u]

LEMMA CoveredMeans ==
  ASSUME NEW p
  PROVE  /\ Pool!Covered(p) <=> HasHolders(p)
         /\ Sim!Covered(p) <=> HasHolders(p)
BY DEF Pool!Covered, Sim!Covered, HasHolders, Pool!SumTo, Sim!SumTo, SumTo,
       Pool!PartialSums, Sim!PartialSums, PartialSums

(* A total that is worth its reserves stays so.                              *)
LEMMA TotalStaysInReserves ==
  ASSUME NEW p \in Pools, NEW q \in Pools, Pool!WorthNoLess(p, q),
         p.total > 0 \/ q.total = 0, TotalInReserves(p)
  PROVE  TotalInReserves(q)
<1> PICK a, b, t, c, d, s : /\ a = p.reserve["a"] /\ b = p.reserve["b"] /\ t = p.total
                           /\ c = q.reserve["a"] /\ d = q.reserve["b"] /\ s = q.total
  OBVIOUS
<1>1. /\ a \in Nat /\ b \in Nat /\ t \in Nat /\ c \in Nat /\ d \in Nat /\ s \in Nat
  BY DEF Pools, Pool!Tokens
<1>2. c * d \in Nat /\ a * b \in Nat /\ t * t \in Nat /\ s * s \in Nat
  BY <1>1, ProductIsNat
<1>3. CASE s = 0
  BY <1>2, <1>3 DEF TotalInReserves
<1>4. CASE s > 0
  <2>1. t > 0 /\ t * t <= a * b /\ c * d * t * t >= a * b * s * s
    BY <1>4 DEF TotalInReserves, Pool!WorthNoLess
  <2>2. t * t \in Nat \ {0}
    BY <1>1, <2>1
  <2>3. (t * t) * (s * s) <= (a * b) * (s * s)
    BY <1>2, <2>1, ProductGrows
  <2>4. /\ a * b * s * s = (a * b) * (s * s) /\ c * d * t * t = (c * d) * (t * t)
        /\ (t * t) * (s * s) = (s * s) * (t * t)
    <3>1. \A x \in Nat, y \in Nat : x * y * y = x * (y * y)
      OBVIOUS
    <3>2. \A x \in Nat, y \in Nat : x * y = y * x
      OBVIOUS
    <3>3. QED BY <1>1, <1>2, <3>1, <3>2
  <2>5. (s * s) * (t * t) <= (c * d) * (t * t)
    <3>1. (t * t) * (s * s) \in Nat /\ (a * b) * (s * s) \in Nat /\ (c * d) * (t * t) \in Nat
      BY <1>2, ProductIsNat
    <3>2. QED BY <2>1, <2>3, <2>4, <3>1
  <2>6. s * s <= c * d
    BY <1>2, <2>2, <2>5, ProductCancels
  <2>7. QED BY <2>6 DEF TotalInReserves
<1>5. QED BY <1>1, <1>3, <1>4

LEMMA SmallTotal ==
  ASSUME NEW p \in Pools, TotalInReserves(p), NEW m \in Nat, \A x \in Pool!Tokens : p.reserve[x] <= m
  PROVE  p.total <= m
<1>1. /\ p.reserve["a"] \in Nat /\ p.reserve["b"] \in Nat /\ p.total \in Nat
      /\ p.reserve["a"] <= m /\ p.reserve["b"] <= m
  BY DEF Pools, Pool!Tokens
<1>2. p.reserve["a"] * p.reserve["b"] <= m * m
  BY <1>1, Products
<1>3. SUFFICES ASSUME m + 1 <= p.total PROVE FALSE
  BY <1>1
<1>4. (m + 1) * (m + 1) <= p.total * p.total
  BY <1>1, <1>3, Products
<1>5. (m + 1) * (m + 1) = m * m + m + m + 1 /\ m * m \in Nat
  BY ProductIsNat
<1>6. p.total * p.total \in Nat /\ p.reserve["a"] * p.reserve["b"] \in Nat
  BY <1>1, ProductIsNat
<1>7. QED BY <1>2, <1>4, <1>5, <1>6 DEF TotalInReserves

LEMMA MintedBounds ==
  ASSUME U64 \in Nat, NEW p \in Pools, NEW amount \in [Pool!Tokens -> Nat],
         p.total > 0 => \A x \in Pool!Tokens : p.reserve[x] > 0
  PROVE  /\ Pool!Minted(p, amount) \in Nat
         /\ p.total > 0 => \A x \in Pool!Tokens : Pool!Minted(p, amount) * p.reserve[x] <= amount[x] * p.total
         /\ p.total = 0 => Pool!Minted(p, amount) * Pool!Minted(p, amount) <= amount["a"] * amount["b"]
<1> DEFINE part(x) == Pool!OrZero(Pool!Product(amount[x], p.total)) \div p.reserve[x]
           m == Pool!Minted(p, amount)
<1>1. /\ "a" \in Pool!Tokens /\ "b" \in Pool!Tokens /\ Pool!Tokens = {"a", "b"}
      /\ p.total \in Nat /\ \A x \in Pool!Tokens : p.reserve[x] \in Nat /\ amount[x] \in Nat
  BY DEF Pool!Tokens, Pools
<1>2. CASE p.total = 0
  <2>1. Pool!OrZero(Pool!Product(amount["a"], amount["b"])) \in Nat
    BY <1>1, SmallProducts
  <2>2. m = Pool!Root(Pool!OrZero(Pool!Product(amount["a"], amount["b"])))
    BY <1>2 DEF Pool!Minted
  <2>3. m \in Nat /\ m * m <= Pool!OrZero(Pool!Product(amount["a"], amount["b"]))
    BY <2>1, <2>2, RootBounds
  <2>4. Pool!OrZero(Pool!Product(amount["a"], amount["b"])) <= amount["a"] * amount["b"]
    BY <1>1, SmallProducts
  <2> HIDE DEF m
  <2>5. m * m \in Nat /\ amount["a"] * amount["b"] \in Nat
    BY <1>1, <2>3, ProductIsNat
  <2>6. m * m <= amount["a"] * amount["b"]
    BY <2>1, <2>3, <2>4, <2>5
  <2>7. QED BY <1>2, <2>3, <2>6 DEF m
<1>3. CASE p.total # 0
  <2>1. ASSUME NEW x \in Pool!Tokens
        PROVE  part(x) \in Nat /\ part(x) * p.reserve[x] <= amount[x] * p.total
    <3> DEFINE product == Pool!OrZero(Pool!Product(amount[x], p.total))
    <3>1. product \in Nat /\ product <= amount[x] * p.total
      BY <1>1, SmallProducts
    <3>2. p.reserve[x] \in Nat \ {0}
      BY <1>1, <1>3
    <3> HIDE DEF product
    <3>3. product \div p.reserve[x] \in Nat /\ (product \div p.reserve[x]) * p.reserve[x] <= product
      BY <3>1, <3>2, QuotientBounds
    <3>4. /\ (product \div p.reserve[x]) * p.reserve[x] \in Nat
          /\ amount[x] * p.total \in Nat
      BY <1>1, <3>2, <3>3, ProductIsNat
    <3>5. /\ product \div p.reserve[x] \in Nat
          /\ (product \div p.reserve[x]) * p.reserve[x] <= amount[x] * p.total
      BY <3>1, <3>3, <3>4
    <3>6. QED BY <3>5 DEF product
  <2>2. m = Pool!LesserOf(part("a"), part("b"))
    BY <1>3 DEF Pool!Minted
  <2> HIDE DEF part
  <2>3. m \in Nat /\ m <= part("a") /\ m <= part("b")
    BY <1>1, <2>1, <2>2 DEF Pool!LesserOf
  <2> HIDE DEF m
  <2>4. ASSUME NEW x \in Pool!Tokens PROVE m * p.reserve[x] <= amount[x] * p.total
    <3>1. m <= part(x) /\ part(x) \in Nat /\ p.reserve[x] \in Nat
      BY <1>1, <2>1, <2>3
    <3>2. m * p.reserve[x] <= part(x) * p.reserve[x]
      BY <2>3, <3>1, ProductGrows
    <3>3. /\ m * p.reserve[x] \in Nat /\ part(x) * p.reserve[x] \in Nat
          /\ amount[x] * p.total \in Nat
      BY <1>1, <2>3, <3>1, ProductIsNat
    <3>4. QED BY <2>1, <3>2, <3>3
  <2>5. QED BY <1>3, <2>3, <2>4 DEF m
<1>4. QED BY <1>2, <1>3

LEMMA AddedKeeps ==
  ASSUME U64 \in Nat, NumUsers \in Nat,
         NEW p \in Pools, NEW u \in Pool!Users, NEW amount \in [Pool!Tokens -> Nat],
         p.total > 0 => \A x \in Pool!Tokens : p.reserve[x] > 0
  PROVE  /\ Pool!Added(p, u, amount) \in Pools
         /\ Pool!WorthNoLess(p, Pool!Added(p, u, amount))
         /\ HasHolders(p) => HasHolders(Pool!Added(p, u, amount))
         /\ TotalInReserves(p) => TotalInReserves(Pool!Added(p, u, amount))
<1> DEFINE m == Pool!Minted(p, amount)
           q == Pool!Added(p, u, amount)
<1>1. m \in Nat
  BY MintedBounds
<1>2. p.total > 0 => \A x \in Pool!Tokens : m * p.reserve[x] <= amount[x] * p.total
  BY MintedBounds
<1>3. q = [p EXCEPT !.reserve = [x \in Pool!Tokens |-> p.reserve[x] + amount[x]],
                    !.total = p.total + m, !.lp[u] = p.lp[u] + m]
  BY DEF Pool!Added, Pools
<1> HIDE DEF m, q
<1>4. /\ q.reserve = [x \in Pool!Tokens |-> p.reserve[x] + amount[x]]
      /\ q.total = p.total + m
      /\ q.lp = [p.lp EXCEPT ![u] = p.lp[u] + m]
      /\ q \in Pools
  <2>1. /\ [x \in Pool!Tokens |-> p.reserve[x] + amount[x]] \in [Pool!Tokens -> Nat]
        /\ p.total + m \in Nat /\ p.lp[u] + m \in Nat
    BY <1>1 DEF Pools
  <2>2. QED BY <1>3, <2>1 DEF Pools
<1>5. /\ p.total \in Nat /\ p.lp \in [Pool!Users -> Nat]
      /\ "a" \in Pool!Tokens /\ "b" \in Pool!Tokens
      /\ \A x \in Pool!Tokens : p.reserve[x] \in Nat /\ amount[x] \in Nat
  BY DEF Pool!Tokens, Pools
<1>6. ASSUME p.total > 0, q.total > 0
      PROVE  q.reserve["a"] * q.reserve["b"] * p.total * p.total
               >= p.reserve["a"] * p.reserve["b"] * q.total * q.total
  <2>1. ASSUME NEW x \in Pool!Tokens
        PROVE  p.reserve[x] * q.total <= q.reserve[x] * p.total
    <3>1. m * p.reserve[x] <= amount[x] * p.total
      BY <1>2, <1>6
    <3>2. p.reserve[x] * (p.total + m) <= (p.reserve[x] + amount[x]) * p.total
      BY <1>1, <1>5, <3>1, MintingPart
    <3>3. QED BY <1>4, <3>2
  <2>2. \A x \in Pool!Tokens : q.reserve[x] \in Nat
    BY <1>4 DEF Pools
  <2>3. q.total \in Nat
    BY <1>1, <1>4, <1>5
  <2>4. QED BY <1>5, <2>1, <2>2, <2>3, WorthOfParts
<1>7. Pool!WorthNoLess(p, q)
  BY <1>6 DEF Pool!WorthNoLess
<1>8. ASSUME HasHolders(p) PROVE HasHolders(q)
  <2>1. p.lp \in [1 .. NumUsers -> Int] /\ u \in 1 .. NumUsers /\ p.lp[u] + m \in Int /\ p.lp[u] \in Int
    BY <1>1, <1>5 DEF Pool!Users
  <2>2. SumTo([p.lp EXCEPT ![u] = p.lp[u] + m], NumUsers) = SumTo(p.lp, NumUsers) - p.lp[u] + (p.lp[u] + m)
    BY <2>1, SumToUpdate
  <2>3. PICK given \in Int : given = SumTo(p.lp, NumUsers)
    BY <2>1, SumToType
  <2>4. SumTo(q.lp, NumUsers) = given + m
    BY <1>1, <1>4, <2>1, <2>2, <2>3
  <2>5. given >= p.total
    BY <1>8, <2>3 DEF HasHolders
  <2>6. given + m >= q.total
    BY <1>1, <1>4, <1>5, <2>5
  <2>7. QED BY <2>4, <2>6 DEF HasHolders
<1>9. ASSUME TotalInReserves(p) PROVE TotalInReserves(q)
  <2>1. CASE p.total > 0
    BY <1>4, <1>7, <1>9, <2>1, TotalStaysInReserves
  <2>2. CASE p.total = 0
    <3>1. /\ q.total = m /\ m * m <= amount["a"] * amount["b"]
          /\ q.reserve["a"] = p.reserve["a"] + amount["a"] /\ q.reserve["b"] = p.reserve["b"] + amount["b"]
      BY <1>1, <1>4, <1>5, <2>2, MintedBounds DEF m
    <3>2. amount["a"] * amount["b"] <= q.reserve["a"] * q.reserve["b"]
      BY <1>5, <3>1, Products
    <3>3. m * m \in Nat /\ amount["a"] * amount["b"] \in Nat /\ q.reserve["a"] * q.reserve["b"] \in Nat
      <4>1. PICK x \in Nat, y \in Nat : x = q.reserve["a"] /\ y = q.reserve["b"]
        BY <1>5, <3>1
      <4>2. x * y \in Nat /\ m * m \in Nat
        BY <1>1, ProductIsNat
      <4>3. amount["a"] * amount["b"] \in Nat
        BY <1>5, ProductIsNat
      <4>4. QED BY <4>1, <4>2, <4>3
    <3>4. QED BY <3>1, <3>2, <3>3 DEF TotalInReserves
  <2>3. QED BY <1>5, <2>1, <2>2
<1>10. QED BY <1>4, <1>7, <1>8, <1>9 DEF q

(* Liquidity n leaves: what it takes of each reserve is no more than its part. *)
LEMMA TakenKeeps ==
  ASSUME U64 \in Nat, NumUsers \in Nat, NEW p \in Pools, NEW n \in Nat \ {0}, n <= p.total
  PROVE  /\ Pool!Taken(p, n) \in Pools
         /\ Pool!Taken(p, n).total = p.total - n
         /\ Pool!Taken(p, n).lp = p.lp
         /\ Pool!WorthNoLess(p, Pool!Taken(p, n))
         /\ NoLarger(p, Pool!Taken(p, n))
<1> DEFINE q == Pool!Taken(p, n)
           s(x) == Pool!Share(p, n, p.reserve[x])
<1>1. /\ p.total \in Nat \ {0} /\ p.lp \in [Pool!Users -> Nat] /\ p.fees \in [Pool!Tokens -> Nat]
      /\ "a" \in Pool!Tokens /\ "b" \in Pool!Tokens
      /\ \A x \in Pool!Tokens : p.reserve[x] \in Nat
  BY DEF Pool!Tokens, Pools
<1>3. ASSUME NEW x \in Pool!Tokens
      PROVE  /\ s(x) \in Nat /\ s(x) <= p.reserve[x]
             /\ p.reserve[x] * (p.total - n) <= (p.reserve[x] - s(x)) * p.total
  <2> DEFINE product == Pool!OrZero(Pool!Product(n, p.reserve[x]))
  <2>1. product \in Nat /\ product <= n * p.reserve[x]
    BY <1>1, SmallProducts
  <2>2. s(x) = product \div p.total
    BY DEF Pool!Share
  <2> HIDE DEF product, s
  <2>3. s(x) \in Nat /\ s(x) * p.total <= product
    BY <1>1, <2>1, <2>2, QuotientBounds
  <2>4. s(x) * p.total \in Nat /\ n * p.reserve[x] \in Nat
    BY <1>1, <2>3, ProductIsNat
  <2>5. s(x) * p.total <= n * p.reserve[x]
    BY <2>1, <2>3, <2>4
  <2>6. QED BY <1>1, <2>3, <2>5, BurningPart
<1>4. q = [p EXCEPT !.reserve = [x \in Pool!Tokens |-> p.reserve[x] - s(x)], !.total = p.total - n]
  BY <1>1 DEF Pool!Taken, Pools
<1> HIDE DEF q, s
<1>5. [x \in Pool!Tokens |-> p.reserve[x] - s(x)] \in [Pool!Tokens -> Nat] /\ p.total - n \in Nat
  BY <1>1, <1>3
<1>6. /\ q.reserve = [x \in Pool!Tokens |-> p.reserve[x] - s(x)]
      /\ q.total = p.total - n
      /\ q.lp = p.lp /\ q.fees = p.fees
      /\ q \in Pools
  BY <1>4, <1>5 DEF Pools
<1>7. ASSUME p.total > 0, q.total > 0
      PROVE  q.reserve["a"] * q.reserve["b"] * p.total * p.total
               >= p.reserve["a"] * p.reserve["b"] * q.total * q.total
  <2>1. \A x \in Pool!Tokens : p.reserve[x] * q.total <= q.reserve[x] * p.total /\ q.reserve[x] \in Nat
    BY <1>1, <1>3, <1>6
  <2>2. q.total \in Nat
    BY <1>5, <1>6
  <2>3. QED BY <1>1, <2>1, <2>2, WorthOfParts
<1>8. Pool!WorthNoLess(p, q)
  BY <1>7 DEF Pool!WorthNoLess
<1>9. \A x \in Pool!Tokens : q.reserve[x] <= p.reserve[x]
  BY <1>1, <1>3, <1>6
<1>10. NoLarger(p, q)
  BY <1>1, <1>6, <1>9 DEF NoLarger
<1>11. QED BY <1>6, <1>8, <1>10 DEF q

(* Liquidity that leaves the books of its holders, as an emergency has it.   *)
LEMMA TakenFromNobody ==
  ASSUME U64 \in Nat, NumUsers \in Nat, NEW p \in Pools, NEW n \in Nat \ {0}, n <= p.total, HasHolders(p)
  PROVE  HasHolders(Pool!Taken(p, n))
<1>1. p.lp \in [1 .. NumUsers -> Int] /\ p.total \in Nat
  BY DEF Pools, Pool!Users
<1>2. SumTo(p.lp, NumUsers) \in Int
  BY <1>1, SumToType
<1>3. QED BY <1>1, <1>2, TakenKeeps DEF HasHolders

\* The liquidity tokens n are burnt from what u holds, as far as it reaches.
Removed(p, u, n) == [Pool!Taken(p, n) EXCEPT !.lp[u] = Pool!Saturating(@ - n)]

LEMMA RemovedKeeps ==
  ASSUME U64 \in Nat, NumUsers \in Nat,
         NEW p \in Pools, NEW u \in Pool!Users, NEW n \in Nat \ {0}, n <= p.total
  PROVE  /\ Removed(p, u, n) \in Pools
         /\ Pool!WorthNoLess(p, Removed(p, u, n))
         /\ NoLarger(p, Removed(p, u, n))
         /\ HasHolders(p) => HasHolders(Removed(p, u, n))
<1> DEFINE q == Removed(p, u, n)
           rest == Pool!Saturating(p.lp[u] - n)
<1>1. PICK t : t = Pool!Taken(p, n)
  OBVIOUS
<1>2. /\ t \in Pools /\ t.total = p.total - n /\ t.lp = p.lp
      /\ Pool!WorthNoLess(p, t) /\ NoLarger(p, t)
  BY <1>1, TakenKeeps
<1>3. p.total \in Nat /\ p.lp \in [Pool!Users -> Nat] /\ p.lp[u] \in Nat
  BY DEF Pools
<1>4. rest \in Nat /\ rest >= p.lp[u] - n /\ rest <= p.lp[u]
  BY <1>3 DEF Pool!Saturating
<1>5. q = [t EXCEPT !.lp = [p.lp EXCEPT ![u] = rest]]
  BY <1>1, <1>2 DEF Removed, Pools
<1> HIDE DEF q, rest
<1>6. [p.lp EXCEPT ![u] = rest] \in [Pool!Users -> Nat]
  BY <1>3, <1>4
<1>7. /\ q \in Pools /\ q.reserve = t.reserve /\ q.fees = t.fees /\ q.total = t.total
      /\ q.lp = [p.lp EXCEPT ![u] = rest]
  BY <1>2, <1>5, <1>6 DEF Pools
<1>8. Pool!WorthNoLess(p, q)
  BY <1>2, <1>7 DEF Pool!WorthNoLess
<1>9. NoLarger(p, q)
  BY <1>2, <1>3, <1>4, <1>7 DEF NoLarger
<1>10. ASSUME HasHolders(p) PROVE HasHolders(q)
  <2>1. p.lp \in [1 .. NumUsers -> Int] /\ u \in 1 .. NumUsers /\ rest \in Int /\ p.lp[u] \in Int
    BY <1>3, <1>4 DEF Pool!Users
  <2>2. SumTo([p.lp EXCEPT ![u] = rest], NumUsers) = SumTo(p.lp, NumUsers) - p.lp[u] + rest
    BY <2>1, SumToUpdate
  <2>3. PICK given \in Int : given = SumTo(p.lp, NumUsers)
    BY <2>1, SumToType
  <2>4. SumTo(q.lp, NumUsers) = given - p.lp[u] + rest
    BY <1>7, <2>2, <2>3
  <2>5. given >= p.total
    BY <1>10, <2>3 DEF HasHolders
  <2>6. given - p.lp[u] + rest >= q.total
    <3>1. PICK x \in Nat : x = p.lp[u] /\ rest >= x - n
      BY <1>3, <1>4
    <3>2. given - x + rest >= p.total - n
      BY <1>3, <1>4, <2>5, <3>1
    <3>3. QED BY <1>2, <1>7, <3>1, <3>2
  <2>7. QED BY <2>4, <2>6 DEF HasHolders
<1>11. QED BY <1>7, <1>8, <1>9, <1>10 DEF q

(* Reserves whose product did not fall, under the same liquidity.            *)
LEMMA SameLiquidity ==
  ASSUME NumUsers \in Nat, NEW p \in Pools, NEW q \in Pools, NEW x \in Pool!Tokens,
         q.total = p.total, q.lp = p.lp,
         p.reserve[x] * p.reserve[Pool!Other(x)] <= q.reserve[x] * q.reserve[Pool!Other(x)]
  PROVE  Pool!WorthNoLess(p, q) /\ (HasHolders(p) => HasHolders(q))
<1>1. /\ p.total \in Nat /\ "a" \in Pool!Tokens /\ "b" \in Pool!Tokens
      /\ \A y \in Pool!Tokens : p.reserve[y] \in Nat /\ q.reserve[y] \in Nat
  BY DEF Pool!Tokens, Pools
<1>2. p.reserve["a"] * p.reserve["b"] <= q.reserve["a"] * q.reserve["b"]
  <2>1. CASE x = "a"
    BY <2>1 DEF Pool!Other
  <2>2. CASE x = "b"
    <3>1. Pool!Other(x) = "a"
      BY <2>2 DEF Pool!Other
    <3>2. /\ p.reserve["b"] * p.reserve["a"] = p.reserve["a"] * p.reserve["b"]
          /\ q.reserve["b"] * q.reserve["a"] = q.reserve["a"] * q.reserve["b"]
      BY <1>1
    <3>3. QED BY <2>2, <3>1, <3>2
  <2>3. QED BY <2>1, <2>2 DEF Pool!Tokens
<1>3. /\ p.reserve["a"] * p.reserve["b"] \in Nat
      /\ q.reserve["a"] * q.reserve["b"] \in Nat
  BY <1>1, ProductIsNat
<1>4. q.reserve["a"] * q.reserve["b"] * p.total * p.total
        >= p.reserve["a"] * p.reserve["b"] * p.total * p.total
  BY <1>1, <1>2, <1>3, WorthOfProduct
<1>5. QED BY <1>4 DEF Pool!WorthNoLess, HasHolders

LEMMA FeeBounds ==
  ASSUME U64 \in Nat, NEW fee \in Nat, BPS \in Nat \ {0}, fee <= BPS, NEW amount_in \in Nat
  PROVE  Pool!Fee(fee, amount_in) \in 0 .. amount_in
<1> DEFINE product == Pool!OrZero(Pool!Product(amount_in, fee))
<1>1. product \in Nat /\ product <= amount_in * fee
  BY SmallProducts
<1>2. Pool!Fee(fee, amount_in) = product \div BPS
  BY DEF Pool!Fee
<1> HIDE DEF product
<1>3. product \div BPS \in Nat /\ (product \div BPS) * BPS <= product
  BY <1>1, QuotientBounds
<1>4. /\ amount_in * fee <= amount_in * BPS
      /\ amount_in * fee \in Nat /\ amount_in * BPS \in Nat /\ (product \div BPS) * BPS \in Nat
  BY <1>3, ProductGrows, ProductIsNat
<1>5. (product \div BPS) * BPS <= amount_in * BPS
  BY <1>1, <1>3, <1>4
<1>6. product \div BPS <= amount_in
  BY <1>3, <1>5, ProductCancels
<1>7. QED BY <1>2, <1>3, <1>6

LEMMA SwappedKeeps ==
  ASSUME U64 \in Nat, NumUsers \in Nat, BPS \in Nat \ {0},
         NEW p \in Pools, NEW fee \in Nat, fee <= BPS, NEW x \in Pool!Tokens, NEW amount_in \in Nat
  PROVE  /\ Pool!Swapped(p, fee, x, amount_in) \in Pools
         /\ Pool!WorthNoLess(p, Pool!Swapped(p, fee, x, amount_in))
         /\ HasHolders(p) => HasHolders(Pool!Swapped(p, fee, x, amount_in))
         /\ TotalInReserves(p) => TotalInReserves(Pool!Swapped(p, fee, x, amount_in))
<1> DEFINE y == Pool!Other(x)
           q == Pool!Swapped(p, fee, x, amount_in)
           o == Pool!Output(p, fee, x, amount_in)
           f == amount_in - Pool!Fee(fee, amount_in)
           kept == IF 0 \in {p.reserve["a"], p.reserve["b"]} THEN 0 ELSE Pool!Fee(fee, amount_in)
<1>1. /\ x \in Pool!Tokens /\ y \in Pool!Tokens /\ y # x /\ {x, y} = {"a", "b"}
      /\ p.total \in Nat /\ \A z \in Pool!Tokens : p.reserve[z] \in Nat /\ p.fees[z] \in Nat
  BY DEF Pool!Tokens, Pool!Other, Pools
<1>2. f \in Nat /\ f <= amount_in /\ kept \in Nat
  BY FeeBounds
<1>3. /\ o \in Nat /\ o <= p.reserve[y]
      /\ p.reserve[x] * p.reserve[y] <= (p.reserve[x] + amount_in) * (p.reserve[y] - o)
  <2>1. CASE 0 \in {p.reserve["a"], p.reserve["b"]}
    <3>1. o = 0
      BY <2>1 DEF Pool!Output
    <3>2. p.reserve[x] * p.reserve[y] <= (p.reserve[x] + amount_in) * p.reserve[y]
      BY <1>1, ProductGrows
    <3>3. QED BY <1>1, <3>1, <3>2
  <2>2. CASE 0 \notin {p.reserve["a"], p.reserve["b"]}
    <3> DEFINE product == Pool!OrZero(Pool!Product(p.reserve[y], f))
    <3>1. p.reserve[x] \in Nat \ {0} /\ p.reserve[y] \in Nat
      BY <1>1, <2>2
    <3> HIDE DEF f
    <3>2. product \in Nat /\ product <= p.reserve[y] * f
      BY <1>2, <3>1, SmallProducts
    <3>3. o = product \div (p.reserve[x] + f)
      BY <2>2 DEF Pool!Output, f
    <3> HIDE DEF product, o
    <3>4. p.reserve[x] + f \in Nat \ {0}
      BY <1>2, <3>1
    <3>5. o \in Nat /\ o * (p.reserve[x] + f) <= product
      BY <3>2, <3>3, <3>4, QuotientBounds
    <3>6. o * (p.reserve[x] + f) \in Nat /\ p.reserve[y] * f \in Nat
      BY <1>2, <3>1, <3>4, <3>5, ProductIsNat
    <3>7. o * (p.reserve[x] + f) <= p.reserve[y] * f
      BY <3>2, <3>5, <3>6
    <3>8. p.reserve[x] \in Nat /\ 0 < p.reserve[x] /\ f \in Nat /\ f <= amount_in
      BY <1>2, <3>1 DEF f
    <3> HIDE DEF y
    <3>9. /\ o <= p.reserve[y]
          /\ p.reserve[x] * p.reserve[y] <= (p.reserve[x] + amount_in) * (p.reserve[y] - o)
      BY <3>1, <3>5, <3>7, <3>8, SellingPart
    <3>10. QED BY <3>5, <3>9 DEF y
  <2>3. QED BY <2>1, <2>2
<1>4. q = [p EXCEPT !.reserve = [p.reserve EXCEPT ![x] = p.reserve[x] + amount_in, ![y] = p.reserve[y] - o],
                    !.fees = [p.fees EXCEPT ![x] = p.fees[x] + kept]]
  BY <1>1 DEF Pool!Swapped, Pools
<1> HIDE DEF q, o, f, kept, y
<1>5. /\ p.reserve \in [Pool!Tokens -> Nat] /\ p.fees \in [Pool!Tokens -> Nat]
      /\ p.reserve[x] + amount_in \in Nat /\ p.reserve[y] - o \in Nat /\ p.fees[x] + kept \in Nat
  BY <1>1, <1>2, <1>3 DEF Pools
<1>6. /\ q \in Pools /\ q.total = p.total /\ q.lp = p.lp
      /\ q.reserve = [p.reserve EXCEPT ![x] = p.reserve[x] + amount_in, ![y] = p.reserve[y] - o]
  BY <1>4, <1>5 DEF Pools
<1>7. q.reserve[x] = p.reserve[x] + amount_in /\ q.reserve[y] = p.reserve[y] - o
  BY <1>1, <1>5, <1>6
<1>8. p.reserve[x] * p.reserve[Pool!Other(x)] <= q.reserve[x] * q.reserve[Pool!Other(x)]
  BY <1>3, <1>7 DEF y
<1>9. Pool!WorthNoLess(p, q) /\ (HasHolders(p) => HasHolders(q))
  BY <1>6, <1>8, SameLiquidity
<1>10. TotalInReserves(p) => TotalInReserves(q)
  BY <1>1, <1>6, <1>9, TotalStaysInReserves
<1>11. QED BY <1>6, <1>9, <1>10 DEF q

LEMMA ClaimedKeeps ==
  ASSUME U64 \in Nat, NumUsers \in Nat, NEW p \in Pools, NEW u \in Pool!Users, p.total > 0
  PROVE  /\ Pool!Claimed(p, u) \in Pools
         /\ Pool!WorthNoLess(p, Pool!Claimed(p, u))
         /\ NoLarger(p, Pool!Claimed(p, u))
         /\ HasHolders(p) => HasHolders(Pool!Claimed(p, u))
<1> DEFINE q == Pool!Claimed(p, u)
           left == [x \in Pool!Tokens |-> Pool!Saturating(p.fees[x] - Pool!Share(p, p.lp[u], p.fees[x]))]
<1>1. left \in [Pool!Tokens -> Nat] /\ \A x \in Pool!Tokens : left[x] <= p.fees[x]
  <2>1. ASSUME NEW x \in Pool!Tokens PROVE Pool!Share(p, p.lp[u], p.fees[x]) \in Nat
    <3>1. p.lp[u] \in Nat /\ p.fees[x] \in Nat /\ p.total \in Nat \ {0}
      BY DEF Pools
    <3>2. Pool!OrZero(Pool!Product(p.lp[u], p.fees[x])) \in Nat
      BY <3>1, SmallProducts
    <3>3. QED BY <3>1, <3>2, QuotientBounds DEF Pool!Share
  <2>2. ASSUME NEW x \in Pool!Tokens PROVE Pool!Saturating(p.fees[x] - Pool!Share(p, p.lp[u], p.fees[x])) \in 0 .. p.fees[x]
    <3>1. p.fees[x] \in Nat
      BY DEF Pools
    <3>2. QED BY <2>1, <3>1 DEF Pool!Saturating
  <2>3. \A x \in Pool!Tokens : p.fees[x] \in Nat
    BY DEF Pools
  <2>4. QED BY <2>2, <2>3
<1>2. q = [p EXCEPT !.fees = left]
  BY DEF Pool!Claimed
<1> HIDE DEF q, left
<1>3. q \in Pools /\ q.total = p.total /\ q.lp = p.lp /\ q.reserve = p.reserve /\ q.fees = left
  BY <1>1, <1>2 DEF Pools
<1>4. PICK x \in Pool!Tokens : TRUE
  BY DEF Pool!Tokens
<1>5. p.reserve[x] * p.reserve[Pool!Other(x)] \in Nat
  BY ProductIsNat DEF Pools, Pool!Tokens, Pool!Other
<1>6. p.reserve[x] * p.reserve[Pool!Other(x)] <= q.reserve[x] * q.reserve[Pool!Other(x)]
  BY <1>3, <1>5
<1>7. NoLarger(p, q)
  BY <1>1, <1>3 DEF NoLarger, Pools
<1>8. QED BY <1>3, <1>6, <1>7, SameLiquidity DEF q

-----------------------------------------------------------------------------
(* The pool contract and its simulation. What bounds the reserves, the fees  *)
(* and the liquidity of one provider bounds the total, too.                  *)

Sized(p) ==
  /\ \A x \in Pool!Tokens : p.reserve[x] <= MaxReserve /\ p.fees[x] <= MaxFees
  /\ \A u \in Pool!Users : p.lp[u] <= MaxLiquidity

SoundPool(p) == p \in Pools /\ Sized(p) /\ HasHolders(p) /\ TotalInReserves(p)

PoolInputTypes ==
  /\ NumUsers \in Nat /\ U64 \in Nat \ {0} /\ BPS \in Nat \ {0}
  /\ PoolAmounts \subseteq Nat \ {0} /\ FeeRates \subseteq 0 .. BPS
  /\ DEFAULT_FEE_BPS \in 0 .. BPS /\ flash_loan_fee_bps \in 0 .. BPS
  /\ MaxReserve \in 0 .. (U64 - 1) /\ MaxFees \in 0 .. (U64 - 1) /\ MaxLiquidity \in 0 .. (U64 - 1)

LEMMA PoolInputsTyped == PoolInputTypes
BY PoolInputs, SimInputs DEF Pool!LiquidityPoolAssumption, Sim!LiquidityPoolSimAssumption, Pool!U64s, PoolInputTypes

LEMMA SoundPoolFits ==
  ASSUME NEW p, SoundPool(p)
  PROVE  p \in Pool!PoolType
<1>1. PoolInputTypes
  BY PoolInputsTyped
<1>2. p.total <= MaxReserve /\ p.total \in Nat
  BY <1>1, SmallTotal DEF SoundPool, Sized, PoolInputTypes, Pools
<1>3. /\ p.reserve \in [Pool!Tokens -> 0 .. (U64 - 1)] /\ p.fees \in [Pool!Tokens -> 0 .. (U64 - 1)]
      /\ p.lp \in [Pool!Users -> 0 .. (U64 - 1)]
  BY <1>1 DEF SoundPool, Sized, PoolInputTypes, Pools
<1>4. p.total \in 0 .. (U64 - 1)
  BY <1>1, <1>2 DEF PoolInputTypes
<1>5. QED BY <1>3, <1>4 DEF Pool!PoolType, Pool!U64s, SoundPool, Pools

LEMMA NoLargerIsSized ==
  ASSUME NEW p \in Pools, NEW q \in Pools, Sized(p), NoLarger(p, q)
  PROVE  Sized(q)
<1>1. PoolInputTypes
  BY PoolInputsTyped
<1>2. /\ \A x \in Pool!Tokens : p.reserve[x] \in Nat /\ p.fees[x] \in Nat /\ q.reserve[x] \in Nat /\ q.fees[x] \in Nat
      /\ \A u \in Pool!Users : p.lp[u] \in Nat /\ q.lp[u] \in Nat
  BY DEF Pools
<1>3. QED BY <1>1, <1>2 DEF Sized, NoLarger, PoolInputTypes

LEMMA EmptyPoolIsSound == SoundPool(Pool!EmptyPool)
<1>1. PoolInputTypes
  BY PoolInputsTyped
<1> DEFINE p == Pool!EmptyPool
<1>2. /\ p \in Pools /\ p.total = 0 /\ p.lp = [u \in 1 .. NumUsers |-> 0]
      /\ \A x \in Pool!Tokens : p.reserve[x] = 0 /\ p.fees[x] = 0
  BY DEF Pool!EmptyPool, Pools, Pool!Users
<1>3. SumTo(p.lp, NumUsers) = 0
  BY <1>1, <1>2, SumToZero DEF PoolInputTypes
<1>4. Sized(p)
  BY <1>1, <1>2 DEF Sized, PoolInputTypes, Pool!Users
<1>5. TotalInReserves(p)
  BY <1>2 DEF TotalInReserves, Pool!Tokens
<1> HIDE DEF p
<1>6. SoundPool(p)
  BY <1>2, <1>3, <1>4, <1>5 DEF SoundPool, HasHolders
<1>7. QED BY <1>6 DEF p

PoolInv == SoundPool(pool) /\ fee_bps \in FeeRates \cup {Pool!NotInitialized}

LEMMA InitializeKeeps ==
  ASSUME PoolInv, Pool!initialize
  PROVE  PoolInv' /\ Pool!WorthNoLess(pool, pool')
<1>1. PoolInputTypes
  BY PoolInputsTyped
<1>2. /\ pool.lp \in [1 .. NumUsers -> Nat] /\ NumUsers \in Nat
      /\ pool' = [Pool!EmptyPool EXCEPT !.lp = pool.lp] /\ fee_bps' \in FeeRates
  BY <1>1 DEF PoolInv, SoundPool, Pools, Pool!Users, Pool!initialize, PoolInputTypes
<1>3. /\ pool' \in Pools /\ pool'.total = 0 /\ pool'.lp = pool.lp
      /\ \A x \in Pool!Tokens : pool'.reserve[x] = 0 /\ pool'.fees[x] = 0
  BY <1>2 DEF Pool!EmptyPool, Pools, Pool!Users
<1>4. SumTo(pool.lp, NumUsers) \in Nat
  BY <1>2, SumToBounds
<1>5. Sized(pool')
  BY <1>1, <1>3 DEF PoolInv, SoundPool, Sized, PoolInputTypes
<1>6. TotalInReserves(pool')
  BY <1>3 DEF TotalInReserves, Pool!Tokens
<1>7. HasHolders(pool')
  BY <1>3, <1>4 DEF HasHolders
<1>8. QED BY <1>2, <1>3, <1>5, <1>6, <1>7 DEF PoolInv, SoundPool, Pool!WorthNoLess

LEMMA SwapKeeps ==
  ASSUME NumUsers \in Nat, pool \in Pools,
         NEW x \in Pool!Tokens, NEW out \in Nat, NEW in_max \in Nat, Pool!swap(x, out, in_max)
  PROVE  /\ pool' \in Pools /\ Pool!WorthNoLess(pool, pool')
         /\ HasHolders(pool) => HasHolders(pool')
         /\ pool'.total = pool.total
<1> DEFINE y == Pool!Other(x)
           s == pool.reserve[y]
           b == pool.reserve[x]
           in == Pool!InAmount(s, b, out)
<1>1. /\ y \in Pool!Tokens /\ y # x /\ Pool!Other(x) = y
      /\ pool \in Pools /\ s \in Nat /\ b \in Nat /\ pool.reserve \in [Pool!Tokens -> Nat]
  BY DEF Pool!Tokens, Pool!Other, Pools
<1>2. /\ out < b
      /\ pool' = [pool EXCEPT !.reserve = [pool.reserve EXCEPT ![x] = b - out, ![y] = s + in]]
  BY <1>1 DEF Pool!swap, Pools
<1>3. in \in Nat /\ s * b <= (s + in) * (b - out)
  BY <1>1, <1>2, BuyingPart
<1> HIDE DEF in
<1>4. b - out \in Nat /\ s + in \in Nat
  BY <1>1, <1>2, <1>3
<1>5. /\ pool' \in Pools /\ pool'.total = pool.total /\ pool'.lp = pool.lp
      /\ pool'.reserve = [pool.reserve EXCEPT ![x] = b - out, ![y] = s + in]
  BY <1>1, <1>2, <1>4 DEF Pools
<1>6. pool'.reserve[x] = b - out /\ pool'.reserve[y] = s + in
  BY <1>1, <1>5
<1>7. b * s = s * b /\ (b - out) * (s + in) = (s + in) * (b - out)
  BY <1>1, <1>4
<1>8. pool.reserve[x] * pool.reserve[Pool!Other(x)] <= pool'.reserve[x] * pool'.reserve[Pool!Other(x)]
  BY <1>1, <1>3, <1>6, <1>7
<1>9. Pool!WorthNoLess(pool, pool') /\ (HasHolders(pool) => HasHolders(pool'))
  BY <1>1, <1>5, <1>8, SameLiquidity
<1>10. QED BY <1>5, <1>9

LEMMA PoolStep ==
  ASSUME PoolInv, Pool!PoolNext
  PROVE  PoolInv' /\ Pool!WorthNoLess(pool, pool')
<1>1. /\ U64 \in Nat /\ NumUsers \in Nat /\ BPS \in Nat \ {0} /\ pool \in Pools
      /\ PoolAmounts \subseteq Nat \ {0} /\ HasHolders(pool) /\ TotalInReserves(pool) /\ Sized(pool)
      /\ fee_bps \in FeeRates \cup {Pool!NotInitialized} /\ FeeRates \subseteq 0 .. BPS
      /\ DEFAULT_FEE_BPS \in 0 .. BPS /\ pool.total \in Nat
  BY PoolInputsTyped DEF PoolInputTypes, PoolInv, SoundPool, Pools
<1>2. ASSUME pool' \in Pools, Pool!WorthNoLess(pool, pool'), HasHolders(pool'), TotalInReserves(pool'), Sized(pool'),
             UNCHANGED fee_bps
      PROVE  PoolInv' /\ Pool!WorthNoLess(pool, pool')
  BY <1>1, <1>2 DEF PoolInv, SoundPool
<1>3. CASE Pool!initialize
  BY <1>3, InitializeKeeps
<1>4. ASSUME NEW u \in Pool!Users, NEW amount \in [Pool!Tokens -> PoolAmounts], Pool!add_liquidity(u, amount)
      PROVE  PoolInv' /\ Pool!WorthNoLess(pool, pool')
  <2>1. /\ amount \in [Pool!Tokens -> Nat] /\ pool' = Pool!Added(pool, u, amount) /\ UNCHANGED fee_bps
        /\ pool.total > 0 => \A x \in Pool!Tokens : pool.reserve[x] > 0
        /\ Sized(pool')
    BY <1>1, <1>4 DEF Pool!add_liquidity, Pool!Bounded, Sized
  <2>2. QED BY <1>1, <1>2, <2>1, AddedKeeps
<1>5. ASSUME NEW u \in Pool!Users, NEW tokens \in PoolAmounts, Pool!remove_liquidity(u, tokens)
      PROVE  PoolInv' /\ Pool!WorthNoLess(pool, pool')
  <2>1. /\ tokens \in Nat \ {0} /\ tokens <= pool.total
        /\ pool' = Removed(pool, u, tokens) /\ UNCHANGED fee_bps
    BY <1>1, <1>5 DEF Pool!remove_liquidity, Removed
  <2>2. pool' \in Pools /\ Pool!WorthNoLess(pool, pool') /\ HasHolders(pool') /\ NoLarger(pool, pool')
    BY <1>1, <2>1, RemovedKeeps
  <2>3. TotalInReserves(pool')
    BY <1>1, <2>1, <2>2, TotalStaysInReserves
  <2>4. QED BY <1>1, <1>2, <2>1, <2>2, <2>3, NoLargerIsSized
<1>6. ASSUME NEW x \in Pool!Tokens, NEW amount_in \in PoolAmounts, NEW min_out \in Limits,
             Pool!SwapIn(x, amount_in, min_out)
      PROVE  PoolInv' /\ Pool!WorthNoLess(pool, pool')
  <2>1. Pool!FeeBps \in Nat /\ Pool!FeeBps <= BPS
    BY <1>1 DEF Pool!FeeBps, Pool!NotInitialized
  <2>2. /\ amount_in \in Nat /\ pool' = Pool!Swapped(pool, Pool!FeeBps, x, amount_in) /\ UNCHANGED fee_bps
        /\ Sized(pool')
    BY <1>1, <1>6 DEF Pool!SwapIn, Pool!Bounded, Sized
  <2>3. QED BY <1>1, <1>2, <2>1, <2>2, SwappedKeeps
<1>7. ASSUME NEW x \in Pool!Tokens, NEW out \in PoolAmounts, NEW in_max \in PoolAmounts, Pool!swap(x, out, in_max)
      PROVE  PoolInv' /\ Pool!WorthNoLess(pool, pool')
  <2>1. out \in Nat /\ in_max \in Nat /\ UNCHANGED fee_bps /\ Sized(pool')
    BY <1>1, <1>7 DEF Pool!swap, Pool!Bounded, Sized
  <2>2. pool' \in Pools /\ Pool!WorthNoLess(pool, pool') /\ HasHolders(pool') /\ pool'.total = pool.total
    BY <1>1, <1>7, <2>1, SwapKeeps
  <2>3. TotalInReserves(pool')
    BY <1>1, <2>2, TotalStaysInReserves
  <2>4. QED BY <1>2, <2>1, <2>2, <2>3
<1>8. ASSUME NEW u \in Pool!Users, Pool!claim_fees(u)
      PROVE  PoolInv' /\ Pool!WorthNoLess(pool, pool')
  <2>1. pool.total > 0 /\ pool' = Pool!Claimed(pool, u) /\ UNCHANGED fee_bps
    BY <1>8 DEF Pool!claim_fees
  <2>2. pool' \in Pools /\ Pool!WorthNoLess(pool, pool') /\ HasHolders(pool') /\ NoLarger(pool, pool')
    BY <1>1, <2>1, ClaimedKeeps
  <2>3. TotalInReserves(pool')
    BY <1>1, <2>1, <2>2, TotalStaysInReserves
  <2>4. QED BY <1>1, <1>2, <2>1, <2>2, <2>3, NoLargerIsSized
<1>9. QED BY <1>3, <1>4, <1>5, <1>6, <1>7, <1>8 DEF Pool!PoolNext

(* The simulation uses the same arithmetic. *)
LEMMA SimTypes ==
  /\ Sim!Users = Pool!Users /\ Sim!Tokens = Pool!Tokens /\ Sim!U64s = Pool!U64s
  /\ Sim!PoolType = Pool!PoolType /\ Sim!EmptyPool = Pool!EmptyPool
BY DEF Sim!Users, Pool!Users, Sim!Tokens, Pool!Tokens, Sim!U64s, Pool!U64s, Sim!PoolType, Pool!PoolType,
       Sim!EmptyPool, Pool!EmptyPool

LEMMA SimMath ==
  ASSUME NEW p, NEW u, NEW amount, NEW n, NEW fee, NEW x
  PROVE  /\ Sim!Minted(p, amount) = Pool!Minted(p, amount)
         /\ Sim!Added(p, u, amount) = Pool!Added(p, u, amount)
         /\ Sim!Taken(p, n) = Pool!Taken(p, n)
         /\ Sim!Fee(fee, n) = Pool!Fee(fee, n)
         /\ Sim!Swapped(p, fee, x, n) = Pool!Swapped(p, fee, x, n)
         /\ Sim!Claimed(p, u) = Pool!Claimed(p, u)
         /\ Sim!Saturating(n) = Pool!Saturating(n)
         /\ Sim!WorthNoLess(p, x) = Pool!WorthNoLess(p, x)
<1>1. \A m : Sim!Saturating(m) = Pool!Saturating(m)
  BY DEF Sim!Saturating, Pool!Saturating
<1>2. \A y, z : Sim!OrZero(Sim!Product(y, z)) = Pool!OrZero(Pool!Product(y, z))
  BY DEF Sim!OrZero, Pool!OrZero, Sim!Product, Pool!Product, Sim!Overflow, Pool!Overflow
<1>3. \A m, y : Sim!Share(p, m, y) = Pool!Share(p, m, y)
  BY <1>2 DEF Sim!Share, Pool!Share
<1>4. \A m : Sim!Root(m) = Pool!Root(m)
  BY DEF Sim!Root, Pool!Root
<1>5. Sim!Minted(p, amount) = Pool!Minted(p, amount)
  BY <1>2, <1>4 DEF Sim!Minted, Pool!Minted, Sim!LesserOf, Pool!LesserOf
<1>6. \A y, z : Sim!Fee(y, z) = Pool!Fee(y, z)
  BY <1>2 DEF Sim!Fee, Pool!Fee
<1>7. Sim!Output(p, fee, x, n) = Pool!Output(p, fee, x, n)
  BY <1>2, <1>6 DEF Sim!Output, Pool!Output, Sim!Other, Pool!Other
<1>8. Sim!Added(p, u, amount) = Pool!Added(p, u, amount)
  BY <1>5, SimTypes DEF Sim!Added, Pool!Added
<1>9. Sim!Taken(p, n) = Pool!Taken(p, n)
  BY <1>3, SimTypes DEF Sim!Taken, Pool!Taken
<1>10. Sim!Swapped(p, fee, x, n) = Pool!Swapped(p, fee, x, n)
  BY <1>6, <1>7 DEF Sim!Swapped, Pool!Swapped, Sim!Other, Pool!Other
<1>11. Sim!Claimed(p, u) = Pool!Claimed(p, u)
  BY <1>1, <1>3, SimTypes DEF Sim!Claimed, Pool!Claimed
<1>12. Sim!WorthNoLess(p, x) = Pool!WorthNoLess(p, x)
  BY DEF Sim!WorthNoLess, Pool!WorthNoLess
<1>13. QED BY <1>1, <1>5, <1>6, <1>8, <1>9, <1>10, <1>11, <1>12

Desks == [fee : FeeRates, admin : 0 .. NumUsers, emergency : BOOLEAN]

SimInv == SoundPool(sim) /\ desk \in Desks

LEMMA SimInitial == Sim!SimInit => SimInv
<1>1. SUFFICES ASSUME Sim!SimInit PROVE SimInv
  OBVIOUS
<1>2. sim = Pool!EmptyPool
  BY <1>1, SimTypes DEF Sim!SimInit
<1>3. NumUsers \in Nat
  BY PoolInputsTyped DEF PoolInputTypes
<1>4. PICK f \in FeeRates : desk = [fee |-> f, admin |-> 0, emergency |-> FALSE]
  BY <1>1 DEF Sim!SimInit, Sim!Nobody
<1>5. desk \in Desks
  BY <1>3, <1>4 DEF Desks
<1>6. QED BY <1>2, <1>5, EmptyPoolIsSound DEF SimInv

LEMMA SimStep ==
  ASSUME SimInv, Sim!SimNext
  PROVE  SimInv' /\ Pool!WorthNoLess(sim, sim')
<1>1. /\ U64 \in Nat /\ NumUsers \in Nat /\ BPS \in Nat \ {0} /\ sim \in Pools
      /\ PoolAmounts \subseteq Nat \ {0} /\ HasHolders(sim) /\ TotalInReserves(sim) /\ Sized(sim)
      /\ desk \in Desks /\ FeeRates \subseteq 0 .. BPS
      /\ flash_loan_fee_bps \in 0 .. BPS /\ sim.total \in Nat
      /\ Sim!Users = Pool!Users /\ Sim!Tokens = Pool!Tokens
  BY PoolInputsTyped, SimTypes DEF PoolInputTypes, SimInv, SoundPool, Pools
<1>2. ASSUME sim' \in Pools, Pool!WorthNoLess(sim, sim'), HasHolders(sim'), TotalInReserves(sim'), Sized(sim'),
             UNCHANGED desk
      PROVE  SimInv' /\ Pool!WorthNoLess(sim, sim')
  BY <1>1, <1>2 DEF SimInv, SoundPool
<1>3. ASSUME UNCHANGED sim, desk' \in Desks PROVE SimInv' /\ Pool!WorthNoLess(sim, sim')
  <2>1. sim'.reserve["a"] * sim'.reserve["b"] * sim.total * sim.total \in Nat
    BY <1>1, <1>3 DEF Pools, Pool!Tokens
  <2>2. QED BY <1>3, <2>1 DEF SimInv, SoundPool, HasHolders, TotalInReserves, Sized, Pool!WorthNoLess
<1>4. ASSUME NEW u \in Pool!Users, Sim!set_admin(u) PROVE SimInv' /\ Pool!WorthNoLess(sim, sim')
  <2>1. UNCHANGED sim /\ desk' \in Desks
    BY <1>1, <1>4 DEF Sim!set_admin, Desks, Pool!Users
  <2>2. QED BY <1>3, <2>1
<1>5. ASSUME NEW u \in Pool!Users, NEW enabled \in BOOLEAN, Sim!set_emergency_mode(u, enabled)
      PROVE  SimInv' /\ Pool!WorthNoLess(sim, sim')
  <2>1. desk \in Desks /\ u \in 0 .. NumUsers
    BY <1>1 DEF Pool!Users
  <2>2. UNCHANGED sim /\ desk' = [desk EXCEPT !.admin = u, !.emergency = enabled]
    BY <1>5 DEF Sim!set_emergency_mode
  <2>3. desk' \in Desks
    BY <2>1, <2>2 DEF Desks
  <2>4. QED BY <1>3, <2>2, <2>3
<1>6. ASSUME NEW u \in Pool!Users, NEW amount \in [Pool!Tokens -> PoolAmounts], NEW min_amount \in Limits,
             Sim!sim_add(u, amount, min_amount)
      PROVE  SimInv' /\ Pool!WorthNoLess(sim, sim')
  <2>1. /\ sim' = Sim!Added(sim, u, amount) /\ UNCHANGED desk
        /\ sim.total = 0 \/ \A x \in Pool!Tokens : sim.reserve[x] > 0
    BY <1>1, <1>6 DEF Sim!sim_add
  <2>2. sim' = Pool!Added(sim, u, amount) /\ amount \in [Pool!Tokens -> Nat]
    BY <1>1, <2>1, SimMath
  <2>3. Sized(sim')
    BY <1>1, <1>6 DEF Sim!sim_add, Sim!Bounded, Sized
  <2>4. QED BY <1>1, <1>2, <2>1, <2>2, <2>3, AddedKeeps
<1>7. ASSUME NEW u \in Pool!Users, NEW tokens \in PoolAmounts, NEW min_amount \in Limits,
             Sim!sim_remove(u, tokens, min_amount)
      PROVE  SimInv' /\ Pool!WorthNoLess(sim, sim')
  <2>1. /\ tokens \in Nat \ {0} /\ tokens <= sim.total
        /\ sim' = Removed(sim, u, tokens) /\ UNCHANGED desk
    BY <1>1, <1>7, SimMath DEF Sim!sim_remove, Sim!Takable, Removed
  <2>2. sim' \in Pools /\ Pool!WorthNoLess(sim, sim') /\ HasHolders(sim') /\ NoLarger(sim, sim')
    BY <1>1, <2>1, RemovedKeeps
  <2>3. TotalInReserves(sim')
    BY <1>1, <2>1, <2>2, TotalStaysInReserves
  <2>4. QED BY <1>1, <1>2, <2>1, <2>2, <2>3, NoLargerIsSized
<1>8. ASSUME NEW tokens \in PoolAmounts, Sim!emergency_withdraw(tokens)
      PROVE  SimInv' /\ Pool!WorthNoLess(sim, sim')
  <2>1. /\ tokens \in Nat \ {0} /\ tokens <= sim.total
        /\ sim' = Pool!Taken(sim, tokens) /\ UNCHANGED desk
    BY <1>1, <1>8, SimMath DEF Sim!emergency_withdraw, Sim!Takable
  <2>2. sim' \in Pools /\ Pool!WorthNoLess(sim, sim') /\ HasHolders(sim') /\ NoLarger(sim, sim')
    BY <1>1, <2>1, TakenKeeps, TakenFromNobody
  <2>3. TotalInReserves(sim')
    BY <1>1, <2>1, <2>2, TotalStaysInReserves
  <2>4. QED BY <1>1, <1>2, <2>1, <2>2, <2>3, NoLargerIsSized
<1>9. ASSUME NEW x \in Pool!Tokens, NEW amount_in \in PoolAmounts, NEW min_out \in Limits,
             Sim!sim_swap(x, amount_in, min_out)
      PROVE  SimInv' /\ Pool!WorthNoLess(sim, sim')
  <2>0. desk.fee \in FeeRates
    BY <1>1 DEF Desks
  <2>a. desk.fee \in 0 .. BPS
    BY <1>1, <2>0
  <2>1. desk.fee \in Nat /\ desk.fee <= BPS
    BY <1>1, <2>a
  <2>2. /\ amount_in \in Nat /\ sim' = Pool!Swapped(sim, desk.fee, x, amount_in) /\ UNCHANGED desk
        /\ Sized(sim')
    BY <1>1, <1>9, SimMath DEF Sim!sim_swap, Sim!Bounded, Sized
  <2>3. QED BY <1>1, <1>2, <2>1, <2>2, SwappedKeeps
<1>10. ASSUME NEW x \in Pool!Tokens, NEW amount \in PoolAmounts, Sim!flash_loan(x, amount)
       PROVE  SimInv' /\ Pool!WorthNoLess(sim, sim')
  <2>1. PICK f : f = Pool!Fee(flash_loan_fee_bps, amount)
    OBVIOUS
  <2>2. f \in Nat
    BY <1>1, <2>1, FeeBounds
  <2>3. /\ sim' = [sim EXCEPT !.reserve = [sim.reserve EXCEPT ![x] = sim.reserve[x] + f]] /\ UNCHANGED desk
        /\ Sized(sim')
    BY <1>1, <1>10, <2>1, SimMath DEF Sim!flash_loan, Sim!Bounded, Sized, Pools
  <2>4. sim.reserve \in [Pool!Tokens -> Nat] /\ sim.reserve[x] \in Nat
    BY <1>1 DEF Pools
  <2>5. /\ sim' \in Pools /\ sim'.total = sim.total /\ sim'.lp = sim.lp
        /\ sim'.reserve = [sim.reserve EXCEPT ![x] = sim.reserve[x] + f]
    BY <1>1, <2>2, <2>3, <2>4 DEF Pools
  <2>6. PICK y \in Pool!Tokens : y = Pool!Other(x) /\ y # x
    BY DEF Pool!Other, Pool!Tokens
  <2>7. sim'.reserve[x] = sim.reserve[x] + f /\ sim'.reserve[y] = sim.reserve[y] /\ sim.reserve[y] \in Nat
    BY <2>4, <2>5, <2>6
  <2>8. sim.reserve[x] * sim.reserve[y] <= sim'.reserve[x] * sim'.reserve[y]
    BY <2>2, <2>4, <2>7, ProductGrows
  <2>9. Pool!WorthNoLess(sim, sim') /\ HasHolders(sim')
    BY <1>1, <2>5, <2>6, <2>8, SameLiquidity
  <2>10. TotalInReserves(sim')
    BY <1>1, <2>5, <2>9, TotalStaysInReserves
  <2>11. QED BY <1>2, <2>3, <2>5, <2>9, <2>10
<1>11. ASSUME NEW u \in Pool!Users, Sim!sim_claim(u) PROVE SimInv' /\ Pool!WorthNoLess(sim, sim')
  <2>1. sim.total > 0 /\ sim' = Pool!Claimed(sim, u) /\ UNCHANGED desk
    BY <1>11, SimMath DEF Sim!sim_claim
  <2>2. sim' \in Pools /\ Pool!WorthNoLess(sim, sim') /\ HasHolders(sim') /\ NoLarger(sim, sim')
    BY <1>1, <2>1, ClaimedKeeps
  <2>3. TotalInReserves(sim')
    BY <1>1, <2>1, <2>2, TotalStaysInReserves
  <2>4. QED BY <1>1, <1>2, <2>1, <2>2, <2>3, NoLargerIsSized
<1>12. QED BY <1>1, <1>4, <1>5, <1>6, <1>7, <1>8, <1>9, <1>10, <1>11 DEF Sim!SimNext

-----------------------------------------------------------------------------
(* The vault. Its shares are never worth less than a token each, so that    *)
(* they do not run dry.                                                     *)

Vaults == [total_shares : Nat, total_assets : 0 .. MaxVaultAssets, strategies : Seq(Apys),
           active : Nat, fee : Nat, admin : BOOLEAN, paused : BOOLEAN]

VaultInv ==
  /\ vault \in Vaults
  /\ vault.total_shares <= vault.total_assets
  /\ vault.strategies = <<>> => vault.active = 1
  /\ vault.strategies # <<>> => vault.active \in DOMAIN vault.strategies

SharesWorth(before, after) ==
  before.total_shares > 0 /\ after.total_shares > 0 =>
    after.total_assets * before.total_shares >= before.total_assets * after.total_shares

LEMMA VaultInputsTyped ==
  /\ U64 \in Nat \ {0} /\ MaxVaultAssets \in Nat /\ MaxVaultAssets < U64
  /\ VaultAmounts \subseteq Nat \ {0} /\ Apys \subseteq Nat /\ PerformanceFees \subseteq Nat
BY YieldInputs DEF Yield!VaultAssumption

LEMMA VaultInitial == Yield!VaultInit => VaultInv
BY VaultInputsTyped DEF Yield!VaultInit, VaultInv, Vaults

LEMMA VaultIsSound == VaultInv => Yield!VaultSound
BY VaultInputsTyped DEF VaultInv, Vaults, Yield!VaultSound, Yield!VaultType, Yield!U64_MAX

\* Products that do not fit are taken for less than they are.
LEMMA MulOrMaxBounds ==
  ASSUME NEW a \in Nat, NEW b \in Nat
  PROVE  Yield!MulOrMax(a, b) \in Nat /\ Yield!MulOrMax(a, b) <= a * b
BY ProductIsNat, VaultInputsTyped DEF Yield!MulOrMax, Yield!U64_MAX

\* A part of n that is rounded down.
LEMMA PartBounds ==
  ASSUME NEW a \in Nat, NEW b \in Nat, NEW n \in Nat \ {0}
  PROVE  /\ Yield!MulOrMax(a, b) \div n \in Nat
         /\ (Yield!MulOrMax(a, b) \div n) * n <= a * b
<1>1. PICK m \in Nat : m = Yield!MulOrMax(a, b) /\ m <= a * b
  BY MulOrMaxBounds
<1>2. m \div n \in Nat /\ (m \div n) * n <= m
  BY <1>1, QuotientBounds
<1>3. a * b \in Nat /\ (m \div n) * n \in Nat
  BY <1>2, ProductIsNat
<1>4. QED BY <1>1, <1>2, <1>3

LEMMA DepositKeeps ==
  ASSUME NEW A \in Nat, NEW S \in Nat, NEW a \in Nat, S > 0, S <= A,
         NEW m \in Nat, m * A <= a * S
  PROVE  (A + a) * S >= A * (S + m) /\ S + m <= A + a
<1>1. (A + a) * S = A * S + a * S /\ A * (S + m) = A * S + m * A
  OBVIOUS
<1>2. A * S \in Nat /\ m * A \in Nat /\ a * S \in Nat
  BY ProductIsNat
<1>3. a * S <= a * A /\ a * A \in Nat
  BY ProductGrows, ProductIsNat
<1>4. m <= a
  <2>1. m * A <= a * A
    BY <1>2, <1>3
  <2>2. QED BY <2>1, ProductCancels
<1>5. QED BY <1>1, <1>2, <1>4

LEMMA WithdrawKeeps ==
  ASSUME NEW A \in Nat, NEW S \in Nat, NEW s \in Nat, S > 0, S <= A, s <= S,
         NEW c \in Nat, c * S <= s * A
  PROVE  c <= A /\ (A - c) * S >= A * (S - s) /\ S - s <= A - c
<1>1. s * A <= S * A /\ S * A = A * S /\ s * A \in Nat /\ A * S \in Nat /\ c * S \in Nat
  BY ProductGrows, ProductIsNat
<1>2. c <= A
  <2>1. c * S <= A * S
    BY <1>1
  <2>2. QED BY <2>1, ProductCancels
<1>3. (A - c) * S = A * S - c * S /\ A * (S - s) = A * S - s * A
  OBVIOUS
<1>4. (A - c) * S >= A * (S - s)
  BY <1>1, <1>3
<1>5. S - s <= A - c
  <2>1. PICK d \in Nat : d = S - s
    OBVIOUS
  <2>2. PICK e \in Nat : e = A - c
    BY <1>2
  <2>3. S * d <= A * d /\ S * d = d * S /\ A * d \in Nat /\ d * S \in Nat /\ e * S \in Nat
    BY <2>1, <2>2, ProductGrows, ProductIsNat
  <2>4. A * d <= e * S
    BY <1>4, <2>1, <2>2
  <2>5. d * S <= e * S
    BY <2>3, <2>4
  <2>6. QED BY <2>1, <2>2, <2>5, ProductCancels
<1>6. QED BY <1>2, <1>4, <1>5

LEMMA OptimalExists ==
  ASSUME VaultInv, Yield!Optimal # vault.active
  PROVE  Yield!Optimal \in DOMAIN vault.strategies /\ Yield!Optimal \in Nat
<1> DEFINE S == vault.strategies
           best == {i \in DOMAIN S : S[i] > 0 /\ \A j \in DOMAIN S : S[j] <= S[i] /\ (j < i => S[j] < S[i])}
<1>1. S \in Seq(Apys)
  BY DEF VaultInv, Vaults
<1>2. Yield!Optimal = IF best = {} THEN 1 ELSE CHOOSE i \in best : TRUE
  BY DEF Yield!Optimal
<1>3. CASE best = {}
  <2>1. S # <<>>
    BY <1>2, <1>3 DEF VaultInv
  <2>2. QED BY <1>1, <1>2, <1>3, <2>1
<1>4. CASE best # {}
  <2>1. Yield!Optimal \in best
    BY <1>2, <1>4
  <2>2. QED BY <1>1, <2>1
<1>5. QED BY <1>3, <1>4

LEMMA VaultStep ==
  ASSUME VaultInv, Yield!VaultNext
  PROVE  VaultInv' /\ SharesWorth(vault, vault')
<1>1. /\ vault \in Vaults /\ vault.total_shares \in Nat /\ vault.total_assets \in Nat
      /\ vault.total_assets \in 0 .. MaxVaultAssets
      /\ MaxVaultAssets \in Nat /\ vault.total_shares <= vault.total_assets
      /\ vault.strategies \in Seq(Apys)
  BY VaultInputsTyped DEF VaultInv, Vaults
<1>2. ASSUME NEW A, NEW S, A = vault.total_assets, S = vault.total_shares
      PROVE  A * S >= A * S
  BY <1>1, <1>2, ProductIsNat
<1>3. ASSUME vault' \in Vaults, vault'.total_shares = vault.total_shares, vault'.total_assets = vault.total_assets,
             vault'.strategies = <<>> => vault'.active = 1,
             vault'.strategies # <<>> => vault'.active \in DOMAIN vault'.strategies
      PROVE  VaultInv' /\ SharesWorth(vault, vault')
  BY <1>1, <1>2, <1>3 DEF VaultInv, SharesWorth
<1>4. ASSUME NEW fee \in PerformanceFees, Yield!vault_initialize(fee) \/ Yield!set_performance_fee(fee)
      PROVE  VaultInv' /\ SharesWorth(vault, vault')
  <2>1. fee \in Nat
    BY VaultInputsTyped
  <2>2. \E a \in BOOLEAN : vault' = [vault EXCEPT !.admin = a, !.fee = fee]
    BY <1>1, <1>4 DEF Yield!vault_initialize, Yield!set_performance_fee, Vaults
  <2>3. /\ vault' \in Vaults /\ vault'.total_shares = vault.total_shares /\ vault'.total_assets = vault.total_assets
        /\ vault'.strategies = vault.strategies /\ vault'.active = vault.active
    BY <1>1, <2>1, <2>2 DEF Vaults
  <2>4. QED BY <1>3, <2>3 DEF VaultInv
<1>5. ASSUME NEW apy \in Apys, Yield!add_strategy(apy) PROVE VaultInv' /\ SharesWorth(vault, vault')
  <2>1. vault' = [vault EXCEPT !.strategies = Append(vault.strategies, apy)]
    BY <1>5 DEF Yield!add_strategy
  <2>a. PICK more : more = Append(vault.strategies, apy) /\ more \in Seq(Apys)
    <3>1. Append(vault.strategies, apy) \in Seq(Apys)
      BY <1>1, AppendProperties
    <3>2. QED BY <3>1
  <2>b. vault' = [vault EXCEPT !.strategies = more]
    BY <2>1, <2>a
  <2>2. /\ vault' \in Vaults /\ vault'.total_shares = vault.total_shares /\ vault'.total_assets = vault.total_assets
        /\ vault'.strategies = Append(vault.strategies, apy) /\ vault'.active = vault.active
    BY <1>1, <2>a, <2>b DEF Vaults
  <2>3. vault'.strategies # <<>> /\ DOMAIN vault'.strategies = 1 .. (Len(vault.strategies) + 1)
        /\ Len(vault.strategies) \in Nat /\ DOMAIN vault.strategies = 1 .. Len(vault.strategies)
    BY <1>1, <2>2
  <2>4. vault'.active \in DOMAIN vault'.strategies
    <3>1. CASE vault.strategies = <<>>
      BY <2>2, <2>3, <3>1 DEF VaultInv
    <3>2. CASE vault.strategies # <<>>
      BY <2>2, <2>3, <3>2 DEF VaultInv
    <3>3. QED BY <3>1, <3>2
  <2>5. QED BY <1>3, <2>2, <2>3, <2>4
<1>6. ASSUME NEW to \in DOMAIN vault.strategies, to \in Nat, vault' = Yield!Switched(to)
      PROVE  VaultInv' /\ SharesWorth(vault, vault')
  <2>1. vault' = [vault EXCEPT !.active = to]
    BY <1>6 DEF Yield!Switched
  <2>2. /\ vault' \in Vaults /\ vault'.total_shares = vault.total_shares /\ vault'.total_assets = vault.total_assets
        /\ vault'.strategies = vault.strategies /\ vault'.active = to
    BY <1>1, <1>6, <2>1 DEF Vaults
  <2>3. vault.strategies # <<>>
    BY <1>6
  <2>4. QED BY <1>3, <1>6, <2>2, <2>3
<1>7. ASSUME NEW to \in DOMAIN vault.strategies, Yield!switch_strategy(to)
      PROVE  VaultInv' /\ SharesWorth(vault, vault')
  BY <1>1, <1>6, <1>7 DEF Yield!switch_strategy
<1>8. ASSUME NEW threshold \in Thresholds, Yield!optimize_strategy(threshold)
      PROVE  VaultInv' /\ SharesWorth(vault, vault')
  BY <1>6, <1>8, OptimalExists DEF Yield!optimize_strategy
<1>9. ASSUME NEW amount \in VaultAmounts, Yield!deposit(amount) PROVE VaultInv' /\ SharesWorth(vault, vault')
  <2>1. PICK A \in Nat, S \in Nat, a \in Nat : A = vault.total_assets /\ S = vault.total_shares /\ a = amount
    BY <1>1, VaultInputsTyped
  <2>2. PICK m : m = Yield!calculate_shares_for_amount(amount)
    OBVIOUS
  <2>3. /\ vault' = [vault EXCEPT !.total_assets = A + a, !.total_shares = S + m]
        /\ A + a <= MaxVaultAssets
    BY <1>9, <2>1, <2>2 DEF Yield!deposit
  <2>4. m \in Nat /\ S + m <= A + a /\ (S > 0 => (A + a) * S >= A * (S + m))
    <3>1. CASE S = 0
      BY <2>1, <2>2, <3>1, <1>1 DEF Yield!calculate_shares_for_amount
    <3>2. CASE S # 0
      <4>1. A \in Nat \ {0} /\ S <= A /\ S > 0
        BY <1>1, <2>1, <3>2
      <4>2. m = Yield!MulOrMax(a, S) \div A
        BY <2>1, <2>2, <4>1 DEF Yield!calculate_shares_for_amount
      <4>3. m \in Nat /\ m * A <= a * S
        BY <4>1, <4>2, PartBounds
      <4>4. QED BY <4>1, <4>3, DepositKeeps
    <3>3. QED BY <3>1, <3>2
  <2>a. S + m \in Nat /\ A + a \in 0 .. MaxVaultAssets
    BY <1>1, <2>3, <2>4
  <2>5. /\ vault' \in Vaults /\ vault'.total_shares = S + m /\ vault'.total_assets = A + a
        /\ vault'.strategies = vault.strategies /\ vault'.active = vault.active
    BY <1>1, <2>3, <2>a DEF Vaults
  <2>6. QED BY <2>1, <2>4, <2>5 DEF VaultInv, SharesWorth
<1>10. ASSUME NEW shares \in VaultAmounts, Yield!withdraw(shares) PROVE VaultInv' /\ SharesWorth(vault, vault')
  <2>1. PICK A \in Nat, S \in Nat, s \in Nat \ {0} : A = vault.total_assets /\ S = vault.total_shares /\ s = shares
    BY <1>1, VaultInputsTyped
  <2>2. PICK c : c = Yield!calculate_assets_for_shares(shares)
    OBVIOUS
  <2>3. s <= S /\ S \in Nat \ {0} /\ S <= A
    BY <1>1, <1>10, <2>1 DEF Yield!withdraw
  <2>4. c \in Nat /\ c * S <= s * A
    BY <2>1, <2>2, <2>3, PartBounds DEF Yield!calculate_assets_for_shares
  <2>5. c <= A /\ (A - c) * S >= A * (S - s) /\ S - s <= A - c
    BY <2>3, <2>4, WithdrawKeeps
  <2>a. vault' = [vault EXCEPT !.total_assets = IF c > A THEN 0 ELSE A - c, !.total_shares = S - s]
    BY <1>10, <2>1, <2>2 DEF Yield!withdraw
  <2>b. (IF c > A THEN 0 ELSE A - c) = A - c /\ A - c \in 0 .. MaxVaultAssets /\ S - s \in Nat
    <3>1. /\ A \in 0 .. MaxVaultAssets /\ c \in Nat /\ c <= A /\ s \in Nat /\ S \in Nat /\ s <= S
          /\ MaxVaultAssets \in Nat
      BY <1>1, <2>1, <2>3, <2>4, <2>5
    <3>2. QED BY <3>1
  <2>6. vault' = [vault EXCEPT !.total_assets = A - c, !.total_shares = S - s]
    BY <2>a, <2>b
  <2>7. /\ vault' \in Vaults /\ vault'.total_shares = S - s /\ vault'.total_assets = A - c
        /\ vault'.strategies = vault.strategies /\ vault'.active = vault.active
    BY <1>1, <2>b, <2>6 DEF Vaults
  <2>8. QED BY <2>1, <2>5, <2>7 DEF VaultInv, SharesWorth
<1>11. ASSUME NEW paused \in BOOLEAN, Yield!SetPaused(paused) PROVE VaultInv' /\ SharesWorth(vault, vault')
  <2>1. vault' = [vault EXCEPT !.paused = paused]
    BY <1>11 DEF Yield!SetPaused
  <2>2. /\ vault' \in Vaults /\ vault'.total_shares = vault.total_shares /\ vault'.total_assets = vault.total_assets
        /\ vault'.strategies = vault.strategies /\ vault'.active = vault.active
    BY <1>1, <2>1 DEF Vaults
  <2>3. QED BY <1>3, <2>2 DEF VaultInv
<1>12. QED BY <1>4, <1>5, <1>7, <1>8, <1>9, <1>10, <1>11 DEF Yield!VaultNext

-----------------------------------------------------------------------------
(* The storage of the liquidity tokens.                                     *)

LpInv == lp_balance \in [1 .. NumUsers -> Nat] /\ lp_supply = SumTo(lp_balance, NumUsers)

LEMMA LpSums == LpTokens!SumTo(lp_balance, NumUsers) = SumTo(lp_balance, NumUsers)
BY DEF LpTokens!SumTo, LpTokens!PartialSums, SumTo, PartialSums

LEMMA LpInputsTyped == NumUsers \in Nat /\ LpAmounts \subseteq Int
BY LpTokensInputs DEF LpTokens!LpTokenStorageAssumption

LEMMA LpInitial == LpTokens!LpInit => LpInv
BY LpInputsTyped, SumToZero DEF LpTokens!LpInit, LpInv

LEMMA LpIsHeld == LpInv => LpTokens!LpSupplyHeld
BY LpSums DEF LpInv, LpTokens!LpSupplyHeld

LEMMA LpStep ==
  ASSUME LpInv, LpTokens!LpNext
  PROVE  LpInv'
<1>1. PICK u \in 1 .. NumUsers, amount \in LpAmounts : LpTokens!lp_mint(u, amount) \/ LpTokens!lp_burn(u, amount)
  BY DEF LpTokens!LpNext
<1>2. PICK b \in Int, s \in Int : /\ lp_balance' = [lp_balance EXCEPT ![u] = b] /\ b >= 0
                                  /\ lp_supply' = s /\ s = lp_supply - lp_balance[u] + b
  <2>1. amount \in Int /\ lp_balance[u] \in Nat /\ lp_supply \in Int
    BY LpInputsTyped, SumToType DEF LpInv
  <2>2. CASE LpTokens!lp_mint(u, amount)
    <3>1. /\ lp_balance' = [lp_balance EXCEPT ![u] = lp_balance[u] + amount] /\ amount > 0
          /\ lp_supply' = lp_supply + amount
      BY <2>2 DEF LpTokens!lp_mint
    <3>2. PICK b \in Int, s \in Int : b = lp_balance[u] + amount /\ s = lp_supply + amount
      BY <2>1
    <3>3. b >= 0 /\ s = lp_supply - lp_balance[u] + b
      BY <2>1, <3>1, <3>2
    <3>4. QED BY <3>1, <3>2, <3>3
  <2>3. CASE LpTokens!lp_burn(u, amount)
    <3>1. /\ lp_balance' = [lp_balance EXCEPT ![u] = lp_balance[u] - amount] /\ lp_balance[u] >= amount
          /\ lp_supply' = lp_supply - amount
      BY <2>3 DEF LpTokens!lp_burn
    <3>2. PICK b \in Int, s \in Int : b = lp_balance[u] - amount /\ s = lp_supply - amount
      BY <2>1
    <3>3. b >= 0 /\ s = lp_supply - lp_balance[u] + b
      BY <2>1, <3>1, <3>2
    <3>4. QED BY <3>1, <3>2, <3>3
  <2>4. QED BY <1>1, <2>2, <2>3
<1>3. lp_balance \in [1 .. NumUsers -> Int] /\ NumUsers \in Nat
  BY LpInputsTyped DEF LpInv
<1>4. SumTo(lp_balance', NumUsers) = SumTo(lp_balance, NumUsers) - lp_balance[u] + b
  BY <1>2, <1>3, SumToUpdate
<1>5. lp_balance' \in [1 .. NumUsers -> Nat]
  BY <1>2 DEF LpInv
<1>6. QED BY <1>2, <1>4, <1>5 DEF LpInv

-----------------------------------------------------------------------------
(* Staking. Whatever a stake earns is rounded down twice.                   *)

StakeRecords == [amount : Nat, start_time : Nat, duration : Nat, rate : Nat]

StakingInv ==
  /\ now \in 0 .. MaxTime
  /\ tiers \in [DOMAIN tiers -> Nat] /\ DOMAIN tiers \subseteq Durations
  /\ stakes \in [DOMAIN stakes -> StakeRecords]
  /\ \A u \in DOMAIN stakes : stakes[u].start_time <= now
  /\ Locked!PaidForTheLock

LEMMA StakingInputsTyped ==
  /\ TIME \in Nat \ {0} /\ MaxTime \in Nat /\ MaxTime < TIME
  /\ Durations \subseteq Nat /\ Rates \subseteq Nat /\ StakeAmounts \subseteq Nat /\ YEAR \in Nat \ {0}
  /\ DefaultTiers \in [DOMAIN DefaultTiers -> Nat] /\ DOMAIN DefaultTiers \subseteq Durations
BY LockedInputs DEF Locked!StakingAssumption, Locked!IsMap

LEMMA StakingInitial == Locked!StakingInit => StakingInv
BY StakingInputsTyped DEF Locked!StakingInit, Locked!EmptyMap, StakingInv, Locked!PaidForTheLock

\* What a rate makes of an amount held for a time.
Earned(amount, rate, time, year) == (((amount * rate) \div 10000) * time) \div year

LEMMA EarnedBounds ==
  ASSUME NEW amount \in Nat, NEW rate \in Nat, NEW time \in Nat, NEW year \in Nat \ {0}
  PROVE  /\ Earned(amount, rate, time, year) \in Nat
         /\ Earned(amount, rate, time, year) * 10000 * year <= amount * rate * time
<1>1. PICK r \in Nat : r = amount * rate
  BY ProductIsNat
<1>2. PICK q \in Nat : q = r \div 10000 /\ q * 10000 <= r
  BY QuotientBounds
<1>3. PICK m \in Nat : m = q * time
  BY ProductIsNat
<1>4. PICK e \in Nat : e = m \div year /\ e * year <= m
  BY QuotientBounds
<1>5. e * 10000 * year = 10000 * (e * year) /\ e * year \in Nat
  BY ProductIsNat
<1>6. 10000 * (e * year) <= 10000 * m
  BY <1>4, <1>5
<1>7. 10000 * m = (q * 10000) * time
  BY <1>3
<1>8. (q * 10000) * time <= r * time
  BY <1>2, ProductGrows
<1>9. e * 10000 * year <= r * time
  BY <1>5, <1>6, <1>7, <1>8, ProductIsNat
<1>10. QED BY <1>1, <1>2, <1>3, <1>4, <1>9 DEF Earned

\* What a payout says of the stake it settled.
LEMMA PayoutIsEarned ==
  ASSUME StakingInv, NEW u \in DOMAIN stakes, now >= Locked!Unlocks(stakes[u]),
         NEW p, p = [user |-> u, of |-> stakes[u], paid |-> stakes[u].amount + Locked!pending_rewards(u), at |-> now]
  PROVE  LET held_for == p.at - p.of.start_time
         IN  /\ p.paid >= p.of.amount
             /\ (p.paid - p.of.amount) * 10000 * YEAR <= p.of.amount * p.of.rate * held_for
             /\ p.of.start_time + p.of.duration < TIME => held_for >= p.of.duration
<1>1. /\ stakes[u].amount \in Nat /\ stakes[u].rate \in Nat /\ stakes[u].duration \in Nat /\ stakes[u].start_time \in Nat
      /\ stakes[u].start_time <= now /\ now \in Nat /\ YEAR \in Nat \ {0} /\ TIME \in Nat \ {0}
  BY StakingInputsTyped DEF StakingInv, StakeRecords
<1>2. PICK a \in Nat, r \in Nat, d \in Nat, s \in Nat :
        a = stakes[u].amount /\ r = stakes[u].rate /\ d = stakes[u].duration /\ s = stakes[u].start_time
  BY <1>1
<1>3. PICK t \in Nat : t = now - s
  BY <1>1, <1>2
<1>4. PICK e : e = Earned(a, r, t, YEAR)
  OBVIOUS
<1>5. e = Locked!pending_rewards(u)
  BY <1>2, <1>3, <1>4 DEF Earned, Locked!pending_rewards
<1>6. e \in Nat /\ e * 10000 * YEAR <= a * r * t
  BY <1>1, <1>4, EarnedBounds
<1>7. p.at - p.of.start_time = t /\ p.paid = a + e /\ p.of.amount = a /\ p.of.rate = r
      /\ p.of.start_time = s /\ p.of.duration = d
  BY <1>2, <1>3, <1>5
<1>8. s + d < TIME => t >= d
  <2>1. now >= (s + d) % TIME
    BY <1>2 DEF Locked!Unlocks
  <2>2. ASSUME s + d < TIME PROVE (s + d) % TIME = s + d
    BY <1>1, <2>2
  <2>3. QED BY <1>1, <1>3, <2>1, <2>2
<1>9. (a + e) - a = e /\ a + e >= a
  BY <1>6
<1>10. QED BY <1>6, <1>7, <1>8, <1>9

LEMMA PayoutsStay ==
  ASSUME Locked!PaidForTheLock, UNCHANGED payouts
  PROVE  Locked!PaidForTheLock'
BY DEF Locked!PaidForTheLock

LEMMA StakingStep ==
  ASSUME StakingInv, Locked!StakingNext
  PROVE  StakingInv'
<1>1. now \in Nat /\ MaxTime \in Nat /\ now <= MaxTime /\ DOMAIN tiers \subseteq Nat
  BY StakingInputsTyped DEF StakingInv
<1>2. CASE Locked!staking_initialize
  BY <1>2, StakingInputsTyped DEF Locked!staking_initialize, StakingInv, Locked!PaidForTheLock
<1>3. ASSUME NEW duration \in Durations, NEW rate \in Rates, Locked!set_tier(duration, rate)
      PROVE  StakingInv'
  <2>1. rate \in Nat
    BY StakingInputsTyped
  <2>2. /\ tiers' = [x \in DOMAIN tiers \cup {duration} |-> IF x = duration THEN rate ELSE tiers[x]]
        /\ UNCHANGED <<stakes, now, payouts>>
    BY <1>3 DEF Locked!set_tier, Locked!Put
  <2>3. tiers' \in [DOMAIN tiers' -> Nat] /\ DOMAIN tiers' \subseteq Durations
    BY <2>1, <2>2 DEF StakingInv
  <2>4. QED BY <2>2, <2>3 DEF StakingInv, Locked!PaidForTheLock
<1>4. ASSUME NEW u \in 1 .. NumUsers, NEW amount \in StakeAmounts, NEW duration \in Durations,
             Locked!stake(u, amount, duration)
      PROVE  StakingInv'
  <2>1. PICK s : s = [amount |-> amount, start_time |-> now, duration |-> duration, rate |-> tiers[duration]]
    OBVIOUS
  <2>2. /\ duration \in DOMAIN tiers /\ UNCHANGED <<tiers, now, payouts>>
        /\ stakes' = [x \in DOMAIN stakes \cup {u} |-> IF x = u THEN s ELSE stakes[x]]
    BY <1>4, <2>1 DEF Locked!stake, Locked!Put
  <2>3. s \in StakeRecords /\ s.start_time <= now
    BY <1>1, <2>1, <2>2, StakingInputsTyped DEF StakeRecords, StakingInv
  <2>4. stakes' \in [DOMAIN stakes' -> StakeRecords] /\ \A x \in DOMAIN stakes' : stakes'[x].start_time <= now
    BY <2>2, <2>3 DEF StakingInv
  <2>5. Locked!PaidForTheLock'
    BY <2>2, PayoutsStay DEF StakingInv
  <2>6. QED BY <2>2, <2>4, <2>5 DEF StakingInv
<1>5. ASSUME NEW u \in 1 .. NumUsers, Locked!withdraw_stake(u) PROVE StakingInv'
  <2>1. PICK p : p = [user |-> u, of |-> stakes[u], paid |-> stakes[u].amount + Locked!pending_rewards(u), at |-> now]
    OBVIOUS
  <2>2. /\ u \in DOMAIN stakes /\ now >= Locked!Unlocks(stakes[u]) /\ UNCHANGED <<tiers, now>>
        /\ payouts' \subseteq payouts \cup {p}
        /\ stakes' = [x \in DOMAIN stakes \ {u} |-> stakes[x]]
    BY <1>5, <2>1 DEF Locked!withdraw_stake, Locked!Drop
  <2>3. Locked!PaidForTheLock'
    BY <2>1, <2>2, PayoutIsEarned DEF Locked!PaidForTheLock, StakingInv
  <2>4. QED BY <2>2, <2>3 DEF StakingInv
<1>6. CASE Locked!Elapse
  <2>1. now' \in 0 .. MaxTime /\ now' >= now /\ UNCHANGED <<tiers, stakes, payouts>>
    BY <1>1, <1>6 DEF Locked!Elapse
  <2>2. \A u \in DOMAIN stakes' : stakes'[u].start_time <= now'
    BY <1>1, <2>1 DEF StakingInv, StakeRecords
  <2>3. QED BY <2>1, <2>2 DEF StakingInv, Locked!PaidForTheLock
<1>7. QED BY <1>2, <1>3, <1>4, <1>5, <1>6 DEF Locked!StakingNext

StakeKept(u) ==
  IF u \in DOMAIN stakes' THEN stakes'[u] = stakes[u]
  ELSE \E p \in payouts' : p.user = u /\ p.of = stakes[u] /\ p.at = now

LEMMA StakeIsKept ==
  ASSUME Locked!StakingNext, NEW w \in DOMAIN stakes
  PROVE  StakeKept(w)
<1>1. CASE UNCHANGED stakes
  BY <1>1 DEF StakeKept
<1>2. ASSUME NEW u \in 1 .. NumUsers, NEW amount \in StakeAmounts, NEW duration \in Durations,
             Locked!stake(u, amount, duration)
      PROVE  StakeKept(w)
  BY <1>2 DEF Locked!stake, Locked!Put, StakeKept
<1>3. ASSUME NEW u \in 1 .. NumUsers, Locked!withdraw_stake(u) PROVE StakeKept(w)
  <2>1. PICK p : p = [user |-> u, of |-> stakes[u], paid |-> stakes[u].amount + Locked!pending_rewards(u), at |-> now]
    OBVIOUS
  <2>2. p \in payouts' /\ stakes' = [x \in DOMAIN stakes \ {u} |-> stakes[x]]
    BY <1>3, <2>1 DEF Locked!withdraw_stake, Locked!Drop
  <2>3. CASE w = u
    BY <2>1, <2>2, <2>3 DEF StakeKept
  <2>4. CASE w # u
    BY <2>2, <2>4 DEF StakeKept
  <2>5. QED BY <2>3, <2>4
<1>4. QED BY <1>1, <1>2, <1>3 DEF Locked!StakingNext, Locked!staking_initialize, Locked!set_tier, Locked!Elapse

-----------------------------------------------------------------------------
(* The escrow.                                                              *)

EscrowRecords(S, A, H, T) ==
  [sender : S, recipient : S, amount : A, hashlock : H, expiration : T, claimed : BOOLEAN, refunded : BOOLEAN]

EscrowInv ==
  /\ escrow_now \in Nat
  /\ escrows \in [DOMAIN escrows -> EscrowRecords(1 .. NumUsers, EscrowAmounts, Preimages, Nat)]
  /\ \A id \in DOMAIN escrows : ~(escrows[id].claimed /\ escrows[id].refunded)

EscrowKept(id) ==
  /\ id \in DOMAIN escrows'
  /\ escrows'[id] = [escrows[id] EXCEPT !.claimed = escrows'[id].claimed, !.refunded = escrows'[id].refunded]
  /\ ~(escrows'[id].claimed /\ escrows'[id].refunded)
  /\ escrows[id].claimed => escrows'[id].claimed
  /\ escrows[id].refunded => escrows'[id].refunded
  /\ escrows'[id].refunded /\ ~escrows[id].refunded => escrow_now > escrows[id].expiration

LEMMA EscrowInitial == Held!EscrowInit => EscrowInv
BY DEF Held!EscrowInit, Held!EmptyMap, EscrowInv

\* An escrow that a step leaves alone.
LEMMA EscrowStays ==
  ASSUME EscrowInv, NEW id \in DOMAIN escrows, id \in DOMAIN escrows', escrows'[id] = escrows[id]
  PROVE  EscrowKept(id)
<1>1. PICK e : e = escrows[id] /\ e \in EscrowRecords(1 .. NumUsers, EscrowAmounts, Preimages, Nat)
               /\ ~(e.claimed /\ e.refunded)
  BY DEF EscrowInv
<1>2. e = [e EXCEPT !.claimed = e.claimed, !.refunded = e.refunded]
  BY <1>1 DEF EscrowRecords
<1>3. QED BY <1>1, <1>2 DEF EscrowKept

\* Settling is either of the two marks, on an escrow that has none.
LEMMA SettlingKeeps ==
  ASSUME EscrowInv, NEW id \in DOMAIN escrows, NEW c \in BOOLEAN, NEW r \in BOOLEAN, ~(c /\ r),
         Held!NotSettled(escrows[id]), r => escrow_now > escrows[id].expiration, UNCHANGED escrow_now,
         NEW e, e = [escrows[id] EXCEPT !.claimed = c, !.refunded = r],
         escrows' = [escrows EXCEPT ![id] = e]
  PROVE  EscrowInv' /\ \A i \in DOMAIN escrows : EscrowKept(i)
<1>1. PICK old : old = escrows[id] /\ old \in EscrowRecords(1 .. NumUsers, EscrowAmounts, Preimages, Nat)
                 /\ ~old.claimed /\ ~old.refunded
  BY DEF EscrowInv, Held!NotSettled
<1>2. e = [old EXCEPT !.claimed = c, !.refunded = r]
  BY <1>1
<1>3. e \in EscrowRecords(1 .. NumUsers, EscrowAmounts, Preimages, Nat) /\ e.claimed = c /\ e.refunded = r
  BY <1>1, <1>2 DEF EscrowRecords
<1>4. DOMAIN escrows' = DOMAIN escrows /\ \A i \in DOMAIN escrows : escrows'[i] = IF i = id THEN e ELSE escrows[i]
  BY DEF EscrowInv
<1>5. EscrowKept(id)
  BY <1>1, <1>2, <1>3, <1>4 DEF EscrowKept
<1>6. ASSUME NEW i \in DOMAIN escrows, i # id PROVE EscrowKept(i)
  BY <1>4, <1>6, EscrowStays
<1>7. EscrowInv'
  BY <1>3, <1>4 DEF EscrowInv
<1>8. QED BY <1>5, <1>6, <1>7

LEMMA EscrowStep ==
  ASSUME EscrowInv, Held!EscrowNext
  PROVE  EscrowInv' /\ \A i \in DOMAIN escrows : EscrowKept(i)
<1>1. ASSUME NEW sender \in 1 .. NumUsers, NEW recipient \in 1 .. NumUsers, NEW id \in EscrowIds,
             NEW amount \in EscrowAmounts, NEW hashlock \in Preimages, NEW duration \in EscrowDurations,
             Held!create_escrow(sender, recipient, id, amount, hashlock, duration)
      PROVE  EscrowInv' /\ \A i \in DOMAIN escrows : EscrowKept(i)
  <2>1. PICK e : e = [sender |-> sender, recipient |-> recipient, amount |-> amount,
                      hashlock |-> hashlock, expiration |-> (escrow_now + duration) % TIME,
                      claimed |-> FALSE, refunded |-> FALSE]
    OBVIOUS
  <2>2. /\ id \notin DOMAIN escrows /\ UNCHANGED escrow_now
        /\ escrows' = [x \in DOMAIN escrows \cup {id} |-> IF x = id THEN e ELSE escrows[x]]
    BY <1>1, <2>1 DEF Held!create_escrow, Held!Put
  <2>3. (escrow_now + duration) % TIME \in Nat
    <3>1. duration \in 0 .. (TIME - 1) /\ TIME \in Nat \ {0} /\ escrow_now \in Nat
      BY HeldInputs DEF Held!EscrowAssumption, EscrowInv
    <3>2. QED BY <3>1
  <2>4. e \in EscrowRecords(1 .. NumUsers, EscrowAmounts, Preimages, Nat) /\ ~e.claimed
    BY <2>1, <2>3 DEF EscrowRecords
  <2>5. EscrowInv'
    BY <2>2, <2>4 DEF EscrowInv
  <2>6. QED BY <2>2, <2>5, EscrowStays
<1>2. ASSUME NEW u \in 1 .. NumUsers, NEW id \in EscrowIds, NEW preimage \in Preimages, Held!claim(u, id, preimage)
      PROVE  EscrowInv' /\ \A i \in DOMAIN escrows : EscrowKept(i)
  <2>1. /\ id \in DOMAIN escrows /\ Held!NotSettled(escrows[id]) /\ UNCHANGED escrow_now
        /\ escrows' = [escrows EXCEPT ![id] = [escrows[id] EXCEPT !.claimed = TRUE]]
    BY <1>2 DEF Held!claim
  <2>2. [escrows[id] EXCEPT !.claimed = TRUE] = [escrows[id] EXCEPT !.claimed = TRUE, !.refunded = FALSE]
    <3>1. PICK old : old = escrows[id] /\ old \in EscrowRecords(1 .. NumUsers, EscrowAmounts, Preimages, Nat)
                     /\ old.refunded = FALSE
      BY <2>1 DEF EscrowInv, Held!NotSettled, EscrowRecords
    <3>2. [old EXCEPT !.claimed = TRUE] = [old EXCEPT !.claimed = TRUE, !.refunded = FALSE]
      BY <3>1 DEF EscrowRecords
    <3>3. QED BY <3>1, <3>2
  <2>3. QED BY <2>1, <2>2, SettlingKeeps
<1>3. ASSUME NEW u \in 1 .. NumUsers, NEW id \in EscrowIds, Held!refund(u, id)
      PROVE  EscrowInv' /\ \A i \in DOMAIN escrows : EscrowKept(i)
  <2>1. /\ id \in DOMAIN escrows /\ Held!NotSettled(escrows[id]) /\ UNCHANGED escrow_now
        /\ escrow_now > escrows[id].expiration
        /\ escrows' = [escrows EXCEPT ![id] = [escrows[id] EXCEPT !.refunded = TRUE]]
    BY <1>3 DEF Held!refund
  <2>2. [escrows[id] EXCEPT !.refunded = TRUE] = [escrows[id] EXCEPT !.claimed = FALSE, !.refunded = TRUE]
    <3>1. PICK old : old = escrows[id] /\ old \in EscrowRecords(1 .. NumUsers, EscrowAmounts, Preimages, Nat)
                     /\ old.claimed = FALSE
      BY <2>1 DEF EscrowInv, Held!NotSettled, EscrowRecords
    <3>2. [old EXCEPT !.refunded = TRUE] = [old EXCEPT !.claimed = FALSE, !.refunded = TRUE]
      BY <3>1 DEF EscrowRecords
    <3>3. QED BY <3>1, <3>2
  <2>3. QED BY <2>1, <2>2, SettlingKeeps
<1>4. CASE Held!Wait
  <2>1. UNCHANGED escrows /\ escrow_now' = escrow_now + 1
    BY <1>4 DEF Held!Wait
  <2>2. QED BY <2>1, EscrowStays DEF EscrowInv
<1>5. QED BY <1>1, <1>2, <1>3, <1>4 DEF Held!EscrowNext

-----------------------------------------------------------------------------
(* The pool with boosts: a boost only grows while a deposit is held.        *)

DepositorInfos == [balance : Nat, since : Nat, updated : Nat, boost : Nat]

LEMMA BoostInputsTyped == MAX_BOOST_TIME \in Nat \ {0} /\ BoostAmounts \subseteq Int
BY BoostedInputs DEF Boosted!BoostedPoolAssumption

BoostAt(time) == IF time >= MAX_BOOST_TIME THEN 20000 ELSE 10000 + ((time * 10000) \div MAX_BOOST_TIME)

LEMMA QuotientGrows ==
  ASSUME NEW a \in Nat, NEW b \in Nat, NEW n \in Nat \ {0}, a <= b
  PROVE  a \div n <= b \div n
<1>1. PICK p \in Nat : p = a \div n /\ p * n <= a
  BY QuotientBounds
<1>2. PICK q \in Nat : q = b \div n /\ b < (q + 1) * n
  BY QuotientBounds
<1>3. SUFFICES ASSUME q + 1 <= p PROVE FALSE
  BY <1>1, <1>2
<1>4. (q + 1) * n <= p * n
  BY <1>3, ProductGrows
<1>5. (q + 1) * n \in Nat /\ p * n \in Nat
  BY ProductIsNat
<1>6. QED BY <1>1, <1>2, <1>4, <1>5

LEMMA BoostBounds ==
  ASSUME NEW t \in Nat
  PROVE  BoostAt(t) \in Nat /\ 10000 <= BoostAt(t) /\ BoostAt(t) <= 20000
<1>1. PICK M \in Nat \ {0} : M = MAX_BOOST_TIME
  BY BoostInputsTyped
<1>2. CASE t >= M
  BY <1>1, <1>2 DEF BoostAt
<1>3. CASE t < M
  <2>1. PICK q \in Nat : q = (t * 10000) \div M /\ q * M <= t * 10000
    BY QuotientBounds
  <2>2. t * 10000 <= 10000 * M
    BY <1>3
  <2>3. q * M <= 10000 * M
    BY <2>1, <2>2, ProductIsNat
  <2>4. q <= 10000
    BY <2>3, ProductCancels
  <2>5. QED BY <1>1, <1>3, <2>1, <2>4 DEF BoostAt
<1>4. QED BY <1>1, <1>2, <1>3

LEMMA BoostGrows ==
  ASSUME NEW t \in Nat, NEW s \in Nat, t <= s
  PROVE  BoostAt(t) <= BoostAt(s)
<1>1. PICK M \in Nat \ {0} : M = MAX_BOOST_TIME
  BY BoostInputsTyped
<1>2. CASE s >= M
  BY <1>1, <1>2, BoostBounds DEF BoostAt
<1>3. CASE s < M
  <2>1. (t * 10000) \div M <= (s * 10000) \div M
    BY QuotientGrows
  <2>2. PICK p, q : p = (t * 10000) \div M /\ q = (s * 10000) \div M
    OBVIOUS
  <2>3. p \in Nat /\ q \in Nat /\ p <= q
    BY <2>1, <2>2, QuotientBounds
  <2>4. BoostAt(t) = 10000 + p /\ BoostAt(s) = 10000 + q
    BY <1>1, <1>3, <2>2 DEF BoostAt
  <2>5. QED BY <2>3, <2>4
<1>4. QED BY <1>1, <1>2, <1>3

\* A deposit's entry, at a time.
Entry(d, time) ==
  /\ d \in DepositorInfos /\ d.since <= d.updated /\ d.updated <= time
  /\ d.boost >= 10000 /\ d.boost <= BoostAt(time - d.since)
  /\ d.balance = 0 => d.since = d.updated /\ d.boost = 10000

BoostInv ==
  /\ boost_now \in Nat
  /\ depositors \in [DOMAIN depositors -> DepositorInfos]
  /\ \A u \in DOMAIN depositors : Entry(depositors[u], boost_now)

LEMMA BoostIsEarned == BoostInv => Boosted!BoostEarned
<1>1. ASSUME boost_now \in Nat, NEW d, Entry(d, boost_now)
      PROVE  /\ d.balance >= 0 /\ d.since <= d.updated /\ d.updated <= boost_now
             /\ d.boost \in 10000 .. Boosted!calculate_boost(d.since)
             /\ d.balance = 0 => d.since = d.updated /\ d.boost = 10000
  <2>1. d.since \in Nat /\ d.updated \in Nat /\ d.boost \in Nat /\ d.balance \in Nat
        /\ d.since <= d.updated /\ d.updated <= boost_now
    BY <1>1 DEF Entry, DepositorInfos
  <2>2. Boosted!calculate_boost(d.since) = BoostAt(boost_now - d.since)
    BY DEF Boosted!calculate_boost, BoostAt
  <2>3. BoostAt(boost_now - d.since) \in Nat
    BY <1>1, <2>1, BoostBounds
  <2>4. QED BY <1>1, <2>1, <2>2, <2>3 DEF Entry
<1>2. QED BY <1>1 DEF BoostInv, Boosted!BoostEarned

LEMMA BoostInitial == Boosted!BoostInit => BoostInv
BY DEF Boosted!BoostInit, Boosted!EmptyMap, BoostInv

LEMMA EntryGrows ==
  ASSUME NEW d, NEW t \in Nat, NEW s \in Nat, t <= s, Entry(d, t)
  PROVE  Entry(d, s)
<1>1. d.since \in Nat /\ d.updated \in Nat /\ d.boost \in Nat /\ d.since <= t /\ d.updated <= s
  BY DEF Entry, DepositorInfos
<1>2. PICK a \in Nat, b \in Nat : a = t - d.since /\ b = s - d.since /\ a <= b
  BY <1>1
<1>3. BoostAt(a) \in Nat /\ BoostAt(b) \in Nat /\ BoostAt(a) <= BoostAt(b)
  BY <1>2, BoostBounds, BoostGrows
<1>4. QED BY <1>1, <1>2, <1>3 DEF Entry

\* The entry of a deposit that is touched: it goes on, or it starts now.
LEMMA EntryTouched ==
  ASSUME boost_now \in Nat, NEW balance \in Nat, NEW since \in Nat, since <= boost_now,
         balance = 0 => since = boost_now,
         NEW d, d = [balance |-> balance, since |-> since, updated |-> boost_now,
                     boost |-> Boosted!calculate_boost(since)]
  PROVE  Entry(d, boost_now)
<1>1. PICK t \in Nat : t = boost_now - since
  OBVIOUS
<1>2. Boosted!calculate_boost(since) = BoostAt(t)
  BY <1>1 DEF Boosted!calculate_boost, BoostAt
<1>3. BoostAt(t) \in Nat /\ BoostAt(t) >= 10000
  BY BoostBounds
<1>4. balance = 0 => BoostAt(t) = 10000
  <2>1. ASSUME balance = 0 PROVE t = 0
    BY <1>1, <2>1
  <2>2. PICK M \in Nat \ {0} : M = MAX_BOOST_TIME
    BY BoostInputsTyped
  <2>3. ASSUME t = 0 PROVE BoostAt(t) = 10000
    <3>1. (0 * 10000) \div M = 0
      OBVIOUS
    <3>2. ~(t >= M)
      BY <2>3
    <3>3. QED BY <2>2, <2>3, <3>1, <3>2 DEF BoostAt
  <2>4. QED BY <2>1, <2>3
<1>5. d \in DepositorInfos /\ d.balance = balance /\ d.since = since /\ d.updated = boost_now /\ d.boost = BoostAt(t)
  BY <1>2, <1>3 DEF DepositorInfos
<1>6. QED BY <1>1, <1>3, <1>4, <1>5 DEF Entry

LEMMA BoostStep ==
  ASSUME BoostInv, Boosted!BoostNext
  PROVE  BoostInv'
<1>1. /\ boost_now \in Nat /\ depositors \in [DOMAIN depositors -> DepositorInfos]
      /\ \A u \in DOMAIN depositors : Entry(depositors[u], boost_now)
  BY DEF BoostInv
<1>2. ASSUME NEW u, NEW d, Entry(d, boost_now), UNCHANGED boost_now,
             depositors' = [x \in DOMAIN depositors \cup {u} |-> IF x = u THEN d ELSE depositors[x]]
      PROVE  BoostInv'
  <2>1. d \in DepositorInfos
    BY <1>2 DEF Entry
  <2>2. QED BY <1>1, <1>2, <2>1 DEF BoostInv
<1>3. ASSUME NEW u \in 1 .. NumUsers, NEW amount \in BoostAmounts, Boosted!boost_deposit(u, amount)
      PROVE  BoostInv'
  <2>1. PICK old : old = Boosted!GetOr(depositors, u, [balance |-> 0, since |-> boost_now])
    OBVIOUS
  <2>2. PICK since : since = IF old.balance = 0 THEN boost_now ELSE old.since
    OBVIOUS
  <2>3. PICK d : d = [balance |-> old.balance + amount, since |-> since, updated |-> boost_now,
                      boost |-> Boosted!calculate_boost(since)]
    OBVIOUS
  <2>4. /\ amount > 0 /\ UNCHANGED boost_now
        /\ depositors' = [x \in DOMAIN depositors \cup {u} |-> IF x = u THEN d ELSE depositors[x]]
    BY <1>3, <2>1, <2>2, <2>3 DEF Boosted!boost_deposit, Boosted!Put
  <2>5. old.balance \in Nat /\ (old.balance # 0 => old.since \in Nat /\ old.since <= boost_now)
    <3>1. CASE u \in DOMAIN depositors
      <4>1. old = depositors[u] /\ Entry(old, boost_now)
        BY <1>1, <2>1, <3>1 DEF Boosted!GetOr
      <4>2. QED BY <1>1, <4>1 DEF Entry, DepositorInfos
    <3>2. CASE u \notin DOMAIN depositors
      BY <1>1, <2>1, <3>2 DEF Boosted!GetOr
    <3>3. QED BY <3>1, <3>2
  <2>6. since \in Nat /\ since <= boost_now
    BY <1>1, <2>2, <2>5
  <2>7. amount \in Nat \ {0} /\ old.balance + amount \in Nat /\ old.balance + amount # 0
    BY <2>4, <2>5, BoostInputsTyped
  <2>8. Entry(d, boost_now)
    BY <1>1, <2>3, <2>6, <2>7, EntryTouched
  <2>9. QED BY <1>2, <2>4, <2>8
<1>4. ASSUME NEW u \in 1 .. NumUsers, NEW amount \in BoostAmounts, Boosted!boost_withdraw(u, amount)
      PROVE  BoostInv'
  <2>1. u \in DOMAIN depositors /\ depositors[u].balance >= amount /\ UNCHANGED boost_now
    BY <1>4 DEF Boosted!boost_withdraw
  <2>2. PICK old : old = depositors[u] /\ Entry(old, boost_now) /\ old.balance \in Nat /\ old.since \in Nat
                   /\ old.since <= boost_now
    BY <1>1, <2>1 DEF Entry, DepositorInfos
  <2>3. PICK left \in Nat : left = old.balance - amount /\ (old.balance = amount <=> left = 0)
    BY <2>1, <2>2, BoostInputsTyped
  <2>a. PICK s : s = IF depositors[u].balance = amount THEN boost_now ELSE depositors[u].since
    OBVIOUS
  <2>b. PICK r : r = IF depositors[u].balance = amount THEN 10000 ELSE Boosted!calculate_boost(s)
    OBVIOUS
  <2>4. depositors' = [depositors EXCEPT ![u] =
          [balance |-> depositors[u].balance - amount, since |-> s, updated |-> boost_now, boost |-> r]]
    <3>1. depositors' = [depositors EXCEPT ![u] =
            [balance |-> depositors[u].balance - amount,
             since |-> IF depositors[u].balance = amount THEN boost_now ELSE depositors[u].since,
             updated |-> boost_now,
             boost |-> IF depositors[u].balance = amount THEN 10000
                       ELSE Boosted!calculate_boost(IF depositors[u].balance = amount THEN boost_now
                                                    ELSE depositors[u].since)]]
      BY <1>4 DEF Boosted!boost_withdraw
    <3>2. CASE depositors[u].balance = amount
      <4>1. s = boost_now /\ r = 10000
        BY <3>2, <2>a, <2>b
      <4>2. QED BY <3>1, <3>2, <4>1
    <3>3. CASE depositors[u].balance # amount
      <4>1. s = depositors[u].since /\ r = Boosted!calculate_boost(s)
        BY <3>3, <2>a, <2>b
      <4>2. QED BY <3>1, <3>3, <4>1
    <3>4. QED BY <3>2, <3>3
  <2>c. PICK d : d = [balance |-> depositors[u].balance - amount, since |-> s, updated |-> boost_now, boost |-> r]
    OBVIOUS
  <2>d. depositors' = [depositors EXCEPT ![u] = d]
    BY <2>4, <2>c
  <2>5. d = [balance |-> left, since |-> s, updated |-> boost_now, boost |-> r]
    BY <2>2, <2>3, <2>c
  <2>6. depositors' = [x \in DOMAIN depositors \cup {u} |-> IF x = u THEN d ELSE depositors[x]]
    BY <1>1, <2>1, <2>d
  <2>7. CASE left = 0
    <3>1. d = [balance |-> 0, since |-> boost_now, updated |-> boost_now, boost |-> 10000]
      BY <2>2, <2>3, <2>5, <2>7, <2>a, <2>b
    <3>2. BoostAt(0) \in Nat /\ BoostAt(0) >= 10000 /\ boost_now - boost_now = 0
      BY <1>1, BoostBounds
    <3>3. Entry(d, boost_now)
      BY <1>1, <3>1, <3>2 DEF Entry, DepositorInfos
    <3>4. QED BY <1>2, <2>1, <2>6, <3>3
  <2>8. CASE left # 0
    <3>1. d = [balance |-> left, since |-> old.since, updated |-> boost_now,
               boost |-> Boosted!calculate_boost(old.since)]
      BY <2>2, <2>3, <2>5, <2>8, <2>a, <2>b
    <3>2. Entry(d, boost_now)
      BY <1>1, <2>2, <2>8, <3>1, EntryTouched
    <3>3. QED BY <1>2, <2>1, <2>6, <3>2
  <2>9. QED BY <2>7, <2>8
<1>5. CASE Boosted!BoostElapse
  <2>1. boost_now' = boost_now + 1 /\ UNCHANGED depositors
    BY <1>5 DEF Boosted!BoostElapse
  <2>2. boost_now' \in Nat /\ boost_now <= boost_now'
    BY <1>1, <2>1
  <2>3. \A u \in DOMAIN depositors : Entry(depositors[u], boost_now')
    BY <1>1, <2>2, EntryGrows
  <2>4. QED BY <1>1, <2>1, <2>2, <2>3 DEF BoostInv
<1>6. QED BY <1>3, <1>4, <1>5 DEF Boosted!BoostNext

-----------------------------------------------------------------------------
(* The stability pool.                                                      *)

\* The maps of some of the keys K to V.
MapsTo(K, V) == UNION {[D -> V] : D \in SUBSET K}

LEMMA MapsAre ==
  ASSUME NEW K, NEW V, NEW m
  PROVE  m \in MapsTo(K, V) <=> DOMAIN m \subseteq K /\ m \in [DOMAIN m -> V]
BY DEF MapsTo

LEMMA PutMaps ==
  ASSUME NEW K, NEW V, NEW m \in MapsTo(K, V), NEW k \in K, NEW v \in V
  PROVE  Put(m, k, v) \in MapsTo(K, V) /\ DOMAIN Put(m, k, v) = DOMAIN m \cup {k}
<1>1. PICK D \in SUBSET K : m \in [D -> V]
  BY DEF MapsTo
<1>2. DOMAIN m = D
  BY <1>1
<1>3. Put(m, k, v) \in [D \cup {k} -> V]
  BY <1>1, <1>2 DEF Put
<1>4. QED BY <1>2, <1>3 DEF MapsTo

LEMMA DropMaps ==
  ASSUME NEW K, NEW V, NEW m \in MapsTo(K, V), NEW k
  PROVE  Drop(m, k) \in MapsTo(K, V)
<1>1. PICK D \in SUBSET K : m \in [D -> V]
  BY DEF MapsTo
<1>2. DOMAIN m = D
  BY <1>1
<1>3. Drop(m, k) \in [D \ {k} -> V]
  BY <1>1, <1>2 DEF Drop
<1>4. QED BY <1>3 DEF MapsTo

LEMMA ExceptIsPut ==
  ASSUME NEW m, m = [x \in DOMAIN m |-> m[x]], NEW k \in DOMAIN m, NEW v
  PROVE  [m EXCEPT ![k] = v] = Put(m, k, v)
BY DEF Put

Deposits == MapsTo(1 .. NumUsers, Stability!UserDeposit)
Autos == MapsTo(1 .. NumUsers, Stability!AutoCompoundConfig)
AllBooks == [total : Nat, index : Nat, last_update : Nat, deposits : Deposits, auto : Autos]

\* What the depositors of the books can ask for.
Owed(b) == SumFunction(Stability!Amounts(b.deposits))

SoundBooks(b, rest) ==
  /\ b \in AllBooks
  /\ b.total = Owed(b) + rest
  /\ \A u \in DOMAIN b.deposits : b.deposits[u].amount > 0 /\ b.deposits[u].reward_index <= b.index
  /\ b.last_update <= stab_now

NoFurtherBack(b, c) == b.index <= c.index /\ b.last_update <= c.last_update

LEMMA StabInputsTyped ==
  /\ NumUsers \in Nat /\ StabAmounts \subseteq Nat \ {0}
  /\ SCALE \in Nat \ {0} /\ YEAR \in Nat \ {0} /\ HOUR \in Nat \ {0}
  /\ STABLECOIN_SUPPLY \in Nat /\ DAILY_LIMIT \in Nat /\ BASE_REWARD_RATE_BPS \in Nat
  /\ EARLY_WITHDRAWAL_PENALTY_BPS \in Nat /\ MAX_DEPOSIT_RATIO \in Nat /\ LIQUIDATION_REWARD_SHARE_BPS \in Nat
  /\ Intervals \subseteq Nat /\ ParamSets \subseteq [rate : Nat, penalty : Nat, ratio : Nat, share : Nat]
BY StabilityInputs DEF Stability!StabilityPoolAssumption

LEMMA StabMaps ==
  ASSUME NEW m, NEW k, NEW v
  PROVE  /\ Stability!Put(m, k, v) = Put(m, k, v)
         /\ Stability!Drop(m, k) = Drop(m, k)
         /\ Stability!GetOr(m, k, v) = GetOr(m, k, v)
         /\ Stability!KeptAt(m, k) = KeptAt(m, k)
         /\ Stability!SumFunction(m) = SumFunction(m)
BY DEF Stability!Put, Put, Stability!Drop, Drop, Stability!GetOr, GetOr, Stability!KeptAt, KeptAt,
       Stability!SumFunction, SumFunction, Stability!SumFunctionOnSet, SumFunctionOnSet,
       Stability!FoldFunctionOnSet, FoldFunctionOnSet, Stability!MapThenFoldSet, MapThenFoldSet

LEMMA AmountsPut ==
  ASSUME NEW d, NEW u, NEW e
  PROVE  Stability!Amounts(Put(d, u, e)) = Put(Stability!Amounts(d), u, e.amount)
BY DEF Stability!Amounts, Put

LEMMA AmountsDrop ==
  ASSUME NEW d, NEW u
  PROVE  Stability!Amounts(Drop(d, u)) = Drop(Stability!Amounts(d), u)
BY DEF Stability!Amounts, Drop

LEMMA AmountsTyped ==
  ASSUME NEW d \in Deposits
  PROVE  /\ IsFiniteSet(DOMAIN Stability!Amounts(d)) /\ DOMAIN Stability!Amounts(d) = DOMAIN d
         /\ \A u \in DOMAIN d : Stability!Amounts(d)[u] = d[u].amount /\ d[u].amount \in Nat
         /\ DOMAIN d \subseteq 1 .. NumUsers /\ d \in [DOMAIN d -> Stability!UserDeposit]
         /\ SumFunction(Stability!Amounts(d)) \in Nat
<1>1. DOMAIN d \subseteq 1 .. NumUsers /\ d \in [DOMAIN d -> Stability!UserDeposit]
  BY MapsAre DEF Deposits
<1>2. IsFiniteSet(DOMAIN d)
  <2>1. IsFiniteSet(1 .. NumUsers)
    BY StabInputsTyped, FS_Interval
  <2>2. QED BY <1>1, <2>1, FS_Subset
<1>3. DOMAIN Stability!Amounts(d) = DOMAIN d /\ \A u \in DOMAIN d : Stability!Amounts(d)[u] = d[u].amount
  BY DEF Stability!Amounts
<1>4. \A u \in DOMAIN d : d[u].amount \in Nat
  BY <1>1 DEF Stability!UserDeposit
<1>5. SumFunction(Stability!Amounts(d)) \in Nat
  BY <1>2, <1>3, <1>4, SumOfMapIsNat
<1>6. QED BY <1>1, <1>2, <1>3, <1>4, <1>5

(* What one deposit changes, the total changes by. *)
LEMMA OwedPut ==
  ASSUME NEW d \in Deposits, NEW u \in 1 .. NumUsers, NEW e \in Stability!UserDeposit
  PROVE  /\ Put(d, u, e) \in Deposits
         /\ SumFunction(Stability!Amounts(Put(d, u, e))) =
              SumFunction(Stability!Amounts(d)) - (IF u \in DOMAIN d THEN d[u].amount ELSE 0) + e.amount
<1>1. PICK f : f = Stability!Amounts(d)
  OBVIOUS
<1>2. PICK a \in Nat : a = e.amount
  BY DEF Stability!UserDeposit
<1>3. IsFiniteSet(DOMAIN f) /\ \A x \in DOMAIN f : f[x] \in Int
  BY <1>1, AmountsTyped
<1>4. SumFunction(Put(f, u, a)) = SumFunction(f) - GetOr(f, u, 0) + a
  BY <1>3, SumPut
<1>5. GetOr(f, u, 0) = IF u \in DOMAIN d THEN d[u].amount ELSE 0
  BY <1>1, AmountsTyped DEF GetOr
<1>6. Put(d, u, e) \in Deposits
  BY PutMaps DEF Deposits
<1>7. QED BY <1>1, <1>2, <1>4, <1>5, <1>6, AmountsPut

LEMMA OwedDrop ==
  ASSUME NEW d \in Deposits, NEW u \in DOMAIN d
  PROVE  /\ Drop(d, u) \in Deposits
         /\ SumFunction(Stability!Amounts(Drop(d, u))) = SumFunction(Stability!Amounts(d)) - d[u].amount
<1>1. PICK f : f = Stability!Amounts(d)
  OBVIOUS
<1>2. IsFiniteSet(DOMAIN f) /\ (\A x \in DOMAIN f : f[x] \in Int) /\ u \in DOMAIN f /\ f[u] = d[u].amount
  BY <1>1, AmountsTyped
<1>3. SumFunction(Drop(f, u)) = SumFunction(f) - f[u]
  BY <1>2, SumDrop
<1>4. Drop(d, u) \in Deposits
  BY DropMaps DEF Deposits
<1>5. QED BY <1>1, <1>2, <1>3, <1>4, AmountsDrop

(* Bringing rewards up to date. *)
LEMMA UpdatedKeeps ==
  ASSUME stab_now \in Nat, stab_admin.rate \in Nat, NEW rest \in Nat, NEW b, SoundBooks(b, rest)
  PROVE  /\ SoundBooks(Stability!Updated(b), rest) /\ NoFurtherBack(b, Stability!Updated(b))
         /\ Stability!Updated(b).deposits = b.deposits /\ Stability!Updated(b).auto = b.auto
<1>1. /\ b \in AllBooks /\ b.total \in Nat /\ b.index \in Nat /\ b.last_update \in Nat
      /\ b.last_update <= stab_now
  BY DEF SoundBooks, AllBooks
<1> DEFINE rewards == (b.total * stab_admin.rate * (stab_now - b.last_update)) \div (10000 * YEAR)
           more == (rewards * SCALE) \div b.total
<1>2. CASE rewards = 0
  BY <1>1, <1>2 DEF Stability!Updated, NoFurtherBack
<1>3. CASE rewards # 0
  <2>1. YEAR \in Nat \ {0} /\ SCALE \in Nat
    BY StabInputsTyped
  <2>2. PICK elapsed \in Nat : elapsed = stab_now - b.last_update
    BY <1>1
  <2>3. PICK n \in Nat \ {0} : n = 10000 * YEAR
    BY <2>1
  <2>4. PICK w \in Nat : w = b.total * stab_admin.rate * elapsed
    BY <1>1, ProductIsNat
  <2>5. rewards \in Nat
    BY <2>2, <2>3, <2>4, QuotientBounds
  <2>6. b.total # 0
    <3>1. SUFFICES ASSUME b.total = 0 PROVE FALSE
      OBVIOUS
    <3>2. w = 0
      BY <2>4, <3>1
    <3>3. rewards = 0
      BY <2>2, <2>3, <2>4, <3>2
    <3>4. QED BY <1>3, <3>3
  <2>7. PICK m \in Nat : m = more
    <3>1. rewards * SCALE \in Nat
      BY <2>1, <2>5, ProductIsNat
    <3> HIDE DEF rewards
    <3>2. QED BY <1>1, <2>6, <3>1, QuotientBounds
  <2>8. Stability!Updated(b) = [b EXCEPT !.index = b.index + m, !.last_update = stab_now]
    BY <1>1, <1>3, <2>7 DEF Stability!Updated, AllBooks
  <2>9. PICK c : c = Stability!Updated(b)
    OBVIOUS
  <2>10. c = [b EXCEPT !.index = b.index + m, !.last_update = stab_now]
    BY <2>8, <2>9
  <2> HIDE DEF more, rewards
  <2>11. /\ c.total = b.total /\ c.deposits = b.deposits /\ c.auto = b.auto
         /\ c.index = b.index + m /\ c.last_update = stab_now /\ c \in AllBooks
    <3>1. PICK j \in Nat : j = b.index + m
      BY <1>1
    <3>2. b.deposits \in Deposits /\ b.auto \in Autos
      BY <1>1 DEF AllBooks
    <3>3. c = [b EXCEPT !.index = j, !.last_update = stab_now]
      BY <2>10, <3>1
    <3>4. QED BY <1>1, <3>1, <3>2, <3>3 DEF AllBooks
  <2>12. \A u \in DOMAIN b.deposits : b.deposits[u].reward_index \in Nat
    <3>1. PICK d \in Deposits : d = b.deposits
      BY <1>1 DEF AllBooks
    <3>2. d \in [DOMAIN d -> Stability!UserDeposit]
      BY AmountsTyped
    <3>3. QED BY <3>1, <3>2 DEF Stability!UserDeposit
  <2>13. \A u \in DOMAIN c.deposits : c.deposits[u].amount > 0 /\ c.deposits[u].reward_index <= c.index
    BY <1>1, <2>11, <2>12 DEF SoundBooks
  <2>14. c.total = Owed(c) + rest
    BY <2>11 DEF SoundBooks, Owed
  <2>15. SoundBooks(c, rest) /\ NoFurtherBack(b, c)
    BY <1>1, <2>11, <2>13, <2>14 DEF SoundBooks, NoFurtherBack
  <2>16. QED BY <2>9, <2>11, <2>15
<1>4. QED BY <1>2, <1>3

LEMMA BooksTyped ==
  ASSUME NEW rest \in Nat, NEW b, SoundBooks(b, rest)
  PROVE  /\ b \in AllBooks /\ b.total \in Nat /\ b.index \in Nat /\ b.last_update \in Nat
         /\ b.deposits \in Deposits /\ b.auto \in Autos
         /\ b.total = SumFunction(Stability!Amounts(b.deposits)) + rest
         /\ b.last_update <= stab_now
         /\ DOMAIN b.deposits \subseteq 1 .. NumUsers
         /\ \A u \in DOMAIN b.deposits :
              b.deposits[u] \in Stability!UserDeposit /\ b.deposits[u].amount > 0
                /\ b.deposits[u].reward_index <= b.index
<1>1. PICK d \in Deposits : d = b.deposits
  BY DEF SoundBooks, AllBooks
<1>2. /\ d \in [DOMAIN d -> Stability!UserDeposit] /\ DOMAIN d \subseteq 1 .. NumUsers
  BY AmountsTyped
<1>3. QED BY <1>1, <1>2 DEF SoundBooks, AllBooks, Owed

(* Books of which the total, the deposits and what is compounded by itself    *)
(* have changed.                                                              *)
With(b, t, d, a) == [b EXCEPT !.total = t, !.deposits = d, !.auto = a]

AddsUp(t, d, i, rest) ==
  /\ t = SumFunction(Stability!Amounts(d)) + rest
  /\ \A u \in DOMAIN d : d[u].amount > 0 /\ d[u].reward_index <= i

LEMMA BooksChanged ==
  ASSUME NEW rest \in Nat, NEW b, SoundBooks(b, rest), NEW more \in Nat,
         NEW t \in Nat, NEW d \in Deposits, NEW a \in Autos, AddsUp(t, d, b.index, more)
  PROVE  /\ SoundBooks(With(b, t, d, a), more) /\ NoFurtherBack(b, With(b, t, d, a))
         /\ With(b, t, d, a).deposits = d /\ With(b, t, d, a).auto = a
<1>1. /\ b \in AllBooks /\ b.index \in Nat /\ b.last_update \in Nat /\ b.last_update <= stab_now
  BY BooksTyped
<1>2. PICK c : c = With(b, t, d, a)
  OBVIOUS
<1>3. /\ c \in AllBooks /\ c.total = t /\ c.deposits = d /\ c.auto = a
      /\ c.index = b.index /\ c.last_update = b.last_update
  BY <1>1, <1>2 DEF AllBooks, With
<1>4. SoundBooks(c, more) /\ NoFurtherBack(b, c)
  BY <1>1, <1>3 DEF SoundBooks, NoFurtherBack, Owed, AddsUp
<1>5. QED BY <1>2, <1>3, <1>4

LEMMA DepositedKeeps ==
  ASSUME stab_now \in Nat, NEW rest \in Nat, NEW b, SoundBooks(b, rest),
         NEW u \in 1 .. NumUsers, NEW amount \in Nat \ {0}
  PROVE  SoundBooks(Stability!Deposited(b, u, amount), rest) /\ NoFurtherBack(b, Stability!Deposited(b, u, amount))
<1> DEFINE first == [amount |-> 0, reward_index |-> 0, since |-> stab_now, claimed |-> 0]
           was == GetOr(b.deposits, u, first)
<1>1. PICK d \in Deposits, a \in Autos, t \in Nat, i \in Nat :
        d = b.deposits /\ a = b.auto /\ t = b.total /\ i = b.index
  BY BooksTyped
<1>2. /\ b \in AllBooks /\ t = SumFunction(Stability!Amounts(d)) + rest
      /\ \A x \in DOMAIN d : d[x] \in Stability!UserDeposit /\ d[x].amount > 0 /\ d[x].reward_index <= i
  BY <1>1, BooksTyped
<1>3. PICK old \in Stability!UserDeposit : old = was /\ old.amount = IF u \in DOMAIN d THEN d[u].amount ELSE 0
  <2>1. first \in Stability!UserDeposit /\ first.amount = 0
    BY DEF Stability!UserDeposit
  <2> HIDE DEF first
  <2>2. was \in Stability!UserDeposit /\ was.amount = IF u \in DOMAIN d THEN d[u].amount ELSE 0
    BY <1>1, <1>2, <2>1 DEF GetOr
  <2> HIDE DEF was
  <2>3. QED BY <2>2
<1>4. old.amount \in Nat /\ old.claimed \in Nat
  BY DEF Stability!UserDeposit
<1>5. PICK n \in Nat \ {0} : n = old.amount + amount
  BY <1>4
<1>7a. PICK e : e = [old EXCEPT !.amount = n, !.reward_index = i, !.since = stab_now]
  OBVIOUS
<1>6. e \in Stability!UserDeposit /\ e.amount = n /\ e.amount > 0 /\ e.reward_index = i
  <2> HIDE DEF first, was
  <2>1. n \in Nat /\ n > 0
    OBVIOUS
  <2>2. e.amount = n /\ e.reward_index = i /\ e.since = stab_now /\ e.claimed = old.claimed
    BY <1>7a DEF Stability!UserDeposit
  <2>3. e \in Stability!UserDeposit
    BY <1>4, <1>7a, <2>1 DEF Stability!UserDeposit
  <2>4. QED BY <2>1, <2>2, <2>3
<1>8. PICK dd \in Deposits : dd = Put(d, u, e) /\ SumFunction(Stability!Amounts(dd)) = SumFunction(Stability!Amounts(d)) - old.amount + e.amount
  BY <1>3, <1>6, OwedPut
<1>9. \A x \in DOMAIN dd : dd[x].amount > 0 /\ dd[x].reward_index <= i
  BY <1>1, <1>2, <1>6, <1>8 DEF Put
<1>10. PICK tt \in Nat : tt = t + amount
  OBVIOUS
<1>11. tt = SumFunction(Stability!Amounts(dd)) + rest
  <2>1. SumFunction(Stability!Amounts(d)) \in Nat
    BY AmountsTyped
  <2>2. QED BY <1>2, <1>4, <1>5, <1>6, <1>8, <1>10, <2>1
<1>12. PICK c : c = Stability!Deposited(b, u, amount)
  OBVIOUS
<1>13. c = With(b, tt, dd, a)
  <2> HIDE DEF first
  <2>1. Stability!GetOr(b.deposits, u, first) = old
    BY <1>3, StabMaps
  <2>2. Stability!Put(b.deposits, u, e) = dd
    BY <1>1, <1>8, StabMaps
  <2>3. c = [b EXCEPT !.total = b.total + amount, !.deposits = Stability!Put(b.deposits, u, e)]
    BY <1>1, <1>2, <1>5, <1>7a, <1>12, <2>1 DEF Stability!Deposited, AllBooks, first
  <2>4. QED BY <1>1, <1>2, <1>10, <2>2, <2>3 DEF AllBooks, With
<1>14. AddsUp(tt, dd, b.index, rest)
  BY <1>1, <1>9, <1>11 DEF AddsUp
<1>15. QED BY <1>12, <1>13, <1>14, BooksChanged

LEMMA WithdrawnKeeps ==
  ASSUME stab_now \in Nat, NEW rest \in Nat, NEW b, SoundBooks(b, rest),
         NEW u, NEW amount \in Nat, Stability!Holds(b, u, amount)
  PROVE  SoundBooks(Stability!Withdrawn(b, u, amount), rest) /\ NoFurtherBack(b, Stability!Withdrawn(b, u, amount))
<1>1. PICK d \in Deposits, a \in Autos, t \in Nat, i \in Nat :
        d = b.deposits /\ a = b.auto /\ t = b.total /\ i = b.index
  BY BooksTyped
<1>2. /\ b \in AllBooks /\ t = SumFunction(Stability!Amounts(d)) + rest
      /\ \A x \in DOMAIN d : d[x] \in Stability!UserDeposit /\ d[x].amount > 0 /\ d[x].reward_index <= i
      /\ u \in DOMAIN d /\ d[u].amount >= amount /\ DOMAIN d \subseteq 1 .. NumUsers
  BY <1>1, BooksTyped DEF Stability!Holds
<1>3. PICK c : c = Stability!Withdrawn(b, u, amount)
  OBVIOUS
<1>4. PICK o \in Stability!UserDeposit : o = d[u] /\ o.amount \in Nat
  BY <1>2 DEF Stability!UserDeposit
<1>5. SumFunction(Stability!Amounts(d)) \in Nat
  BY AmountsTyped
<1>6. CASE o.amount = amount
  <2>1. PICK dd \in Deposits : dd = Drop(d, u) /\ SumFunction(Stability!Amounts(dd)) = SumFunction(Stability!Amounts(d)) - amount
    BY <1>2, <1>4, <1>6, OwedDrop
  <2>2. SumFunction(Stability!Amounts(dd)) \in Nat
    BY AmountsTyped
  <2>3. PICK tt \in Nat : tt = t - amount
    <3>1. t - amount = SumFunction(Stability!Amounts(dd)) + rest
      BY <1>2, <1>5, <2>1, <2>2
    <3>2. t - amount \in Nat
      BY <2>2, <3>1
    <3>3. QED BY <3>2
  <2>4. tt = SumFunction(Stability!Amounts(dd)) + rest
    BY <1>2, <1>5, <2>1, <2>3
  <2>5. \A x \in DOMAIN dd : dd[x].amount > 0 /\ dd[x].reward_index <= i
    BY <1>2, <2>1 DEF Drop
  <2>6. c = With(b, tt, dd, a)
    <3>1. Stability!Drop(b.deposits, u) = dd
      BY <1>1, <2>1, StabMaps
    <3>2. c = [b EXCEPT !.total = b.total - amount, !.deposits = dd]
      BY <1>1, <1>3, <1>4, <1>6, <3>1 DEF Stability!Withdrawn
    <3>3. QED BY <1>1, <1>2, <2>3, <3>2 DEF With, AllBooks
  <2>7. AddsUp(tt, dd, b.index, rest)
    BY <1>1, <2>4, <2>5 DEF AddsUp
  <2>8. QED BY <1>3, <2>6, <2>7, BooksChanged
<1>7. CASE o.amount # amount
  <2>1. PICK n \in Nat \ {0} : n = o.amount - amount
    BY <1>2, <1>4, <1>7
  <2>2. PICK e \in Stability!UserDeposit : e = [o EXCEPT !.amount = n] /\ e.amount = n /\ e.reward_index = o.reward_index
    <3>1. PICK e : e = [o EXCEPT !.amount = n]
      OBVIOUS
    <3>2. e \in Stability!UserDeposit /\ e.amount = n /\ e.reward_index = o.reward_index
      BY <3>1 DEF Stability!UserDeposit
    <3>3. QED BY <3>1, <3>2
  <2>3. PICK dd \in Deposits : dd = Put(d, u, e)
                                 /\ SumFunction(Stability!Amounts(dd)) = SumFunction(Stability!Amounts(d)) - o.amount + n
    <3>1. u \in 1 .. NumUsers
      BY <1>2
    <3>2. /\ Put(d, u, e) \in Deposits
          /\ SumFunction(Stability!Amounts(Put(d, u, e))) =
               SumFunction(Stability!Amounts(d)) - (IF u \in DOMAIN d THEN d[u].amount ELSE 0) + e.amount
      BY <2>2, <3>1, OwedPut
    <3>3. QED BY <1>2, <1>4, <2>2, <3>2
  <2>4. SumFunction(Stability!Amounts(dd)) \in Nat
    BY AmountsTyped
  <2>5. PICK tt \in Nat : tt = t - amount
    BY <1>2, <1>4, <1>5, <2>1, <2>3, <2>4
  <2>6. tt = SumFunction(Stability!Amounts(dd)) + rest
    BY <1>2, <1>4, <1>5, <2>1, <2>3, <2>5
  <2>7. \A x \in DOMAIN dd : dd[x].amount > 0 /\ dd[x].reward_index <= i
    BY <1>2, <1>4, <2>1, <2>2, <2>3 DEF Put
  <2>8. dd = [d EXCEPT ![u] = e]
    <3>1. d = [x \in DOMAIN d |-> d[x]]
      BY AmountsTyped
    <3>2. QED BY <1>2, <2>3, <3>1, ExceptIsPut
  <2>9. dd = [d EXCEPT ![u].amount = d[u].amount - amount]
    <3>1. e = [d[u] EXCEPT !.amount = d[u].amount - amount]
      BY <1>4, <2>1, <2>2
    <3>2. QED BY <2>8, <3>1
  <2>10. c = With(b, tt, dd, a)
    <3>1. c = [b EXCEPT !.total = b.total - amount, !.deposits = dd]
      BY <1>1, <1>3, <1>4, <1>7, <2>9 DEF Stability!Withdrawn
    <3>2. QED BY <1>1, <1>2, <2>5, <3>1 DEF With, AllBooks
  <2>11. AddsUp(tt, dd, b.index, rest)
    BY <1>1, <2>6, <2>7 DEF AddsUp
  <2>12. QED BY <1>3, <2>10, <2>11, BooksChanged
<1>8. QED BY <1>6, <1>7

LEMMA RewardsTyped ==
  ASSUME NEW rest \in Nat, NEW b, SoundBooks(b, rest), NEW u \in DOMAIN b.deposits
  PROVE  Stability!calculate_rewards(b, u) \in Nat
<1>1. PICK o : o = b.deposits[u]
  OBVIOUS
<1>2. o.amount \in Nat /\ o.reward_index \in Nat /\ o.reward_index <= b.index /\ b.index \in Nat
  BY <1>1, BooksTyped DEF Stability!UserDeposit
<1>3. PICK m \in Nat : m = b.index - o.reward_index
  BY <1>2
<1>4. PICK w \in Nat : w = o.amount * m
  BY <1>2, ProductIsNat
<1>5. w \div SCALE \in Nat
  BY StabInputsTyped, QuotientBounds
<1>6. QED BY <1>1, <1>3, <1>4, <1>5 DEF Stability!calculate_rewards

(* A deposit that has grown together with the total.                        *)
LEMMA GrownKeeps ==
  ASSUME NEW rest \in Nat, NEW b, SoundBooks(b, rest), NEW u \in DOMAIN b.deposits,
         NEW more \in Nat, NEW a \in Autos, NEW e \in Stability!UserDeposit,
         e.amount = b.deposits[u].amount + more, e.reward_index = b.index,
         NEW t, t = b.total + more, NEW dd, dd = Put(b.deposits, u, e)
  PROVE  SoundBooks(With(b, t, dd, a), rest) /\ NoFurtherBack(b, With(b, t, dd, a))
<1>1. PICK d \in Deposits : d = b.deposits
  BY BooksTyped
<1>2. /\ b.total \in Nat /\ b.index \in Nat /\ b.total = SumFunction(Stability!Amounts(d)) + rest
      /\ \A x \in DOMAIN d : d[x] \in Stability!UserDeposit /\ d[x].amount > 0 /\ d[x].reward_index <= b.index
      /\ u \in DOMAIN d /\ u \in 1 .. NumUsers
  BY <1>1, BooksTyped
<1>3. d[u].amount \in Nat
  BY <1>2 DEF Stability!UserDeposit
<1>4. /\ dd \in Deposits
      /\ SumFunction(Stability!Amounts(dd)) = SumFunction(Stability!Amounts(d)) - d[u].amount + e.amount
  BY <1>1, <1>2, OwedPut
<1>5. t \in Nat /\ t = SumFunction(Stability!Amounts(dd)) + rest
  <2>1. SumFunction(Stability!Amounts(d)) \in Nat
    BY AmountsTyped
  <2>2. QED BY <1>1, <1>2, <1>3, <1>4, <2>1
<1>6. \A x \in DOMAIN dd : dd[x].amount > 0 /\ dd[x].reward_index <= b.index
  BY <1>1, <1>2, <1>3 DEF Put
<1>7. AddsUp(t, dd, b.index, rest)
  BY <1>5, <1>6 DEF AddsUp
<1>8. QED BY <1>4, <1>5, <1>7, BooksChanged

LEMMA ClaimedIs ==
  ASSUME NEW rest \in Nat, NEW b, SoundBooks(b, rest), NEW u \in DOMAIN b.deposits
  PROVE  Stability!Claimed(b, u) =
           [b EXCEPT !.deposits = [b.deposits EXCEPT ![u] =
              [b.deposits[u] EXCEPT !.claimed = @ + Stability!calculate_rewards(b, u), !.reward_index = b.index]]]
<1>1. PICK d \in Deposits, o \in Stability!UserDeposit : d = b.deposits /\ o = d[u] /\ u \in DOMAIN d
  BY BooksTyped
<1>2. b \in AllBooks /\ d \in [DOMAIN d -> Stability!UserDeposit]
  BY BooksTyped, AmountsTyped
<1>3. PICK r : r = Stability!calculate_rewards(b, u)
  OBVIOUS
<1>4. Stability!Claimed(b, u) = [b EXCEPT !.deposits[u].claimed = b.deposits[u].claimed + r, !.deposits[u].reward_index = b.index]
  BY <1>3 DEF Stability!Claimed
<1>5. QED BY <1>1, <1>2, <1>3, <1>4 DEF AllBooks, Stability!UserDeposit

LEMMA ClaimedKeepsSound ==
  ASSUME stab_now \in Nat, NEW rest \in Nat, NEW b, SoundBooks(b, rest), NEW u \in DOMAIN b.deposits
  PROVE  SoundBooks(Stability!Claimed(b, u), rest) /\ NoFurtherBack(b, Stability!Claimed(b, u))
<1>1. PICK d \in Deposits, a \in Autos, o \in Stability!UserDeposit, t \in Nat :
        d = b.deposits /\ a = b.auto /\ o = d[u] /\ t = b.total
  BY BooksTyped
<1>2. /\ b \in AllBooks /\ u \in DOMAIN d /\ d = [x \in DOMAIN d |-> d[x]] /\ o.amount \in Nat
  BY <1>1, BooksTyped, AmountsTyped DEF Stability!UserDeposit
<1>3. PICK r \in Nat : r = Stability!calculate_rewards(b, u)
  BY RewardsTyped
<1>4. PICK e : e = [o EXCEPT !.claimed = o.claimed + r, !.reward_index = b.index]
  OBVIOUS
<1>5. e \in Stability!UserDeposit /\ e.amount = b.deposits[u].amount + 0 /\ e.reward_index = b.index
  <2>1. PICK n \in Nat : n = o.claimed + r
    BY DEF Stability!UserDeposit
  <2>2. b.index \in Nat
    BY BooksTyped
  <2>3. e \in Stability!UserDeposit /\ e.amount = o.amount /\ e.reward_index = b.index
    BY <1>4, <2>1, <2>2 DEF Stability!UserDeposit
  <2>4. QED BY <1>1, <1>2, <2>3
<1>6. PICK c : c = Stability!Claimed(b, u)
  OBVIOUS
<1>7. PICK dd : dd = [d EXCEPT ![u] = e]
  OBVIOUS
<1>8. c = [b EXCEPT !.deposits = dd]
  BY <1>1, <1>3, <1>4, <1>6, <1>7, ClaimedIs
<1>9. dd = Put(b.deposits, u, e)
  BY <1>1, <1>2, <1>7, ExceptIsPut
<1>10. c = With(b, t, dd, a)
  BY <1>1, <1>2, <1>8 DEF With, AllBooks
<1>11. t = b.total + 0
  BY <1>1
<1>12. QED BY <1>5, <1>6, <1>9, <1>10, <1>11, GrownKeeps

LEMMA CompoundedKeeps ==
  ASSUME stab_now \in Nat, NEW rest \in Nat, NEW b, SoundBooks(b, rest),
         NEW u \in DOMAIN b.deposits, u \in DOMAIN b.auto
  PROVE  SoundBooks(Stability!Compounded(b, u), rest) /\ NoFurtherBack(b, Stability!Compounded(b, u))
<1>1. PICK d \in Deposits, a \in Autos, o \in Stability!UserDeposit, t \in Nat :
        d = b.deposits /\ a = b.auto /\ o = d[u] /\ t = b.total
  BY BooksTyped
<1>2. /\ b \in AllBooks /\ u \in DOMAIN d /\ d = [x \in DOMAIN d |-> d[x]] /\ o.amount \in Nat /\ u \in DOMAIN a
      /\ u \in 1 .. NumUsers
  BY <1>1, BooksTyped, AmountsTyped DEF Stability!UserDeposit
<1>3. PICK r \in Nat : r = Stability!calculate_rewards(b, u)
  BY RewardsTyped
<1>4. PICK e1 : e1 = [o EXCEPT !.claimed = o.claimed + r, !.reward_index = b.index]
  OBVIOUS
<1>5. PICK e : e = [e1 EXCEPT !.amount = e1.amount + r]
  OBVIOUS
<1>6. e \in Stability!UserDeposit /\ e.amount = b.deposits[u].amount + r /\ e.reward_index = b.index
  <2>1. PICK n \in Nat : n = o.claimed + r
    BY DEF Stability!UserDeposit
  <2>2. b.index \in Nat
    BY BooksTyped
  <2>3. e1 \in Stability!UserDeposit /\ e1.amount = o.amount /\ e1.reward_index = b.index
    BY <1>4, <2>1, <2>2 DEF Stability!UserDeposit
  <2>4. PICK w \in Nat : w = o.amount + r
    BY <1>2
  <2>5. e = [e1 EXCEPT !.amount = w]
    BY <1>5, <2>3, <2>4
  <2>6. e \in Stability!UserDeposit /\ e.amount = w /\ e.reward_index = b.index
    BY <2>3, <2>5 DEF Stability!UserDeposit
  <2>7. QED BY <1>1, <2>4, <2>6
<1>7. PICK d1 : d1 = [d EXCEPT ![u] = e1]
  OBVIOUS
<1>8. PICK cl : cl = Stability!Claimed(b, u)
  OBVIOUS
<1>9. cl = [b EXCEPT !.deposits = d1]
  BY <1>1, <1>3, <1>4, <1>7, <1>8, ClaimedIs
<1>10. PICK aa \in Autos : aa = [a EXCEPT ![u] = [a[u] EXCEPT !.last = stab_now]]
  <2>1. a \in [DOMAIN a -> Stability!AutoCompoundConfig]
    BY MapsAre DEF Autos
  <2>2. PICK k : k = [a[u] EXCEPT !.last = stab_now]
    OBVIOUS
  <2>3. k \in Stability!AutoCompoundConfig
    BY <1>2, <2>1, <2>2 DEF Stability!AutoCompoundConfig
  <2>4. [a EXCEPT ![u] = k] = Put(a, u, k)
    <3>1. a = [x \in DOMAIN a |-> a[x]]
      BY <2>1
    <3>2. QED BY <1>2, <3>1, ExceptIsPut
  <2>5. Put(a, u, k) \in Autos
    BY <1>2, <2>3, PutMaps DEF Autos
  <2>6. QED BY <2>2, <2>4, <2>5
<1>11. PICK c : c = Stability!Compounded(b, u)
  OBVIOUS
<1>12. c = [cl EXCEPT !.deposits[u].amount = cl.deposits[u].amount + r, !.total = cl.total + r,
                      !.auto[u].last = stab_now]
  BY <1>3, <1>8, <1>11 DEF Stability!Compounded
<1>13. /\ cl.deposits = d1 /\ cl.total = t /\ cl.auto = a
       /\ d1[u] = e1 /\ DOMAIN d1 = DOMAIN d
  BY <1>1, <1>2, <1>7, <1>9 DEF AllBooks
<1>14. PICK dd : dd = [d1 EXCEPT ![u] = e]
  OBVIOUS
<1>15. PICK tt : tt = t + r
  OBVIOUS
<1>16. c = [cl EXCEPT !.deposits = dd, !.total = tt, !.auto = aa]
  BY <1>5, <1>10, <1>12, <1>13, <1>14, <1>15
<1>17. dd = Put(b.deposits, u, e)
  <2>1. [d1 EXCEPT ![u] = e] = [d EXCEPT ![u] = e]
    BY <1>2, <1>7
  <2>2. QED BY <1>1, <1>2, <1>14, <2>1, ExceptIsPut
<1>18. c = With(b, tt, dd, aa)
  BY <1>1, <1>2, <1>9, <1>16 DEF With, AllBooks
<1>19. tt = b.total + r
  BY <1>1, <1>15
<1>20. QED BY <1>6, <1>11, <1>17, <1>18, <1>19, GrownKeeps

LEMMA BackTransitive ==
  ASSUME NEW rest \in Nat, NEW more \in Nat, NEW some \in Nat,
         NEW b, SoundBooks(b, rest), NEW c, SoundBooks(c, more), NEW d, SoundBooks(d, some),
         NoFurtherBack(b, c), NoFurtherBack(c, d)
  PROVE  NoFurtherBack(b, d)
<1>1. /\ b.index \in Nat /\ c.index \in Nat /\ d.index \in Nat
      /\ b.last_update \in Nat /\ c.last_update \in Nat /\ d.last_update \in Nat
  BY BooksTyped
<1>2. QED BY <1>1 DEF NoFurtherBack

LEMMA NotBackAtAll ==
  ASSUME NEW rest \in Nat, NEW b, SoundBooks(b, rest)
  PROVE  NoFurtherBack(b, b)
BY BooksTyped DEF NoFurtherBack

\* The books that steps may lead to from the ones of a start.
After(start, rest, b) == b \in AllBooks /\ SoundBooks(b, rest) /\ NoFurtherBack(start, b)

Compounding(start, rest) == {s \in [ok : BOOLEAN, books : AllBooks] : After(start, rest, s.books)}

LEMMA CompoundNextStays ==
  ASSUME stab_now \in Nat, stab_admin.rate \in Nat, NEW rest \in Nat, NEW start, SoundBooks(start, rest),
         NEW s \in Compounding(start, rest), NEW u
  PROVE  Stability!CompoundNext(s, u) \in Compounding(start, rest)
<1>1. /\ s \in [ok : BOOLEAN, books : AllBooks] /\ SoundBooks(s.books, rest) /\ NoFurtherBack(start, s.books)
      /\ After(start, rest, s.books)
  BY DEF Compounding, After
<1>2. PICK b : b = Stability!Updated(s.books)
  OBVIOUS
<1>3. /\ SoundBooks(b, rest) /\ NoFurtherBack(s.books, b)
      /\ b.deposits = s.books.deposits /\ b.auto = s.books.auto
  BY <1>1, <1>2, UpdatedKeeps
<1>4. CASE ~s.ok \/ ~Stability!Due(s.books, u)
  BY <1>4 DEF Stability!CompoundNext
<1>5. CASE ~(~s.ok \/ ~Stability!Due(s.books, u)) /\ ~Stability!Compoundable(b, u)
  <2>1. PICK q : q = Stability!CompoundNext(s, u)
    OBVIOUS
  <2>2. q = [s EXCEPT !.ok = FALSE]
    BY <1>2, <1>5, <2>1 DEF Stability!CompoundNext
  <2>3. q \in [ok : BOOLEAN, books : AllBooks] /\ q.books = s.books
    BY <1>1, <2>2
  <2>4. QED BY <1>1, <2>1, <2>3 DEF Compounding
<1>6. CASE ~(~s.ok \/ ~Stability!Due(s.books, u)) /\ Stability!Compoundable(b, u)
  <2>1. PICK q : q = Stability!CompoundNext(s, u)
    OBVIOUS
  <2>2. PICK c : c = Stability!Compounded(b, u)
    OBVIOUS
  <2>3. q = [s EXCEPT !.books = c]
    BY <1>2, <1>6, <2>1, <2>2 DEF Stability!CompoundNext
  <2>4. u \in DOMAIN b.deposits /\ u \in DOMAIN b.auto
    BY <1>3, <1>6 DEF Stability!Due, Stability!Compoundable
  <2>5. SoundBooks(c, rest) /\ NoFurtherBack(b, c)
    BY <1>3, <2>2, <2>4, CompoundedKeeps
  <2>6. NoFurtherBack(start, b)
    BY <1>1, <1>3, BackTransitive
  <2>7. NoFurtherBack(start, c)
    BY <1>3, <2>5, <2>6, BackTransitive
  <2>8. c \in AllBooks
    BY <2>5 DEF SoundBooks
  <2>9. After(start, rest, c)
    BY <2>5, <2>7, <2>8 DEF After
  <2>10. q \in [ok : BOOLEAN, books : AllBooks] /\ q.books = c
    BY <1>1, <2>3, <2>8
  <2>11. QED BY <2>1, <2>9, <2>10 DEF Compounding
<1>7. QED BY <1>4, <1>5, <1>6

LEMMA CompoundAllKeeps ==
  ASSUME stab_now \in Nat, stab_admin.rate \in Nat, NEW rest \in Nat, SoundBooks(books, rest),
         Stability!compound_all
  PROVE  SoundBooks(books', rest) /\ NoFurtherBack(books, books')
<1> DEFINE n == NumUsers
           S == Compounding(books, rest)
           base == [ok |-> TRUE, books |-> books]
           Rec(g) == [u \in 0 .. NumUsers |->
                        IF u = 0 THEN base
                        ELSE IF u \in DOMAIN books.deposits THEN Stability!CompoundNext(g[u - 1], u) ELSE g[u - 1]]
           p == CHOOSE g : g = Rec(g)
           step == [x \in (1 .. NumUsers) \X S |->
                      IF x[1] \in DOMAIN books.deposits THEN Stability!CompoundNext(x[2], x[1]) ELSE x[2]]
<1>1. n \in Nat
  BY StabInputsTyped
<1>2. base \in S
  <2>1. books \in AllBooks /\ NoFurtherBack(books, books)
    BY NotBackAtAll DEF SoundBooks
  <2>2. QED BY <2>1 DEF Compounding, After
<1>3. \A s \in S, u \in 1 .. n : Stability!CompoundNext(s, u) \in S
  BY CompoundNextStays
<1>4. PICK acc : StepsFrom(acc, n, S, base, step)
  <2>1. step \in [(1 .. n) \X S -> S]
    BY <1>3
  <2> HIDE DEF base, step, S, n
  <2>2. QED BY <1>1, <1>2, <2>1, StepsExist
<1>5. acc = Rec(acc)
  <2>1. acc \in [0 .. NumUsers -> S] /\ acc[0] = base
    BY <1>4 DEF StepsFrom
  <2>2. ASSUME NEW i \in 0 .. NumUsers PROVE acc[i] = Rec(acc)[i]
    <3>1. CASE i = 0
      BY <2>1, <3>1
    <3>2. CASE i # 0
      <4>1. i \in 1 .. NumUsers /\ i - 1 \in 0 .. NumUsers
        BY <1>1, <3>2
      <4>2. acc[i - 1] \in S
        BY <2>1, <4>1
      <4>3. acc[i] = step[<<i, acc[i - 1]>>]
        BY <1>4, <4>1 DEF StepsFrom
      <4>4. <<i, acc[i - 1]>> \in (1 .. NumUsers) \X S
        BY <4>1, <4>2
      <4> HIDE DEF S, base
      <4>5. step[<<i, acc[i - 1]>>] =
              IF i \in DOMAIN books.deposits THEN Stability!CompoundNext(acc[i - 1], i) ELSE acc[i - 1]
        BY <4>4
      <4>6. QED BY <3>2, <4>3, <4>5
    <3>3. QED BY <3>1, <3>2
  <2> HIDE DEF base, S
  <2>3. QED BY <2>1, <2>2
<1>6. p = Rec(p)
  <2> HIDE DEF base, S, step
  <2>1. QED BY <1>5
<1>7. p[n].ok /\ books' = p[n].books
  BY DEF Stability!compound_all
<1>8. p[0] = base /\ \A i \in 1 .. n : p[i] = IF i \in DOMAIN books.deposits THEN Stability!CompoundNext(p[i - 1], i) ELSE p[i - 1]
  <2> HIDE DEF p, base, S, step
  <2>1. ASSUME NEW i \in 0 .. NumUsers PROVE p[i] = Rec(p)[i]
    BY <1>6
  <2>2. QED BY <1>1, <2>1
<1>9. \A i \in 0 .. n : p[i] \in S
  <2> HIDE DEF p, n, base, S, step
  <2>1. \A i \in 1 .. n : p[i - 1] \in S => p[i] \in S
    BY <1>3, <1>8
  <2>2. QED BY <1>1, <1>2, <1>8, <2>1, StepsStay
<1>10. p[n] \in S
  <2> HIDE DEF p, S
  <2>1. n \in 0 .. n
    BY <1>1
  <2>2. QED BY <1>9, <2>1
<1>11. QED
  <2> HIDE DEF p
  <2>1. QED BY <1>7, <1>10 DEF Compounding, After

Queues == [queue : Seq(Stability!QueueEntry), withdrawn : 0 .. DAILY_LIMIT, last_day : Nat]

Rounds(start, rest) ==
  {s \in [books : AllBooks, withdrawn : 0 .. DAILY_LIMIT, done : SUBSET Nat, ok : BOOLEAN, full : BOOLEAN] :
     After(start, rest, s.books)}

LEMMA ProcessEntryStays ==
  ASSUME stab_now \in Nat, stab_admin.rate \in Nat, NEW rest \in Nat, NEW start, SoundBooks(start, rest),
         NEW s \in Rounds(start, rest), NEW entry \in Stability!QueueEntry
  PROVE  Stability!ProcessEntry(s, entry) \in Rounds(start, rest)
<1> DEFINE Rs == [books : AllBooks, withdrawn : 0 .. DAILY_LIMIT, done : SUBSET Nat, ok : BOOLEAN, full : BOOLEAN]
<1>1. /\ s \in Rs /\ SoundBooks(s.books, rest) /\ NoFurtherBack(start, s.books)
      /\ After(start, rest, s.books)
  BY DEF Rounds, After
<1>2. PICK b : b = Stability!Updated(s.books)
  OBVIOUS
<1>3. SoundBooks(b, rest) /\ NoFurtherBack(s.books, b) /\ b.deposits = s.books.deposits
  BY <1>1, <1>2, UpdatedKeeps
<1>4. entry.amount \in Nat /\ entry.position \in Nat /\ DAILY_LIMIT \in Nat
  BY StabInputsTyped DEF Stability!QueueEntry
<1>5. PICK q : q = Stability!ProcessEntry(s, entry)
  OBVIOUS
<1> DEFINE passed == s.full \/ entry.due > stab_now
           over == s.withdrawn + entry.amount > DAILY_LIMIT
           failed == ~s.ok \/ ~Stability!Holds(s.books, entry.user, entry.amount)
<1>6. CASE passed
  BY <1>6 DEF Stability!ProcessEntry
<1>7. CASE ~passed /\ over
  <2>1. q = [s EXCEPT !.full = TRUE]
    BY <1>5, <1>7 DEF Stability!ProcessEntry
  <2>2. q \in Rs /\ q.books = s.books
    BY <1>1, <2>1
  <2>3. QED BY <1>1, <1>5, <2>2 DEF Rounds
<1>8. CASE ~passed /\ ~over /\ failed
  <2>1. q = [s EXCEPT !.ok = FALSE]
    BY <1>5, <1>8 DEF Stability!ProcessEntry
  <2>2. q \in Rs /\ q.books = s.books
    BY <1>1, <2>1
  <2>3. QED BY <1>1, <1>5, <2>2 DEF Rounds
<1>9. CASE ~passed /\ ~over /\ ~failed
  <2>1. PICK c : c = Stability!Withdrawn(b, entry.user, entry.amount)
    OBVIOUS
  <2>2. PICK w \in 0 .. DAILY_LIMIT : w = s.withdrawn + entry.amount
    BY <1>1, <1>4, <1>9
  <2>3. PICK done \in SUBSET Nat : done = s.done \cup {entry.position}
    BY <1>1, <1>4
  <2>4. q = [s EXCEPT !.books = c, !.withdrawn = w, !.done = done]
    <3>1. q = [s EXCEPT !.books = c, !.withdrawn = s.withdrawn + entry.amount, !.done = s.done \cup {entry.position}]
      BY <1>2, <1>5, <1>9, <2>1 DEF Stability!ProcessEntry
    <3>2. QED BY <2>2, <2>3, <3>1
  <2>5. Stability!Holds(b, entry.user, entry.amount)
    BY <1>3, <1>9 DEF Stability!Holds
  <2>6. SoundBooks(c, rest) /\ NoFurtherBack(b, c)
    BY <1>3, <1>4, <2>1, <2>5, WithdrawnKeeps
  <2>7. NoFurtherBack(start, b)
    BY <1>1, <1>3, BackTransitive
  <2>8. NoFurtherBack(start, c) /\ c \in AllBooks
    BY <1>3, <2>6, <2>7, BackTransitive DEF SoundBooks
  <2>9. After(start, rest, c)
    BY <2>6, <2>8 DEF After
  <2>10. q \in Rs /\ q.books = c
    BY <1>1, <2>4, <2>8
  <2>11. QED BY <1>5, <2>9, <2>10 DEF Rounds
<1>10. QED BY <1>6, <1>7, <1>8, <1>9

LEMMA QueueKeeps ==
  ASSUME stab_now \in Nat, stab_admin.rate \in Nat, NEW rest \in Nat, SoundBooks(books, rest),
         withdrawals \in Queues, Stability!process_withdrawal_queue
  PROVE  SoundBooks(books', rest) /\ NoFurtherBack(books, books') /\ withdrawals' \in Queues
<1> DEFINE n == Len(withdrawals.queue)
           S == Rounds(books, rest)
           base == [books |-> books, withdrawn |-> withdrawals.withdrawn, done |-> {}, ok |-> TRUE, full |-> FALSE]
           Rec(g) == [i \in 0 .. Len(withdrawals.queue) |->
                        IF i = 0 THEN base ELSE Stability!ProcessEntry(g[i - 1], withdrawals.queue[i])]
           p == CHOOSE g : g = Rec(g)
           step == [x \in (1 .. Len(withdrawals.queue)) \X S |-> Stability!ProcessEntry(x[2], withdrawals.queue[x[1]])]
<1>1. /\ n \in Nat /\ withdrawals.queue \in Seq(Stability!QueueEntry)
      /\ withdrawals.withdrawn \in 0 .. DAILY_LIMIT
      /\ \A i \in 1 .. n : withdrawals.queue[i] \in Stability!QueueEntry
  BY DEF Queues
<1>2. base \in S
  <2>1. books \in AllBooks /\ NoFurtherBack(books, books)
    BY NotBackAtAll DEF SoundBooks
  <2>2. QED BY <1>1, <2>1 DEF Rounds, After
<1>3. \A s \in S, i \in 1 .. n : Stability!ProcessEntry(s, withdrawals.queue[i]) \in S
  BY <1>1, ProcessEntryStays
<1>4. PICK acc : StepsFrom(acc, n, S, base, step)
  <2>1. step \in [(1 .. n) \X S -> S]
    BY <1>3
  <2> HIDE DEF base, step, S, n
  <2>2. QED BY <1>1, <1>2, <2>1, StepsExist
<1>5. acc = Rec(acc)
  <2>1. acc \in [0 .. n -> S] /\ acc[0] = base
    BY <1>4 DEF StepsFrom
  <2>2. ASSUME NEW i \in 0 .. n PROVE acc[i] = Rec(acc)[i]
    <3>1. CASE i = 0
      BY <2>1, <3>1
    <3>2. CASE i # 0
      <4>1. i \in 1 .. n /\ i - 1 \in 0 .. n
        BY <1>1, <3>2
      <4>2. acc[i - 1] \in S
        BY <2>1, <4>1
      <4>3. acc[i] = step[<<i, acc[i - 1]>>]
        BY <1>4, <4>1 DEF StepsFrom
      <4>4. <<i, acc[i - 1]>> \in (1 .. n) \X S
        BY <4>1, <4>2
      <4> HIDE DEF S, base
      <4>5. step[<<i, acc[i - 1]>>] = Stability!ProcessEntry(acc[i - 1], withdrawals.queue[i])
        BY <4>4
      <4>6. QED BY <3>2, <4>3, <4>5
    <3>3. QED BY <3>1, <3>2
  <2> HIDE DEF base, S
  <2>3. QED BY <2>1, <2>2
<1>6. p = Rec(p)
  <2> HIDE DEF base, S, step
  <2>1. QED BY <1>5
<1>7. /\ books' = p[n].books
      /\ withdrawals' = [withdrawals EXCEPT !.queue = Stability!Remaining(withdrawals.queue, p[n].done),
                                            !.withdrawn = p[n].withdrawn]
  BY DEF Stability!process_withdrawal_queue
<1>8. p[0] = base /\ \A i \in 1 .. n : p[i] = Stability!ProcessEntry(p[i - 1], withdrawals.queue[i])
  <2> HIDE DEF p, base, S, step
  <2>1. \A i \in 0 .. n : p[i] = IF i = 0 THEN base ELSE Stability!ProcessEntry(p[i - 1], withdrawals.queue[i])
    <3>1. ASSUME NEW i \in 0 .. n PROVE p[i] = Rec(p)[i]
      BY <1>6
    <3>2. QED BY <3>1
  <2> HIDE DEF n
  <2>2. p[0] = base
    <3>1. 0 \in 0 .. n
      BY <1>1
    <3>2. QED BY <2>1, <3>1
  <2>3. ASSUME NEW i \in 1 .. n
        PROVE  p[i] = Stability!ProcessEntry(p[i - 1], withdrawals.queue[i])
    <3>1. i \in 0 .. n /\ i # 0
      BY <1>1
    <3>2. QED BY <2>1, <3>1
  <2>4. QED BY <2>2, <2>3
<1>9. \A i \in 0 .. n : p[i] \in S
  <2> HIDE DEF p, n, base, S, step
  <2>1. \A i \in 1 .. n : p[i - 1] \in S => p[i] \in S
    BY <1>3, <1>8
  <2>2. QED BY <1>1, <1>2, <1>8, <2>1, StepsStay
<1>10. p[n] \in S
  <2> HIDE DEF p, S
  <2>1. n \in 0 .. n
    BY <1>1
  <2>2. QED BY <1>9, <2>1
<1>11. PICK r : r = p[n]
  OBVIOUS
<1> HIDE DEF p
<1>12. PICK w \in 0 .. DAILY_LIMIT : w = r.withdrawn
  BY <1>10, <1>11 DEF Rounds
<1>13. PICK T : T = Seq(Stability!QueueEntry)
  OBVIOUS
<1>14. PICK left \in T : left = Stability!Remaining(withdrawals.queue, r.done)
  <2>1. Stability!Remaining(withdrawals.queue, r.done) =
          KeptAt(withdrawals.queue, {i \in DOMAIN withdrawals.queue : withdrawals.queue[i].position \notin r.done})
    BY StabMaps DEF Stability!Remaining
  <2>2. QED BY <1>1, <1>13, <2>1, KeptAtType
<1>15. withdrawals' = [withdrawals EXCEPT !.queue = left, !.withdrawn = w]
  BY <1>7, <1>11, <1>12, <1>14
<1>16. withdrawals' \in Queues
  BY <1>13, <1>15 DEF Queues
<1>17. SoundBooks(books', rest) /\ NoFurtherBack(books, books')
  BY <1>7, <1>10 DEF Rounds, After
<1>18. QED BY <1>16, <1>17

StabAdmins == [rate : Nat, penalty : Nat, ratio : Nat, share : Nat, paused : BOOLEAN]

Distributions == [amount : Nat, index_after : Nat]

Migrations == [user : 1 .. NumUsers, deposit : Stability!UserDeposit]

StabRecords == [distributions : Seq(Distributions), migrations : Seq(Migrations)]

StabInv ==
  /\ stab_now \in Nat
  /\ stab_admin \in StabAdmins
  /\ records \in StabRecords
  /\ withdrawals \in Queues
  /\ token_deposits \in [DOMAIN token_deposits -> Nat] /\ IsFiniteSet(DOMAIN token_deposits)
  /\ SoundBooks(books, SumFunction(token_deposits))

\* The history of the rewards has grown at its end, or not at all.
HistoryKept ==
  \/ records'.distributions = records.distributions
  \/ \E e \in Distributions : /\ records'.distributions = Append(records.distributions, e)
                              /\ e.index_after = books'.index

LEMMA StabInitial == Stability!StabInit => StabInv
<1>1. SUFFICES ASSUME Stability!StabInit PROVE StabInv
  OBVIOUS
<1>2. PICK d \in Deposits, a \in Autos : d = Stability!EmptyMap /\ a = Stability!EmptyMap /\ DOMAIN d = {}
  <2>1. DOMAIN Stability!EmptyMap = {}
    BY DEF Stability!EmptyMap
  <2>2. Stability!EmptyMap \in Deposits /\ Stability!EmptyMap \in Autos
    BY <2>1, MapsAre DEF Deposits, Autos, Stability!EmptyMap
  <2>3. QED BY <2>1, <2>2
<1>3. DOMAIN Stability!Amounts(d) = {} /\ SumFunction(Stability!Amounts(d)) = 0
  BY <1>2, SumOfNothing DEF Stability!Amounts
<1>4. DOMAIN token_deposits = {} /\ SumFunction(token_deposits) = 0
  BY <1>1, SumOfNothing DEF Stability!StabInit, Stability!EmptyMap
<1>5. IsFiniteSet(DOMAIN token_deposits) /\ token_deposits \in [DOMAIN token_deposits -> Nat]
  BY <1>1, <1>4, FS_EmptySet DEF Stability!StabInit, Stability!EmptyMap
<1>6. books = [total |-> 0, index |-> 0, last_update |-> 0, deposits |-> d, auto |-> a] /\ stab_now = 0
  BY <1>1, <1>2 DEF Stability!StabInit
<1>7. SoundBooks(books, SumFunction(token_deposits))
  BY <1>2, <1>3, <1>4, <1>6 DEF SoundBooks, AllBooks, Owed
<1>8. withdrawals \in Queues /\ stab_admin \in StabAdmins
  BY <1>1, StabInputsTyped DEF Stability!StabInit, Queues, StabAdmins
<1>9. records \in StabRecords
  BY <1>1 DEF Stability!StabInit, StabRecords
<1>10. QED BY <1>5, <1>6, <1>7, <1>8, <1>9 DEF StabInv

LEMMA DepositsDoAddUp == StabInv => Stability!DepositsAddUp
<1>1. SUFFICES ASSUME StabInv PROVE Stability!DepositsAddUp
  OBVIOUS
<1>2. PICK rest \in Nat : rest = SumFunction(token_deposits)
  BY <1>1, SumOfMapIsNat DEF StabInv
<1>3. SoundBooks(books, rest)
  BY <1>1, <1>2 DEF StabInv
<1>4. books.total = Stability!SumFunction(Stability!Amounts(books.deposits)) + Stability!SumFunction(token_deposits)
  BY <1>2, <1>3, BooksTyped, StabMaps
<1>5. /\ \A u \in DOMAIN books.deposits :
           books.deposits[u] \in Stability!UserDeposit /\ books.deposits[u].amount > 0
             /\ books.deposits[u].reward_index <= books.index
      /\ books.last_update <= stab_now
  BY <1>3, BooksTyped
<1>6. withdrawals.withdrawn <= DAILY_LIMIT /\ withdrawals.queue \in Seq(Stability!QueueEntry)
  BY <1>1, StabInputsTyped DEF StabInv, Queues
<1>7. Stability!IsMap(books.auto, Stability!StabUsers, Stability!AutoCompoundConfig)
  <2>1. PICK a \in Autos : a = books.auto
    BY <1>3, BooksTyped
  <2>2. QED BY <2>1, MapsAre DEF Autos, Stability!IsMap, Stability!StabUsers
<1>8. QED BY <1>4, <1>5, <1>6, <1>7 DEF Stability!DepositsAddUp

\* A step of the books and of nothing the invariant adds to them.
LEMMA BooksStep ==
  ASSUME StabInv, SoundBooks(books', SumFunction(token_deposits)), withdrawals' \in Queues,
         UNCHANGED <<token_deposits, stab_admin, records, stab_now>>
  PROVE  StabInv' /\ HistoryKept
<1>1. SoundBooks(books, SumFunction(token_deposits))'
  BY DEF SoundBooks, Owed
<1>2. QED BY <1>1 DEF StabInv, HistoryKept

LEMMA StabStep ==
  ASSUME StabInv, Stability!StabNext
  PROVE  StabInv' /\ HistoryKept /\ NoFurtherBack(books, books')
<1>1. PICK rest \in Nat : rest = SumFunction(token_deposits)
  BY SumOfMapIsNat DEF StabInv
<1>2. /\ SoundBooks(books, rest) /\ stab_now \in Nat /\ stab_admin \in StabAdmins /\ records \in StabRecords
      /\ withdrawals \in Queues
      /\ token_deposits \in [DOMAIN token_deposits -> Nat] /\ IsFiniteSet(DOMAIN token_deposits)
  BY <1>1 DEF StabInv
<1>3. /\ stab_admin.rate \in Nat /\ stab_admin.share \in Nat /\ StabAmounts \subseteq Nat \ {0} /\ NumUsers \in Nat
      /\ NoFurtherBack(books, books) /\ SCALE \in Nat \ {0} /\ HOUR \in Nat \ {0}
  BY <1>2, StabInputsTyped, NotBackAtAll DEF StabAdmins
<1>4. PICK b : b = Stability!Updated(books)
  OBVIOUS
<1>5. /\ SoundBooks(b, rest) /\ NoFurtherBack(books, b) /\ b.deposits = books.deposits /\ b.auto = books.auto
  BY <1>2, <1>3, <1>4, UpdatedKeeps
<1>6. ASSUME NEW c, books' = c, SoundBooks(c, rest), NoFurtherBack(b, c), UNCHANGED withdrawals,
             UNCHANGED <<token_deposits, stab_admin, records, stab_now>>
      PROVE  StabInv' /\ HistoryKept /\ NoFurtherBack(books, books')
  <2>1. NoFurtherBack(books, c)
    BY <1>2, <1>5, <1>6, BackTransitive
  <2>2. QED BY <1>1, <1>2, <1>6, <2>1, BooksStep
<1>7. ASSUME UNCHANGED <<books, token_deposits, stab_now>>, stab_admin' \in StabAdmins, records' \in StabRecords,
             records'.distributions = records.distributions, withdrawals' \in Queues
      PROVE  StabInv' /\ HistoryKept /\ NoFurtherBack(books, books')
  <2>1. SoundBooks(books, SumFunction(token_deposits))'
    BY <1>1, <1>2, <1>7 DEF SoundBooks, Owed
  <2>2. QED BY <1>2, <1>3, <1>7, <2>1 DEF StabInv, HistoryKept
<1>8. ASSUME NEW u \in 1 .. NumUsers, NEW amount \in StabAmounts, Stability!stab_deposit(u, amount)
      PROVE  StabInv' /\ HistoryKept /\ NoFurtherBack(books, books')
  <2>1. amount \in Nat \ {0}
    BY <1>3
  <2>2. PICK c : c = Stability!Deposited(b, u, amount)
    OBVIOUS
  <2>3. SoundBooks(c, rest) /\ NoFurtherBack(b, c)
    BY <1>2, <1>5, <2>1, <2>2, DepositedKeeps
  <2>4. QED BY <1>4, <1>6, <1>8, <2>2, <2>3 DEF Stability!stab_deposit
<1>9. ASSUME NEW u, NEW amount \in Nat, Stability!stab_withdraw(u, amount)
      PROVE  StabInv' /\ HistoryKept /\ NoFurtherBack(books, books')
  <2>1. Stability!Holds(b, u, amount)
    BY <1>5, <1>9 DEF Stability!stab_withdraw, Stability!Holds
  <2>2. PICK c : c = Stability!Withdrawn(b, u, amount)
    OBVIOUS
  <2>3. SoundBooks(c, rest) /\ NoFurtherBack(b, c)
    BY <1>2, <1>5, <2>1, <2>2, WithdrawnKeeps
  <2>4. QED BY <1>4, <1>6, <1>9, <2>2, <2>3 DEF Stability!stab_withdraw
<1>10. ASSUME NEW u, NEW amount \in StabAmounts, Stability!emergency_withdraw(u, amount)
       PROVE  StabInv' /\ HistoryKept /\ NoFurtherBack(books, books')
  <2>1. PICK n \in Nat : n = amount - ((amount * 1000) \div 10000)
    <3>1. amount \in Nat
      BY <1>3
    <3>2. (amount * 1000) \div 10000 \in Nat /\ (amount * 1000) \div 10000 <= amount
      BY <3>1
    <3>3. QED BY <3>1, <3>2
  <2>2. Stability!stab_withdraw(u, n)
    BY <1>10, <2>1 DEF Stability!emergency_withdraw
  <2>3. QED BY <1>9, <2>2
<1>11. ASSUME NEW u \in 1 .. NumUsers, NEW amount \in StabAmounts, Stability!request_withdrawal(u, amount)
       PROVE  StabInv' /\ HistoryKept /\ NoFurtherBack(books, books')
  <2>1. withdrawals.queue \in Seq(Stability!QueueEntry) /\ withdrawals.last_day \in Nat
        /\ withdrawals.withdrawn \in 0 .. DAILY_LIMIT
    BY <1>2 DEF Queues
  <2>2. PICK position \in Nat : position = Len(withdrawals.queue) + 1
    BY <2>1
  <2>3. PICK due \in Nat : due = stab_now + position * HOUR
    <3>1. position * HOUR \in Nat
      BY <1>3, ProductIsNat
    <3>2. QED BY <1>2, <3>1
  <2>4. PICK e \in Stability!QueueEntry : e = [user |-> u, amount |-> amount, position |-> position, due |-> due]
    BY <1>3 DEF Stability!QueueEntry, Stability!StabUsers
  <2>5. PICK T : T = Seq(Stability!QueueEntry)
    OBVIOUS
  <2>6. PICK q \in T : q = Append(withdrawals.queue, e)
    BY <2>1, <2>5, AppendProperties
  <2>7. PICK day \in Nat : day = IF stab_now - withdrawals.last_day >= DAY THEN stab_now ELSE withdrawals.last_day
    BY <1>2, <2>1
  <2>8. /\ withdrawals' = [withdrawals EXCEPT !.last_day = day, !.queue = q]
        /\ UNCHANGED <<books, token_deposits, stab_admin, records, stab_now>>
    BY <1>11, <2>2, <2>3, <2>4, <2>6, <2>7 DEF Stability!request_withdrawal
  <2>9. withdrawals' \in Queues
    BY <1>2, <2>5, <2>8 DEF Queues
  <2>10. QED BY <1>2, <1>7, <2>8, <2>9
<1>12. ASSUME NEW u, NEW amount \in StabAmounts, Stability!RequestSmall(u, amount)
       PROVE  StabInv' /\ HistoryKept /\ NoFurtherBack(books, books')
  <2>1. amount \in Nat /\ Stability!stab_withdraw(u, amount)
    BY <1>3, <1>12 DEF Stability!RequestSmall
  <2>2. QED BY <1>9, <2>1
<1>13. ASSUME NEW u \in 1 .. NumUsers, NEW token \in StabTokens, NEW amount \in StabAmounts,
              Stability!deposit_token(u, token, amount)
       PROVE  StabInv' /\ HistoryKept /\ NoFurtherBack(books, books')
  <2>1. PICK k : k = <<u, token>>
    OBVIOUS
  <2>2. PICK had \in Nat : had = GetOr(token_deposits, k, 0)
    BY <1>2 DEF GetOr
  <2>3. amount \in Nat
    BY <1>3
  <2>4. PICK has \in Nat : has = had + amount
    BY <2>3
  <2>5. PICK td : td = Put(token_deposits, k, has)
    OBVIOUS
  <2>6. token_deposits' = td /\ books' = [books EXCEPT !.total = books.total + amount]
        /\ UNCHANGED <<withdrawals, stab_admin, records, stab_now>>
    BY <1>13, <2>1, <2>2, <2>4, <2>5, StabMaps DEF Stability!deposit_token
  <2>7. td \in [DOMAIN td -> Nat] /\ DOMAIN td = DOMAIN token_deposits \cup {k}
    BY <1>2, <2>5 DEF Put
  <2>8. IsFiniteSet(DOMAIN td)
    BY <1>2, <2>7, FS_AddElement
  <2>9. \A x \in DOMAIN token_deposits : token_deposits[x] \in Int
    BY <1>2
  <2>10. SumFunction(td) = rest + amount
    <3>1. SumFunction(td) = SumFunction(token_deposits) - GetOr(token_deposits, k, 0) + has
      BY <1>2, <2>5, <2>9, SumPut
    <3>2. QED BY <1>1, <2>2, <2>3, <2>4, <3>1
  <2>11. PICK d \in Deposits, a \in Autos, t \in Nat, more \in Nat :
           d = books.deposits /\ a = books.auto /\ t = books.total + amount /\ more = rest + amount
    <3>1. PICK t \in Nat : t = books.total + amount
      BY <1>2, <2>3, BooksTyped
    <3>2. PICK more \in Nat : more = rest + amount
      BY <2>3
    <3>3. QED BY <1>2, <3>1, <3>2, BooksTyped
  <2>12. /\ books \in AllBooks /\ books.total = SumFunction(Stability!Amounts(d)) + rest /\ books.total \in Nat
         /\ \A x \in DOMAIN d : d[x].amount > 0 /\ d[x].reward_index <= books.index
    BY <1>2, <2>11, BooksTyped
  <2>13. SumFunction(Stability!Amounts(d)) \in Nat
    BY AmountsTyped
  <2>14. AddsUp(t, d, books.index, more)
    BY <2>3, <2>11, <2>12, <2>13 DEF AddsUp
  <2>15. books' = With(books, t, d, a)
    BY <2>6, <2>11, <2>12 DEF With, AllBooks
  <2>16. SoundBooks(books', more) /\ NoFurtherBack(books, books')
    BY <1>2, <2>14, <2>15, BooksChanged
  <2>17. SoundBooks(books, SumFunction(token_deposits))'
    BY <2>6, <2>10, <2>11, <2>16 DEF SoundBooks, Owed
  <2>18. QED BY <1>2, <2>6, <2>7, <2>8, <2>16, <2>17 DEF StabInv, HistoryKept
<1>14. ASSUME NEW u, Stability!claim_rewards(u)
       PROVE  StabInv' /\ HistoryKept /\ NoFurtherBack(books, books')
  <2>1. u \in DOMAIN b.deposits
    BY <1>5, <1>14 DEF Stability!claim_rewards
  <2>2. PICK c : c = Stability!Claimed(b, u)
    OBVIOUS
  <2>3. SoundBooks(c, rest) /\ NoFurtherBack(b, c)
    BY <1>2, <1>5, <2>1, <2>2, ClaimedKeepsSound
  <2>4. QED BY <1>4, <1>6, <1>14, <2>2, <2>3 DEF Stability!claim_rewards
<1>15. ASSUME NEW u, Stability!compound(u)
       PROVE  StabInv' /\ HistoryKept /\ NoFurtherBack(books, books')
  <2>1. u \in DOMAIN b.deposits /\ u \in DOMAIN b.auto
    BY <1>4, <1>5, <1>15 DEF Stability!compound, Stability!Due, Stability!Compoundable
  <2>2. PICK c : c = Stability!Compounded(b, u)
    OBVIOUS
  <2>3. SoundBooks(c, rest) /\ NoFurtherBack(b, c)
    BY <1>2, <1>5, <2>1, <2>2, CompoundedKeeps
  <2>4. QED BY <1>4, <1>6, <1>15, <2>2, <2>3 DEF Stability!compound
<1>16. ASSUME NEW u \in 1 .. NumUsers, Stability!migrate_to_new_pool(u)
       PROVE  StabInv' /\ HistoryKept /\ NoFurtherBack(books, books')
  <2>1. PICK e \in Migrations : e = [user |-> u, deposit |-> books.deposits[u]]
    BY <1>2, <1>16, BooksTyped DEF Stability!migrate_to_new_pool, Migrations
  <2>2. PICK T : T = Seq(Migrations)
    OBVIOUS
  <2>3. PICK m \in T : m = Append(records.migrations, e)
    BY <1>2, <2>2, AppendProperties DEF StabRecords
  <2>4. records' = [records EXCEPT !.migrations = m]
        /\ UNCHANGED <<books, withdrawals, token_deposits, stab_admin, stab_now>>
    BY <1>16, <2>1, <2>3 DEF Stability!migrate_to_new_pool
  <2>5. records' \in StabRecords /\ records'.distributions = records.distributions
    BY <1>2, <2>2, <2>4 DEF StabRecords
  <2>6. QED BY <1>2, <1>7, <2>4, <2>5
<1>17. ASSUME NEW u \in 1 .. NumUsers, NEW enabled \in BOOLEAN, NEW interval \in Intervals,
              Stability!set_auto_compound(u, enabled, interval)
       PROVE  StabInv' /\ HistoryKept /\ NoFurtherBack(books, books')
  <2>1. PICK k \in Stability!AutoCompoundConfig : k = [enabled |-> enabled, interval |-> interval, last |-> stab_now]
    BY <1>2, StabInputsTyped DEF Stability!AutoCompoundConfig
  <2>2. PICK d \in Deposits, a \in Autos, t \in Nat : d = books.deposits /\ a = books.auto /\ t = books.total
    BY <1>2, BooksTyped
  <2>3. PICK aa \in Autos : aa = Put(a, u, k)
    BY PutMaps DEF Autos
  <2>4. books' = [books EXCEPT !.auto = aa] /\ UNCHANGED <<withdrawals, token_deposits, stab_admin, records, stab_now>>
    BY <1>17, <2>1, <2>2, <2>3, StabMaps DEF Stability!set_auto_compound
  <2>5. AddsUp(t, d, books.index, rest) /\ books \in AllBooks
    BY <1>2, <2>2, BooksTyped DEF AddsUp
  <2>6. books' = With(books, t, d, aa)
    BY <2>2, <2>4, <2>5 DEF With, AllBooks
  <2>7. SoundBooks(books', rest) /\ NoFurtherBack(books, books')
    BY <1>2, <2>5, <2>6, BooksChanged
  <2>8. QED BY <1>1, <1>2, <2>4, <2>7, BooksStep
<1>18. CASE Stability!compound_all
  <2>1. SoundBooks(books', rest) /\ NoFurtherBack(books, books')
    BY <1>2, <1>3, <1>18, CompoundAllKeeps
  <2>2. UNCHANGED <<withdrawals, token_deposits, stab_admin, records, stab_now>>
    BY <1>18 DEF Stability!compound_all
  <2>3. QED BY <1>1, <1>2, <2>1, <2>2, BooksStep
<1>19. CASE Stability!process_withdrawal_queue
  <2>1. SoundBooks(books', rest) /\ NoFurtherBack(books, books') /\ withdrawals' \in Queues
    BY <1>2, <1>3, <1>19, QueueKeeps
  <2>2. UNCHANGED <<token_deposits, stab_admin, records, stab_now>>
    BY <1>19 DEF Stability!process_withdrawal_queue
  <2>3. QED BY <1>1, <2>1, <2>2, BooksStep
<1>20. CASE Stability!get_pending_rewards
  <2>1. NoFurtherBack(b, b)
    BY <1>5, NotBackAtAll
  <2>2. QED BY <1>4, <1>5, <1>6, <1>20, <2>1 DEF Stability!get_pending_rewards
<1>21. ASSUME NEW penalty \in StabAmounts, NEW recorded \in BOOLEAN, Stability!ProcessLiquidation(penalty, recorded)
       PROVE  StabInv' /\ HistoryKept /\ NoFurtherBack(books, books')
  <2>1. PICK d \in Deposits, a \in Autos, t \in Nat, i \in Nat, l \in Nat :
          d = books.deposits /\ a = books.auto /\ t = books.total /\ i = books.index /\ l = books.last_update
    BY <1>2, BooksTyped
  <2>2. PICK reward \in Nat : reward = Stability!StabilityReward(penalty)
    <3>1. penalty \in Nat
      BY <1>3
    <3>2. penalty * stab_admin.share \in Nat
      BY <1>3, <3>1, ProductIsNat
    <3>3. QED BY <3>2, QuotientBounds DEF Stability!StabilityReward
  <2>3. t > 0
    BY <1>21, <2>1 DEF Stability!ProcessLiquidation
  <2>4. PICK index \in Nat : index = i + ((reward * SCALE) \div t) /\ i <= index
    <3>1. reward * SCALE \in Nat
      BY <1>3, ProductIsNat
    <3>2. (reward * SCALE) \div t \in Nat
      BY <2>3, <3>1, QuotientBounds
    <3>3. QED BY <3>2
  <2>5. /\ books' = [books EXCEPT !.index = index] /\ UNCHANGED <<withdrawals, token_deposits, stab_admin, stab_now>>
        /\ \/ records' = [records EXCEPT !.distributions =
                            Append(records.distributions, [amount |-> reward, index_after |-> index])]
           \/ UNCHANGED records
    BY <1>21, <2>1, <2>2, <2>4 DEF Stability!ProcessLiquidation
  <2>6. /\ books \in AllBooks /\ books.total = SumFunction(Stability!Amounts(d)) + rest /\ books.last_update <= stab_now
        /\ \A x \in DOMAIN d : d[x] \in Stability!UserDeposit /\ d[x].amount > 0 /\ d[x].reward_index <= i
    BY <1>2, <2>1, BooksTyped
  <2>7. PICK c : c = [books EXCEPT !.index = index]
    OBVIOUS
  <2>8. /\ c \in AllBooks /\ c.total = t /\ c.deposits = d /\ c.auto = a /\ c.index = index /\ c.last_update = l
    BY <2>1, <2>6, <2>7 DEF AllBooks
  <2>9. \A x \in DOMAIN d : d[x].amount > 0 /\ d[x].reward_index <= index
    BY <2>4, <2>6 DEF Stability!UserDeposit
  <2>10. SoundBooks(c, rest) /\ NoFurtherBack(books, c)
    BY <2>1, <2>4, <2>6, <2>8, <2>9 DEF SoundBooks, NoFurtherBack, Owed
  <2>11. CASE UNCHANGED records
    BY <1>1, <1>2, <2>5, <2>7, <2>10, <2>11, BooksStep
  <2>12. CASE records' = [records EXCEPT !.distributions =
                            Append(records.distributions, [amount |-> reward, index_after |-> index])]
    <3>1. PICK e \in Distributions : e = [amount |-> reward, index_after |-> index] /\ e.index_after = index
      <4>1. PICK e : e = [amount |-> reward, index_after |-> index]
        OBVIOUS
      <4>2. e \in Distributions /\ e.index_after = index
        BY <4>1 DEF Distributions
      <4>3. QED BY <4>1, <4>2
    <3>2. PICK T : T = Seq(Distributions)
      OBVIOUS
    <3>3. PICK s \in T : s = Append(records.distributions, e)
      BY <1>2, <3>2, AppendProperties DEF StabRecords
    <3>4. records' = [records EXCEPT !.distributions = s]
      BY <2>12, <3>1, <3>3
    <3>5. records' \in StabRecords /\ records'.distributions = s
      BY <1>2, <3>2, <3>4 DEF StabRecords
    <3>6. HistoryKept
      BY <2>5, <2>7, <2>8, <3>1, <3>3, <3>5 DEF HistoryKept
    <3>7. SoundBooks(books, SumFunction(token_deposits))'
      BY <1>1, <2>5, <2>7, <2>10 DEF SoundBooks, Owed
    <3>8. QED BY <1>2, <2>5, <2>7, <2>10, <3>5, <3>6, <3>7 DEF StabInv
  <2>13. QED BY <2>5, <2>11, <2>12
<1>22. ASSUME UNCHANGED <<books, withdrawals, token_deposits, stab_admin, records, stab_now>>
       PROVE  StabInv' /\ HistoryKept /\ NoFurtherBack(books, books')
  BY <1>2, <1>7, <1>22
<1>23. ASSUME NEW p \in ParamSets, Stability!update_params(p)
       PROVE  StabInv' /\ HistoryKept /\ NoFurtherBack(books, books')
  <2>1. p \in [rate : Nat, penalty : Nat, ratio : Nat, share : Nat]
    BY StabInputsTyped
  <2>2. stab_admin' \in StabAdmins
    BY <1>2, <1>23, <2>1 DEF Stability!update_params, StabAdmins
  <2>3. QED BY <1>2, <1>7, <1>23, <2>2 DEF Stability!update_params
<1>24. ASSUME NEW paused \in BOOLEAN, Stability!SetPaused(paused)
       PROVE  StabInv' /\ HistoryKept /\ NoFurtherBack(books, books')
  <2>1. stab_admin' \in StabAdmins
    BY <1>2, <1>24 DEF Stability!SetPaused, StabAdmins
  <2>2. QED BY <1>2, <1>7, <1>24, <2>1 DEF Stability!SetPaused
<1>25. CASE Stability!StabElapse
  <2>1. stab_now' = stab_now + 1 /\ UNCHANGED <<books, withdrawals, token_deposits, stab_admin, records>>
    BY <1>25 DEF Stability!StabElapse
  <2>2. SoundBooks(books, SumFunction(token_deposits))'
    <3>1. books.last_update \in Nat /\ books.last_update <= stab_now
      BY <1>2, BooksTyped
    <3>2. books.last_update <= stab_now'
      BY <1>2, <2>1, <3>1
    <3>3. QED BY <1>1, <1>2, <2>1, <3>2 DEF SoundBooks, Owed
  <2>3. QED BY <1>2, <1>3, <2>1, <2>2 DEF StabInv, HistoryKept
<1>26. ASSUME NEW u \in 1 .. NumUsers, NEW amount \in StabAmounts,
              \/ Stability!stab_deposit(u, amount) \/ Stability!stab_withdraw(u, amount)
              \/ Stability!emergency_withdraw(u, amount)
              \/ Stability!request_withdrawal(u, amount) \/ Stability!RequestSmall(u, amount)
              \/ \E token \in StabTokens : Stability!deposit_token(u, token, amount)
       PROVE  StabInv' /\ HistoryKept /\ NoFurtherBack(books, books')
  <2>1. amount \in Nat
    BY <1>3
  <2>2. QED BY <1>8, <1>9, <1>10, <1>11, <1>12, <1>13, <1>26, <2>1
<1>27. ASSUME NEW u \in 1 .. NumUsers,
              Stability!claim_rewards(u) \/ Stability!compound(u) \/ Stability!migrate_to_new_pool(u)
       PROVE  StabInv' /\ HistoryKept /\ NoFurtherBack(books, books')
  BY <1>14, <1>15, <1>16, <1>27
<1>28. ASSUME \/ \E new_cap \in Overrides : Stability!update_pool_cap(new_cap)
              \/ Stability!adjust_cap_dynamically
              \/ \E token \in StabTokens, token_cap \in TokenCaps : Stability!add_pool_token(token, token_cap)
       PROVE  StabInv' /\ HistoryKept /\ NoFurtherBack(books, books')
  BY <1>22, <1>28 DEF Stability!update_pool_cap, Stability!adjust_cap_dynamically, Stability!add_pool_token
<1>29. QED
  BY <1>17, <1>18, <1>19, <1>20, <1>21, <1>23, <1>24, <1>25, <1>26, <1>27, <1>28
     DEF Stability!StabNext, Stability!StabUsers

(* The history says what the index became. *)
LEMMA HistoryTells ==
  ASSUME StabInv, HistoryKept
  PROVE  /\ \A i \in DOMAIN records.distributions : records'.distributions[i] = records.distributions[i]
         /\ Len(records'.distributions) > Len(records.distributions) =>
              records'.distributions[Len(records'.distributions)].index_after = books'.index
<1>1. PICK s \in Seq(Distributions) : s = records.distributions
  BY DEF StabInv, StabRecords
<1>2. CASE records'.distributions = records.distributions
  BY <1>1, <1>2
<1>3. ASSUME NEW e \in Distributions, records'.distributions = Append(records.distributions, e),
             e.index_after = books'.index
      PROVE  /\ \A i \in DOMAIN records.distributions : records'.distributions[i] = records.distributions[i]
             /\ records'.distributions[Len(records'.distributions)].index_after = books'.index
  <2>1. PICK r : r = Append(s, e)
    OBVIOUS
  <2>2. Len(r) = Len(s) + 1 /\ r[Len(r)] = e /\ \A i \in DOMAIN s : r[i] = s[i]
    BY <2>1
  <2>3. records'.distributions = r
    BY <1>1, <1>3, <2>1
  <2>4. QED BY <1>1, <1>3, <2>2, <2>3
<1>4. QED BY <1>2, <1>3 DEF HistoryKept

-----------------------------------------------------------------------------
(* The monitored positions.                                                 *)

PmInputTypes ==
  /\ NumUsers \in Nat /\ PM_DAY \in Nat \ {0} /\ MaxPmLedger \in Nat \ {0} /\ ALERT_DEDUP_WINDOW \in Nat
  /\ {"LowCollateral", "PriceVolatility", "LiquidationRisk", "OracleFailure"} = AlertTypes
  /\ PmRatios \subseteq Nat /\ PmCollaterals \subseteq Nat /\ Volatilities \subseteq Nat
  /\ Markets \subseteq Nat /\ Ages \subseteq Nat /\ Deltas \subseteq Int

LEMMA PmInputsTyped == PmInputTypes
BY MonitorInputs DEF Monitor!PositionManagerAssumption, PmInputTypes

LEMMA PmMaps ==
  ASSUME NEW m, NEW k, NEW v
  PROVE  /\ Monitor!Put(m, k, v) = Put(m, k, v)
         /\ Monitor!GetOr(m, k, v) = GetOr(m, k, v)
         /\ Monitor!KeptAt(m, k) = KeptAt(m, k)
BY DEF Monitor!Put, Put, Monitor!GetOr, GetOr, Monitor!KeptAt, KeptAt

\* What the ratio contributes to a risk score, and how the four are weighted.
Slice(d) == (d * 10000) \div 19000

OfRatio(ratio) == IF ratio >= 30000 THEN 0 ELSE IF ratio <= 11000 THEN 10000 ELSE Slice(30000 - ratio)

Weighted(c, v, a, m) == (c * 5000 + v * 3000 + a * 1000 + m * 1000) \div 10000

LEMMA WeightedTyped ==
  ASSUME NEW c \in Monitor!Scores, NEW v \in Monitor!Scores, NEW a \in Monitor!Scores, NEW m \in Monitor!Scores
  PROVE  Weighted(c, v, a, m) \in Monitor!Scores
<1>1. c \in Nat /\ v \in Nat /\ a \in Nat /\ m \in Nat /\ c <= 10000 /\ v <= 10000 /\ a <= 10000 /\ m <= 10000
  BY DEF Monitor!Scores
<1>2. c * 5000 + v * 3000 + a * 1000 + m * 1000 <= 10000 * 10000
  BY <1>1
<1>3. c * 5000 + v * 3000 + a * 1000 + m * 1000 \in Nat
  BY <1>1
<1>4. ASSUME NEW w \in Nat, w <= 10000 * 10000 PROVE w \div 10000 \in Monitor!Scores
  BY <1>4 DEF Monitor!Scores
<1>5. QED BY <1>2, <1>3, <1>4 DEF Weighted

LEMMA SliceTyped ==
  ASSUME NEW d \in Nat, d <= 19000 PROVE Slice(d) \in Monitor!Scores
BY DEF Slice, Monitor!Scores

LEMMA OfRatioTyped ==
  ASSUME NEW ratio \in Nat PROVE OfRatio(ratio) \in Monitor!Scores
<1>1. CASE ratio < 30000 /\ ratio > 11000
  <2>1. 30000 - ratio \in Nat /\ 30000 - ratio <= 19000
    BY <1>1
  <2>2. Slice(30000 - ratio) \in Monitor!Scores
    BY <2>1, SliceTyped
  <2>3. QED BY <1>1, <2>2 DEF OfRatio
<1>2. CASE ratio >= 30000 \/ ratio <= 11000
  BY <1>2 DEF OfRatio, Monitor!Scores
<1>3. QED BY <1>1, <1>2

LEMMA ScoreTyped ==
  ASSUME NEW ratio \in Nat, NEW volatility \in Nat, NEW age \in Nat, NEW market \in Nat
  PROVE  Monitor!compute_risk_score(ratio, volatility, age, market) \in Monitor!Scores
<1>1. Monitor!compute_risk_score(ratio, volatility, age, market) =
        Weighted(OfRatio(ratio), Monitor!AtMost(volatility, 10000),
                 Monitor!AtMost((age * 10000) \div 365, 10000), Monitor!AtMost(market, 10000))
  BY DEF Monitor!compute_risk_score, Weighted, OfRatio, Slice
<1>2. \A x \in Nat : Monitor!AtMost(x, 10000) \in Monitor!Scores
  BY DEF Monitor!AtMost, Monitor!Scores
<1>3. (age * 10000) \div 365 \in Nat
  OBVIOUS
<1>4. Monitor!AtMost((age * 10000) \div 365, 10000) \in Monitor!Scores
  BY <1>2, <1>3
<1>5. QED BY <1>1, <1>2, <1>4, OfRatioTyped, WeightedTyped

PmIds == 1 .. MaxPmLedger

AlertMaps == MapsTo(PmIds, Seq(Monitor!PositionAlert))

RaisedMaps == MapsTo(PmIds \X AlertTypes, Nat)

\* Alerts of a kind in a sequence are a window apart.
Apart(q) ==
  \A i, j \in DOMAIN q : i < j /\ q[i].type = q[j].type => q[j].at - q[i].at >= ALERT_DEDUP_WINDOW

\* The last time of each kind is noted.
Noted(q, id, ra) ==
  \A i \in DOMAIN q : <<id, q[i].type>> \in DOMAIN ra /\ q[i].at <= ra[<<id, q[i].type>>]

SpacedAt(al, ra, time) ==
  /\ \A k \in DOMAIN ra : ra[k] <= time
  /\ \A id \in DOMAIN al : Apart(al[id]) /\ Noted(al[id], id, ra)
  /\ \A k \in DOMAIN ra : /\ k[1] \in DOMAIN al
                          /\ \E i \in DOMAIN al[k[1]] : al[k[1]][i].type = k[2] /\ al[k[1]][i].at = ra[k]

AlertStates == {s \in [alerts : AlertMaps, raised : RaisedMaps] : SpacedAt(s.alerts, s.raised, ledger)}

LEMMA AlertStatesTyped ==
  ASSUME NEW al \in AlertMaps, NEW ra \in RaisedMaps
  PROVE  /\ DOMAIN al \subseteq PmIds /\ \A id \in DOMAIN al : al[id] \in Seq(Monitor!PositionAlert)
         /\ DOMAIN ra \subseteq PmIds \X AlertTypes /\ \A k \in DOMAIN ra : ra[k] \in Nat
BY MapsAre DEF AlertMaps, RaisedMaps

LEMMA AlertsPut ==
  ASSUME NEW al \in AlertMaps, NEW id \in PmIds, NEW q \in Seq(Monitor!PositionAlert)
  PROVE  Put(al, id, q) \in AlertMaps /\ DOMAIN Put(al, id, q) = DOMAIN al \cup {id}
<1>1. PICK T : T = Seq(Monitor!PositionAlert)
  OBVIOUS
<1>2. PICK D \in SUBSET PmIds : al \in [D -> T]
  BY <1>1 DEF AlertMaps, MapsTo
<1>3. DOMAIN Put(al, id, q) = DOMAIN al \cup {id} /\ D \cup {id} \in SUBSET PmIds
  BY <1>2 DEF Put
<1>4. Put(al, id, q) \in [D \cup {id} -> T]
  BY <1>1, <1>2 DEF Put
<1>5. QED BY <1>1, <1>3, <1>4 DEF AlertMaps, MapsTo

LEMMA RaisedPut ==
  ASSUME NEW ra \in RaisedMaps, NEW k \in PmIds \X AlertTypes, NEW n \in Nat
  PROVE  Put(ra, k, n) \in RaisedMaps /\ DOMAIN Put(ra, k, n) = DOMAIN ra \cup {k}
<1>1. PICK K : K = PmIds \X AlertTypes
  OBVIOUS
<1>2. PICK D \in SUBSET K : ra \in [D -> Nat]
  BY <1>1 DEF RaisedMaps, MapsTo
<1>3. DOMAIN Put(ra, k, n) = DOMAIN ra \cup {k} /\ D \cup {k} \in SUBSET K
  BY <1>1, <1>2 DEF Put
<1>4. Put(ra, k, n) \in [D \cup {k} -> Nat]
  BY <1>2 DEF Put
<1>5. QED BY <1>1, <1>3, <1>4 DEF RaisedMaps, MapsTo

LEMMA RaisedStays ==
  ASSUME ledger \in Nat, NEW s \in AlertStates, NEW id \in PmIds, NEW type \in AlertTypes
  PROVE  Monitor!Raised(s, id, type) \in AlertStates
<1>1. PICK al \in AlertMaps, ra \in RaisedMaps : al = s.alerts /\ ra = s.raised
  BY DEF AlertStates
<1>2. SpacedAt(al, ra, ledger)
  BY <1>1 DEF AlertStates
<1>3. /\ DOMAIN al \subseteq PmIds /\ \A x \in DOMAIN al : al[x] \in Seq(Monitor!PositionAlert)
      /\ DOMAIN ra \subseteq PmIds \X AlertTypes /\ \A x \in DOMAIN ra : ra[x] \in Nat
      /\ ALERT_DEDUP_WINDOW \in Nat
  BY AlertStatesTyped, PmInputsTyped DEF PmInputTypes
<1>4. PICK k : k = <<id, type>>
  OBVIOUS
<1>14. k \in PmIds \X AlertTypes /\ k[1] = id /\ k[2] = type
  BY <1>4
<1>5. CASE k \in DOMAIN ra /\ ledger - ra[k] < ALERT_DEDUP_WINDOW
  BY <1>1, <1>4, <1>5 DEF Monitor!Raised
<1>6. CASE ~(k \in DOMAIN ra /\ ledger - ra[k] < ALERT_DEDUP_WINDOW)
  <2>1. PICK e : e = [id |-> ledger, type |-> type, at |-> ledger, acknowledged |-> FALSE]
    OBVIOUS
  <2>2. e \in Monitor!PositionAlert /\ e.type = type /\ e.at = ledger
    BY <2>1 DEF Monitor!PositionAlert
  <2>20. PICK T : T = Seq(Monitor!PositionAlert)
    OBVIOUS
  <2>21. PICK q : q = GetOr(al, id, <<>>)
    OBVIOUS
  <2>3. q \in Seq(Monitor!PositionAlert)
    <3>1. <<>> \in T
      BY <2>20
    <3>2. \A x \in DOMAIN al : al[x] \in T
      BY <1>3, <2>20
    <3>3. q \in T
      BY <2>21, <3>1, <3>2 DEF GetOr
    <3>4. QED BY <2>20, <3>3
  <2>4. /\ id \in DOMAIN al => q = al[id]
        /\ id \notin DOMAIN al => q = <<>>
    BY <2>21 DEF GetOr
  <2>22. PICK q2 : q2 = Append(q, e)
    OBVIOUS
  <2>5. q2 \in Seq(Monitor!PositionAlert)
    BY <2>2, <2>3, <2>22
  <2>6. /\ Len(q) \in Nat /\ DOMAIN q2 = DOMAIN q \cup {Len(q) + 1} /\ DOMAIN q = 1 .. Len(q)
        /\ q2[Len(q) + 1] = e /\ \A i \in DOMAIN q : q2[i] = q[i]
    BY <2>2, <2>3, <2>22
  <2>7. PICK al2, ra2 : al2 = Put(al, id, q2) /\ ra2 = Put(ra, k, ledger)
    OBVIOUS
  <2>8. /\ al2 \in AlertMaps /\ ra2 \in RaisedMaps
        /\ DOMAIN al2 = DOMAIN al \cup {id} /\ DOMAIN ra2 = DOMAIN ra \cup {k}
    <3>1. Put(al, id, q2) \in AlertMaps /\ DOMAIN Put(al, id, q2) = DOMAIN al \cup {id}
      BY <2>5, AlertsPut
    <3>2. PICK n \in Nat : n = ledger
      OBVIOUS
    <3>3. Put(ra, k, n) \in RaisedMaps /\ DOMAIN Put(ra, k, n) = DOMAIN ra \cup {k}
      BY <1>14, RaisedPut
    <3>4. QED BY <2>7, <3>1, <3>2, <3>3
  <2>9. /\ al2[id] = q2 /\ \A x \in DOMAIN al : x # id => al2[x] = al[x]
        /\ ra2[k] = ledger /\ \A x \in DOMAIN ra : x # k => ra2[x] = ra[x]
    BY <2>7 DEF Put
  <2>10. \A x \in DOMAIN ra2 : ra2[x] <= ledger
    BY <1>2, <2>8, <2>9 DEF SpacedAt
  <2>11. Apart(q) /\ Noted(q, id, ra)
    <3>1. CASE id \in DOMAIN al
      BY <1>2, <2>4, <3>1 DEF SpacedAt
    <3>2. CASE id \notin DOMAIN al
      BY <2>4, <3>2 DEF Apart, Noted
    <3>3. QED BY <3>1, <3>2
  <2>12. \A i \in DOMAIN q : q[i] \in Monitor!PositionAlert /\ q[i].at \in Nat
    <3>1. \A i \in DOMAIN q : q[i] \in Monitor!PositionAlert
      BY <2>3
    <3>2. \A x \in Monitor!PositionAlert : x.at \in Nat
      BY DEF Monitor!PositionAlert
    <3>3. QED BY <3>1, <3>2
  <2>13. Apart(q2)
    <3>1. SUFFICES ASSUME NEW i \in DOMAIN q2, NEW j \in DOMAIN q2, i < j, q2[i].type = q2[j].type
                   PROVE  q2[j].at - q2[i].at >= ALERT_DEDUP_WINDOW
      BY DEF Apart
    <3>2. CASE j \in DOMAIN q
      <4>1. i \in DOMAIN q
        BY <2>6, <3>1, <3>2
      <4>2. QED BY <2>6, <2>11, <3>1, <3>2, <4>1 DEF Apart
    <3>3. CASE j = Len(q) + 1
      <4>1. i \in DOMAIN q /\ q2[i] = q[i] /\ q2[j] = e
        BY <2>6, <3>1, <3>3
      <4>2. q[i].type = type
        BY <2>2, <3>1, <4>1
      <4>3. k \in DOMAIN ra /\ q[i].at <= ra[k] /\ ra[k] \in Nat /\ q[i].at \in Nat
        BY <1>3, <1>4, <2>11, <2>12, <4>1, <4>2 DEF Noted
      <4>4. ledger - ra[k] >= ALERT_DEDUP_WINDOW
        BY <1>3, <1>6, <4>3
      <4>5. QED BY <1>3, <2>2, <4>1, <4>3, <4>4
    <3>4. QED BY <2>6, <3>1, <3>2, <3>3
  <2>14. Noted(q2, id, ra2)
    <3>1. SUFFICES ASSUME NEW i \in DOMAIN q2
                   PROVE  <<id, q2[i].type>> \in DOMAIN ra2 /\ q2[i].at <= ra2[<<id, q2[i].type>>]
      BY DEF Noted
    <3>2. CASE i = Len(q) + 1
      BY <1>4, <1>14, <2>2, <2>6, <2>8, <2>9, <3>2
    <3>3. CASE i \in DOMAIN q
      <4>1. PICK x : x = <<id, q[i].type>>
        OBVIOUS
      <4>2. x \in DOMAIN ra /\ q[i].at <= ra[x] /\ ra[x] \in Nat /\ ra[x] <= ledger /\ q[i].at \in Nat
        BY <1>2, <1>3, <2>11, <2>12, <3>3, <4>1 DEF Noted, SpacedAt
      <4>3. x \in DOMAIN ra2 /\ q[i].at <= ra2[x]
        BY <2>8, <2>9, <4>2
      <4>4. QED BY <2>6, <3>3, <4>1, <4>3
    <3>4. QED BY <2>6, <3>2, <3>3
  <2>15. ASSUME NEW x \in DOMAIN al2 PROVE Apart(al2[x]) /\ Noted(al2[x], x, ra2)
    <3>1. CASE x = id
      BY <2>9, <2>13, <2>14, <3>1
    <3>2. CASE x # id
      <4>1. x \in DOMAIN al /\ al2[x] = al[x] /\ Apart(al[x]) /\ Noted(al[x], x, ra)
        BY <1>2, <2>8, <2>9, <3>2 DEF SpacedAt
      <4>2. ASSUME NEW i \in DOMAIN al[x]
            PROVE  <<x, al[x][i].type>> \in DOMAIN ra2 /\ al[x][i].at <= ra2[<<x, al[x][i].type>>]
        <5>1. PICK y : y = <<x, al[x][i].type>>
          OBVIOUS
        <5>2. y # k
          BY <1>4, <1>14, <3>2, <5>1
        <5>3. QED BY <2>8, <2>9, <4>1, <5>1, <5>2 DEF Noted
      <4>3. QED BY <4>1, <4>2 DEF Noted
    <3>3. QED BY <3>1, <3>2
  <2>16. ASSUME NEW x \in DOMAIN ra2
         PROVE  x[1] \in DOMAIN al2 /\ \E i \in DOMAIN al2[x[1]] : al2[x[1]][i].type = x[2] /\ al2[x[1]][i].at = ra2[x]
    <3>1. CASE x = k
      BY <1>4, <1>14, <2>2, <2>6, <2>8, <2>9, <3>1
    <3>2. CASE x # k
      <4>1. x \in DOMAIN ra /\ ra2[x] = ra[x]
        BY <2>8, <2>9, <3>2
      <4>2. PICK i \in DOMAIN al[x[1]] : al[x[1]][i].type = x[2] /\ al[x[1]][i].at = ra[x]
        BY <1>2, <4>1 DEF SpacedAt
      <4>3. x[1] \in DOMAIN al
        BY <1>2, <4>1 DEF SpacedAt
      <4>4. CASE x[1] = id
        <5>1. i \in DOMAIN q2 /\ q2[i] = al[x[1]][i]
          BY <2>4, <2>6, <4>2, <4>3, <4>4
        <5>2. QED BY <2>8, <2>9, <4>1, <4>2, <4>4, <5>1
      <4>5. CASE x[1] # id
        BY <2>8, <2>9, <4>1, <4>2, <4>3, <4>5
      <4>6. QED BY <4>4, <4>5
    <3>3. QED BY <3>1, <3>2
  <2>17. SpacedAt(al2, ra2, ledger)
    BY <2>10, <2>15, <2>16 DEF SpacedAt
  <2>18. Monitor!Raised(s, id, type) = [alerts |-> al2, raised |-> ra2]
    BY <1>1, <1>4, <1>6, <2>1, <2>21, <2>22, <2>7, PmMaps DEF Monitor!Raised
  <2>19. QED BY <2>8, <2>17, <2>18 DEF AlertStates
<1>7. QED BY <1>5, <1>6

PmPositions == [asset : PmAssets, collateral : Nat, ratio : Nat]

HeldTypes == [1 .. NumUsers -> Seq(PmPositions)]

MetaMaps == MapsTo(PmIds, Monitor!PositionMetadata)

\* Nothing was added, nothing changed hands, and what was closed is closed.
KeptMeta(m, m2) ==
  /\ DOMAIN m2 = DOMAIN m
  /\ \A id \in DOMAIN m :
       /\ m2[id].owner = m[id].owner /\ m2[id].asset = m[id].asset /\ m2[id].created = m[id].created
       /\ m[id].status = "Closed" => m2[id].status = "Closed"

\* The books that m may have become.
PmBooks(m) == {s \in [held : HeldTypes, meta : MetaMaps] : KeptMeta(m, s.meta)}

LEMMA MetaTyped ==
  ASSUME NEW m \in MetaMaps
  PROVE  /\ DOMAIN m \subseteq PmIds /\ m \in [DOMAIN m -> Monitor!PositionMetadata]
         /\ \A id \in DOMAIN m : m[id] \in Monitor!PositionMetadata
BY MapsAre DEF MetaMaps

LEMMA NothingChanged == ASSUME NEW m PROVE KeptMeta(m, m)
BY DEF KeptMeta

(* An entry is changed, and keeps what has to be kept.                      *)
LEMMA MetadataChanged ==
  ASSUME NEW m0, NEW m \in MetaMaps, KeptMeta(m0, m), NEW id \in DOMAIN m, NEW e \in Monitor!PositionMetadata,
         e.owner = m[id].owner, e.asset = m[id].asset, e.created = m[id].created,
         m[id].status = "Closed" => e.status = "Closed"
  PROVE  [m EXCEPT ![id] = e] \in MetaMaps /\ KeptMeta(m0, [m EXCEPT ![id] = e])
<1>1. PICK m2 : m2 = [m EXCEPT ![id] = e]
  OBVIOUS
<1>2. m \in [DOMAIN m -> Monitor!PositionMetadata] /\ DOMAIN m \subseteq PmIds
  BY MetaTyped
<1>3. /\ m2 \in [DOMAIN m -> Monitor!PositionMetadata] /\ DOMAIN m2 = DOMAIN m
      /\ m2[id] = e /\ \A x \in DOMAIN m : x # id => m2[x] = m[x]
  BY <1>1, <1>2
<1>4. m2 \in MetaMaps
  BY <1>2, <1>3 DEF MetaMaps, MapsTo
<1>5. KeptMeta(m0, m2)
  BY <1>3 DEF KeptMeta
<1>6. QED BY <1>1, <1>4, <1>5

\* m was changed into e, which is still an entry of the same position.
StillOf(e, m, status) ==
  /\ e \in Monitor!PositionMetadata /\ e.status = status
  /\ e.owner = m.owner /\ e.asset = m.asset /\ e.created = m.created

LEMMA MetadataTouched ==
  ASSUME NEW m \in Monitor!PositionMetadata, NEW st \in Monitor!PositionStatus, NEW t \in Nat
  PROVE  StillOf([m EXCEPT !.updated = t, !.status = st], m, st)
<1>1. PICK e : e = [m EXCEPT !.updated = t, !.status = st]
  OBVIOUS
<1>2. e.status = st /\ e.owner = m.owner /\ e.asset = m.asset /\ e.created = m.created
  BY <1>1 DEF Monitor!PositionMetadata
<1>3. e \in Monitor!PositionMetadata
  BY <1>1 DEF Monitor!PositionMetadata
<1>4. QED BY <1>1, <1>2, <1>3 DEF StillOf

LEMMA MetadataScored ==
  ASSUME NEW m \in Monitor!PositionMetadata, NEW st \in Monitor!PositionStatus, NEW t \in Nat, NEW sc \in Monitor!Scores
  PROVE  StillOf([m EXCEPT !.score = sc, !.updated = t, !.status = st], m, st)
BY DEF Monitor!PositionMetadata, StillOf

LEMMA HeldChanged ==
  ASSUME NEW h \in HeldTypes, NEW u \in 1 .. NumUsers, NEW q \in Seq(PmPositions)
  PROVE  [h EXCEPT ![u] = q] \in HeldTypes
<1>1. PICK T : T = Seq(PmPositions)
  OBVIOUS
<1>2. QED BY <1>1 DEF HeldTypes

LEMMA MappedInto ==
  ASSUME NEW S, NEW T, NEW q \in Seq(S), NEW f \in [DOMAIN q -> T]
  PROVE  f \in Seq(T)
<1>1. Len(q) \in Nat /\ f \in [1 .. Len(q) -> T]
  OBVIOUS
<1>2. QED BY <1>1

LEMMA BooksHave ==
  ASSUME NEW m0, NEW s \in PmBooks(m0)
  PROVE  /\ s.held \in HeldTypes /\ s.meta \in MetaMaps /\ KeptMeta(m0, s.meta)
         /\ \A u \in 1 .. NumUsers : s.held[u] \in Seq(PmPositions)
<1>1. s.held \in HeldTypes /\ s.meta \in MetaMaps /\ KeptMeta(m0, s.meta)
  BY DEF PmBooks
<1>2. QED BY <1>1 DEF HeldTypes

LEMMA BooksAre ==
  ASSUME NEW m0, NEW h \in HeldTypes, NEW m \in MetaMaps, KeptMeta(m0, m)
  PROVE  [held |-> h, meta |-> m] \in PmBooks(m0)
BY DEF PmBooks

LEMMA CloseStays ==
  ASSUME ledger \in Nat, NEW m0, NEW s \in PmBooks(m0), NEW item, item.owner \in 1 .. NumUsers
  PROVE  Monitor!CloseItem(s, item) \in PmBooks(m0)
<1>1. /\ s.held \in HeldTypes /\ s.meta \in MetaMaps /\ KeptMeta(m0, s.meta)
      /\ \A u \in 1 .. NumUsers : s.held[u] \in Seq(PmPositions)
  BY BooksHave
<1>2. PICK id : id = item.id
  OBVIOUS
<1>3. PICK mine : mine = s.held[item.owner]
  OBVIOUS
<1>4. mine \in Seq(PmPositions)
  BY <1>1, <1>3
<1>5. CASE ~Monitor!Open(s, item)
  BY <1>5 DEF Monitor!CloseItem
<1>6. CASE Monitor!Open(s, item)
  <2>1. id \in DOMAIN s.meta /\ s.meta[id] \in Monitor!PositionMetadata
    BY <1>1, <1>2, <1>6, MetaTyped DEF Monitor!Open
  <2>2. PICK old : old = s.meta[id]
    OBVIOUS
  <2>3. PICK e : e = [old EXCEPT !.updated = ledger, !.status = "Closed"]
    OBVIOUS
  <2>4. /\ e \in Monitor!PositionMetadata /\ e.status = "Closed"
        /\ e.owner = old.owner /\ e.asset = old.asset /\ e.created = old.created
    <3>1. "Closed" \in Monitor!PositionStatus
      BY DEF Monitor!PositionStatus
    <3>2. old \in Monitor!PositionMetadata
      BY <2>1, <2>2
    <3>5. PICK n \in Nat, c \in Monitor!PositionStatus : n = ledger /\ c = "Closed"
      BY <3>1
    <3>6. StillOf([old EXCEPT !.updated = n, !.status = c], old, c)
      BY <3>2, MetadataTouched
    <3>3. StillOf([old EXCEPT !.updated = ledger, !.status = "Closed"], old, "Closed")
      BY <3>5, <3>6
    <3>4. QED BY <2>3, <3>3 DEF StillOf
  <2>5. PICK q : q = KeptAt(mine, {i \in DOMAIN mine : mine[i].asset # old.asset})
    OBVIOUS
  <2>6. q \in Seq(PmPositions)
    BY <1>4, <2>5, KeptAtType
  <2>7. Monitor!CloseItem(s, item) = [held |-> [s.held EXCEPT ![item.owner] = q], meta |-> [s.meta EXCEPT ![id] = e]]
    BY <1>2, <1>3, <1>6, <2>2, <2>3, <2>5, PmMaps DEF Monitor!CloseItem
  <2>8. [s.held EXCEPT ![item.owner] = q] \in HeldTypes
    BY <1>1, <2>6, HeldChanged
  <2>9. [s.meta EXCEPT ![id] = e] \in MetaMaps /\ KeptMeta(m0, [s.meta EXCEPT ![id] = e])
    BY <1>1, <2>1, <2>2, <2>4, MetadataChanged
  <2>10. QED BY <2>7, <2>8, <2>9, BooksAre
<1>7. QED BY <1>5, <1>6

(* The positions that move, move within their type.                         *)
LEMMA MovedStays ==
  ASSUME NEW q \in Seq(PmPositions), NEW f, DOMAIN f = DOMAIN q, f = [i \in DOMAIN q |-> f[i]],
         \A i \in DOMAIN q : f[i] \in PmPositions
  PROVE  f \in Seq(PmPositions)
<1>1. f \in [DOMAIN q -> PmPositions]
  OBVIOUS
<1>2. QED BY <1>1, MappedInto

LEMMA RebalanceStays ==
  ASSUME ledger \in Nat, NEW m0, NEW s \in PmBooks(m0), NEW item, item.owner \in 1 .. NumUsers, item.ratio \in Nat
  PROVE  Monitor!RebalanceItem(s, item) \in PmBooks(m0)
<1>1. /\ s.held \in HeldTypes /\ s.meta \in MetaMaps /\ KeptMeta(m0, s.meta)
      /\ \A u \in 1 .. NumUsers : s.held[u] \in Seq(PmPositions)
  BY BooksHave
<1>2. CASE Monitor!RebalanceItem(s, item) = s
  BY <1>2
<1>3. CASE Monitor!RebalanceItem(s, item) # s
  <2> DEFINE mine == s.held[item.owner]
             Moves(p) == p.asset = s.meta[item.id].asset /\ Monitor!Distance(p.ratio, item.ratio) >= REBALANCING_THRESHOLD
             f == [i \in DOMAIN mine |-> IF Moves(mine[i]) THEN [mine[i] EXCEPT !.ratio = item.ratio] ELSE mine[i]]
             score == Monitor!compute_risk_score(item.ratio, 2000, 0, 5000)
             old == s.meta[item.id]
             e == Monitor!Rescored(old, score)
  <2>1. Monitor!RebalanceItem(s, item) =
          [held |-> [s.held EXCEPT ![item.owner] = f], meta |-> [s.meta EXCEPT ![item.id] = e]]
    BY <1>3 DEF Monitor!RebalanceItem
  <2>2. item.id \in DOMAIN s.meta /\ old \in Monitor!PositionMetadata /\ old.status # "Closed"
    <3>1. Monitor!Open(s, item)
      BY <1>3 DEF Monitor!RebalanceItem
    <3>2. item.id \in DOMAIN s.meta /\ old.status # "Closed"
      BY <3>1 DEF Monitor!Open
    <3>3. QED BY <1>1, <3>2, MetaTyped, Zenon
  <2>3. PICK w : w = score
    OBVIOUS
  <2>4. w \in Monitor!Scores
    BY <2>3, ScoreTyped
  <2> HIDE DEF score
  <2>5. e \in Monitor!PositionMetadata /\ e.owner = old.owner /\ e.asset = old.asset /\ e.created = old.created
    <3> HIDE DEF old
    <3>1. PICK ss \in Monitor!PositionStatus : ss = IF w >= 8000 THEN "Warning" ELSE old.status
      BY <2>2 DEF Monitor!PositionMetadata, Monitor!PositionStatus
    <3>2. e = [old EXCEPT !.score = w, !.updated = ledger, !.status = ss]
      BY <2>3, <3>1 DEF Monitor!Rescored
    <3>3. StillOf([old EXCEPT !.score = w, !.updated = ledger, !.status = ss], old, ss)
      BY <2>2, <2>4, MetadataScored
    <3>4. QED BY <3>2, <3>3 DEF StillOf
  <2>6. mine \in Seq(PmPositions)
    BY <1>1
  <2>7. f \in Seq(PmPositions)
    <3>1. ASSUME NEW p \in PmPositions PROVE [p EXCEPT !.ratio = item.ratio] \in PmPositions
      BY DEF PmPositions
    <3>2. \A i \in DOMAIN mine : mine[i] \in PmPositions
      BY <2>6
    <3>3. \A i \in DOMAIN mine : f[i] \in PmPositions
      <4> HIDE DEF mine, Moves
      <4>1. QED BY <3>1, <3>2
    <3>4. DOMAIN f = DOMAIN mine /\ f = [i \in DOMAIN mine |-> f[i]]
      OBVIOUS
    <3> HIDE DEF f, mine
    <3>5. QED BY <2>6, <3>3, <3>4, MovedStays
  <2> HIDE DEF e, f, mine, Moves
  <2>8. [s.held EXCEPT ![item.owner] = f] \in HeldTypes
    BY <1>1, <2>7, HeldChanged
  <2>9. [s.meta EXCEPT ![item.id] = e] \in MetaMaps /\ KeptMeta(m0, [s.meta EXCEPT ![item.id] = e])
    BY <1>1, <2>2, <2>5, MetadataChanged
  <2>10. PICK h, m : h = [s.held EXCEPT ![item.owner] = f] /\ m = [s.meta EXCEPT ![item.id] = e]
    OBVIOUS
  <2>11. h \in HeldTypes /\ m \in MetaMaps /\ KeptMeta(m0, m)
    BY <2>8, <2>9, <2>10
  <2>12. [held |-> h, meta |-> m] \in PmBooks(m0)
    BY <2>11, BooksAre
  <2>13. Monitor!RebalanceItem(s, item) = [held |-> h, meta |-> m]
    BY ONLY <2>1, <2>10, Zenon
  <2>14. QED BY ONLY <2>12, <2>13, Zenon
<1>4. QED BY <1>2, <1>3

LEMMA AdjustStays ==
  ASSUME ledger \in Nat, NEW m0, NEW s \in PmBooks(m0), NEW item, item.owner \in 1 .. NumUsers, item.delta \in Int
  PROVE  Monitor!AdjustItem(s, item) \in PmBooks(m0)
<1>1. /\ s.held \in HeldTypes /\ s.meta \in MetaMaps /\ KeptMeta(m0, s.meta)
      /\ \A u \in 1 .. NumUsers : s.held[u] \in Seq(PmPositions)
  BY BooksHave
<1>2. CASE Monitor!AdjustItem(s, item) = s
  BY <1>2
<1>3. CASE Monitor!AdjustItem(s, item) # s
  <2> DEFINE mine == s.held[item.owner]
             Moves(p) == p.asset = s.meta[item.id].asset /\ p.collateral + item.delta >= 0
             f == [i \in DOMAIN mine |->
                     IF Moves(mine[i]) THEN [mine[i] EXCEPT !.collateral = mine[i].collateral + item.delta]
                     ELSE mine[i]]
             old == s.meta[item.id]
             e == [old EXCEPT !.updated = ledger]
  <2>1. Monitor!AdjustItem(s, item) =
          [held |-> [s.held EXCEPT ![item.owner] = f], meta |-> [s.meta EXCEPT ![item.id] = e]]
    BY <1>3 DEF Monitor!AdjustItem
  <2>2. item.id \in DOMAIN s.meta /\ old \in Monitor!PositionMetadata
    <3>1. Monitor!Open(s, item)
      BY <1>3 DEF Monitor!AdjustItem
    <3>2. item.id \in DOMAIN s.meta
      BY <3>1 DEF Monitor!Open
    <3>3. QED BY <1>1, <3>2, MetaTyped, Zenon
  <2>5. /\ e \in Monitor!PositionMetadata /\ e.owner = old.owner /\ e.asset = old.asset /\ e.created = old.created
        /\ e.status = old.status
    <3> HIDE DEF old
    <3>1. QED BY <2>2 DEF Monitor!PositionMetadata
  <2>6. mine \in Seq(PmPositions)
    BY <1>1
  <2>7. f \in Seq(PmPositions)
    <3>1. ASSUME NEW p \in PmPositions, p.collateral + item.delta >= 0
          PROVE  [p EXCEPT !.collateral = p.collateral + item.delta] \in PmPositions
      <4>1. p.collateral + item.delta \in Nat
        BY <3>1 DEF PmPositions
      <4>2. QED BY <4>1 DEF PmPositions
    <3>2. \A i \in DOMAIN mine : mine[i] \in PmPositions
      BY <2>6
    <3>3. \A i \in DOMAIN mine : f[i] \in PmPositions
      <4> HIDE DEF mine
      <4>1. QED BY <3>1, <3>2
    <3>4. DOMAIN f = DOMAIN mine /\ f = [i \in DOMAIN mine |-> f[i]]
      OBVIOUS
    <3> HIDE DEF f, mine
    <3>5. QED BY <2>6, <3>3, <3>4, MovedStays
  <2> HIDE DEF e, f, mine, Moves
  <2>8. [s.held EXCEPT ![item.owner] = f] \in HeldTypes
    BY <1>1, <2>7, HeldChanged
  <2>9. [s.meta EXCEPT ![item.id] = e] \in MetaMaps /\ KeptMeta(m0, [s.meta EXCEPT ![item.id] = e])
    BY <1>1, <2>2, <2>5, MetadataChanged
  <2>10. PICK h, m : h = [s.held EXCEPT ![item.owner] = f] /\ m = [s.meta EXCEPT ![item.id] = e]
    OBVIOUS
  <2>11. h \in HeldTypes /\ m \in MetaMaps /\ KeptMeta(m0, m)
    BY <2>8, <2>9, <2>10
  <2>12. [held |-> h, meta |-> m] \in PmBooks(m0)
    BY <2>11, BooksAre
  <2>13. Monitor!AdjustItem(s, item) = [held |-> h, meta |-> m]
    BY ONLY <2>1, <2>10, Zenon
  <2>14. QED BY ONLY <2>12, <2>13, Zenon
<1>4. QED BY <1>2, <1>3

(* What a batch holds: one or two items, each of some user.                 *)
LEMMA BatchesAre ==
  ASSUME NEW Chosen, NEW items \in Monitor!Batches(Chosen)
  PROVE  Len(items) \in 1 .. 2 /\ \A i \in 1 .. Len(items) : items[i] \in Chosen
<1>1. CASE items \in {<<x>> : x \in Chosen}
  BY <1>1
<1>2. CASE items \in {<<x, y>> : x, y \in Chosen}
  BY <1>2
<1>3. QED BY <1>1, <1>2 DEF Monitor!Batches

LEMMA BooksNow ==
  ASSUME held \in HeldTypes, meta \in MetaMaps
  PROVE  [held |-> held, meta |-> meta] \in PmBooks(meta)
BY NothingChanged, BooksAre

LEMMA ClosingKeeps ==
  ASSUME ledger \in Nat, held \in HeldTypes, meta \in MetaMaps,
         NEW items \in Monitor!Batches([id : DOMAIN meta, owner : 1 .. NumUsers]),
         Monitor!batch_close_positions(items)
  PROVE  held' \in HeldTypes /\ meta' \in MetaMaps /\ KeptMeta(meta, meta')
<1> DEFINE S == PmBooks(meta)
           base == [held |-> held, meta |-> meta]
           n == Len(items)
           Rec(g) == [i \in 0 .. n |-> IF i = 0 THEN base ELSE Monitor!CloseItem(g[i - 1], items[i])]
           p == CHOOSE g : g = Rec(g)
           one == Monitor!CloseItem(base, items[1])
           two == Monitor!CloseItem(one, items[2])
<1>1. n \in 1 .. 2 /\ \A i \in 1 .. n : items[i].owner \in 1 .. NumUsers
  <2>1. PICK Chosen : Chosen = [id : DOMAIN meta, owner : 1 .. NumUsers]
    OBVIOUS
  <2>2. items \in Monitor!Batches(Chosen)
    BY <2>1
  <2>3. n \in 1 .. 2 /\ \A i \in 1 .. n : items[i] \in Chosen
    BY <2>2, BatchesAre
  <2>4. QED BY <2>1, <2>3
<1>2. base \in S
  BY BooksNow
<1>3. held' = p[n].held /\ meta' = p[n].meta
  BY DEF Monitor!batch_close_positions, Monitor!Batch
<1>4. \A s \in S, i \in 1 .. n : Monitor!CloseItem(s, items[i]) \in S
  BY <1>1, CloseStays
<1>5. p = Rec(p)
  <2> HIDE DEF base, n
  <2>1. PICK a, b : a = one /\ b = two
    OBVIOUS
  <2>2. PICK g : g = [i \in 0 .. n |-> IF i = 0 THEN base ELSE IF i = 1 THEN a ELSE b]
    OBVIOUS
  <2>3. g[0] = base /\ g[1] = a /\ (n = 2 => g[2] = b)
    BY <1>1, <2>2
  <2>4. g = Rec(g)
    <3>1. ASSUME NEW i \in 0 .. n PROVE g[i] = Rec(g)[i]
      <4>1. CASE i = 0
        BY <2>3, <4>1
      <4>2. CASE i = 1
        BY <1>1, <2>1, <2>3, <4>2
      <4>3. CASE i = 2
        BY <1>1, <2>1, <2>3, <4>3
      <4>4. QED BY <1>1, <4>1, <4>2, <4>3
    <3>2. QED BY <2>2, <3>1
  <2> HIDE DEF Rec
  <2>5. QED BY <2>4
<1>6. p[0] = base /\ \A i \in 1 .. n : p[i] = Monitor!CloseItem(p[i - 1], items[i])
  <2> HIDE DEF base, n, p
  <2>1. \A i \in 0 .. n : p[i] = IF i = 0 THEN base ELSE Monitor!CloseItem(p[i - 1], items[i])
    BY <1>5
  <2>2. QED BY <1>1, <2>1
<1>7. p[n] \in S
  <2> HIDE DEF base, n, p, S
  <2>1. \A i \in 1 .. n : p[i - 1] \in S => p[i] \in S
    BY <1>4, <1>6
  <2>2. n \in Nat /\ n \in 0 .. n /\ p[0] \in S
    BY <1>1, <1>2, <1>6
  <2>3. QED BY <2>1, <2>2, StepsStay
<1> HIDE DEF p, n
<1>8. QED BY <1>3, <1>7, BooksHave

LEMMA RebalancingKeeps ==
  ASSUME ledger \in Nat, held \in HeldTypes, meta \in MetaMaps, NEW ratio \in Nat,
         NEW items \in Monitor!Batches([id : DOMAIN meta, owner : 1 .. NumUsers, ratio : {ratio}]),
         Monitor!batch_rebalance_positions(items)
  PROVE  held' \in HeldTypes /\ meta' \in MetaMaps /\ KeptMeta(meta, meta')
<1> DEFINE S == PmBooks(meta)
           base == [held |-> held, meta |-> meta]
           n == Len(items)
           Rec(g) == [i \in 0 .. n |-> IF i = 0 THEN base ELSE Monitor!RebalanceItem(g[i - 1], items[i])]
           p == CHOOSE g : g = Rec(g)
           one == Monitor!RebalanceItem(base, items[1])
           two == Monitor!RebalanceItem(one, items[2])
<1>1. n \in 1 .. 2 /\ \A i \in 1 .. n : items[i].owner \in 1 .. NumUsers /\ items[i].ratio \in Nat
  <2>1. PICK Chosen : Chosen = [id : DOMAIN meta, owner : 1 .. NumUsers, ratio : {ratio}]
    OBVIOUS
  <2>2. items \in Monitor!Batches(Chosen)
    BY <2>1
  <2>3. n \in 1 .. 2 /\ \A i \in 1 .. n : items[i] \in Chosen
    BY <2>2, BatchesAre
  <2>4. QED BY <2>1, <2>3
<1>2. base \in S
  BY BooksNow
<1>3. held' = p[n].held /\ meta' = p[n].meta
  BY DEF Monitor!batch_rebalance_positions, Monitor!Batch
<1>4. \A s \in S, i \in 1 .. n : Monitor!RebalanceItem(s, items[i]) \in S
  BY <1>1, RebalanceStays
<1>5. p = Rec(p)
  <2> HIDE DEF base, n
  <2>1. PICK a, b : a = one /\ b = two
    OBVIOUS
  <2>2. PICK g : g = [i \in 0 .. n |-> IF i = 0 THEN base ELSE IF i = 1 THEN a ELSE b]
    OBVIOUS
  <2>3. g[0] = base /\ g[1] = a /\ (n = 2 => g[2] = b)
    BY <1>1, <2>2
  <2>4. g = Rec(g)
    <3>1. ASSUME NEW i \in 0 .. n PROVE g[i] = Rec(g)[i]
      <4>1. CASE i = 0
        BY <2>3, <4>1
      <4>2. CASE i = 1
        BY <1>1, <2>1, <2>3, <4>2
      <4>3. CASE i = 2
        BY <1>1, <2>1, <2>3, <4>3
      <4>4. QED BY <1>1, <4>1, <4>2, <4>3
    <3>2. QED BY <2>2, <3>1
  <2> HIDE DEF Rec
  <2>5. QED BY <2>4
<1>6. p[0] = base /\ \A i \in 1 .. n : p[i] = Monitor!RebalanceItem(p[i - 1], items[i])
  <2> HIDE DEF base, n, p
  <2>1. \A i \in 0 .. n : p[i] = IF i = 0 THEN base ELSE Monitor!RebalanceItem(p[i - 1], items[i])
    BY <1>5
  <2>2. QED BY <1>1, <2>1
<1>7. p[n] \in S
  <2> HIDE DEF base, n, p, S
  <2>1. \A i \in 1 .. n : p[i - 1] \in S => p[i] \in S
    BY <1>4, <1>6
  <2>2. n \in Nat /\ n \in 0 .. n /\ p[0] \in S
    BY <1>1, <1>2, <1>6
  <2>3. QED BY <2>1, <2>2, StepsStay
<1> HIDE DEF p, n
<1>8. QED BY <1>3, <1>7, BooksHave

LEMMA AdjustingKeeps ==
  ASSUME ledger \in Nat, held \in HeldTypes, meta \in MetaMaps, NEW delta \in Int,
         NEW items \in Monitor!Batches([id : DOMAIN meta, owner : 1 .. NumUsers, delta : {delta}]),
         Monitor!batch_adjust_collateral(items)
  PROVE  held' \in HeldTypes /\ meta' \in MetaMaps /\ KeptMeta(meta, meta')
<1> DEFINE S == PmBooks(meta)
           base == [held |-> held, meta |-> meta]
           n == Len(items)
           Rec(g) == [i \in 0 .. n |-> IF i = 0 THEN base ELSE Monitor!AdjustItem(g[i - 1], items[i])]
           p == CHOOSE g : g = Rec(g)
           one == Monitor!AdjustItem(base, items[1])
           two == Monitor!AdjustItem(one, items[2])
<1>1. n \in 1 .. 2 /\ \A i \in 1 .. n : items[i].owner \in 1 .. NumUsers /\ items[i].delta \in Int
  <2>1. PICK Chosen : Chosen = [id : DOMAIN meta, owner : 1 .. NumUsers, delta : {delta}]
    OBVIOUS
  <2>2. items \in Monitor!Batches(Chosen)
    BY <2>1
  <2>3. n \in 1 .. 2 /\ \A i \in 1 .. n : items[i] \in Chosen
    BY <2>2, BatchesAre
  <2>4. QED BY <2>1, <2>3
<1>2. base \in S
  BY BooksNow
<1>3. held' = p[n].held /\ meta' = p[n].meta
  BY DEF Monitor!batch_adjust_collateral, Monitor!Batch
<1>4. \A s \in S, i \in 1 .. n : Monitor!AdjustItem(s, items[i]) \in S
  BY <1>1, AdjustStays
<1>5. p = Rec(p)
  <2> HIDE DEF base, n
  <2>1. PICK a, b : a = one /\ b = two
    OBVIOUS
  <2>2. PICK g : g = [i \in 0 .. n |-> IF i = 0 THEN base ELSE IF i = 1 THEN a ELSE b]
    OBVIOUS
  <2>3. g[0] = base /\ g[1] = a /\ (n = 2 => g[2] = b)
    BY <1>1, <2>2
  <2>4. g = Rec(g)
    <3>1. ASSUME NEW i \in 0 .. n PROVE g[i] = Rec(g)[i]
      <4>1. CASE i = 0
        BY <2>3, <4>1
      <4>2. CASE i = 1
        BY <1>1, <2>1, <2>3, <4>2
      <4>3. CASE i = 2
        BY <1>1, <2>1, <2>3, <4>3
      <4>4. QED BY <1>1, <4>1, <4>2, <4>3
    <3>2. QED BY <2>2, <3>1
  <2> HIDE DEF Rec
  <2>5. QED BY <2>4
<1>6. p[0] = base /\ \A i \in 1 .. n : p[i] = Monitor!AdjustItem(p[i - 1], items[i])
  <2> HIDE DEF base, n, p
  <2>1. \A i \in 0 .. n : p[i] = IF i = 0 THEN base ELSE Monitor!AdjustItem(p[i - 1], items[i])
    BY <1>5
  <2>2. QED BY <1>1, <2>1
<1>7. p[n] \in S
  <2> HIDE DEF base, n, p, S
  <2>1. \A i \in 1 .. n : p[i - 1] \in S => p[i] \in S
    BY <1>4, <1>6
  <2>2. n \in Nat /\ n \in 0 .. n /\ p[0] \in S
    BY <1>1, <1>2, <1>6
  <2>3. QED BY <2>1, <2>2, StepsStay
<1> HIDE DEF p, n
<1>8. QED BY <1>3, <1>7, BooksHave

LEMMA AlertedStays ==
  ASSUME ledger \in Nat, NEW s \in AlertStates, NEW id \in PmIds, NEW score \in Nat, NEW volatility \in Nat
  PROVE  Monitor!Alerted(s, id, score, volatility) \in AlertStates
<1>1. {"LiquidationRisk", "LowCollateral", "PriceVolatility"} \subseteq AlertTypes
  BY PmInputsTyped DEF PmInputTypes
<1>2. \A x \in AlertStates, type \in AlertTypes : Monitor!Raised(x, id, type) \in AlertStates
  BY RaisedStays
<1>3. PICK scored : scored = IF score >= 8000 THEN Monitor!Raised(s, id, "LiquidationRisk")
                             ELSE IF score >= 6000 THEN Monitor!Raised(s, id, "LowCollateral") ELSE s
  OBVIOUS
<1>4. scored \in AlertStates
  BY <1>1, <1>2, <1>3
<1>5. Monitor!Alerted(s, id, score, volatility) =
        IF volatility >= 5000 THEN Monitor!Raised(scored, id, "PriceVolatility") ELSE scored
  BY <1>3 DEF Monitor!Alerted
<1>6. QED BY <1>1, <1>2, <1>4, <1>5

LEMMA RatioTyped ==
  ASSUME held \in HeldTypes, NEW m, m.owner \in 1 .. NumUsers
  PROVE  Monitor!RatioOf(m) \in Nat
<1>1. PICK q \in Seq(PmPositions) : q = held[m.owner]
  BY DEF HeldTypes
<1>2. PICK those : those = {i \in DOMAIN q : q[i].asset = m.asset}
  OBVIOUS
<1>3. CASE those = {}
  <2>1. Monitor!RatioOf(m) = 15000
    BY <1>1, <1>2, <1>3 DEF Monitor!RatioOf
  <2>2. QED BY <2>1
<1>4. CASE those # {}
  <2>1. PICK first : first = CHOOSE i \in those : \A j \in those : i <= j
    OBVIOUS
  <2>2. \E i \in those : \A j \in those : i <= j
    <3>1. those \in SUBSET Nat
      BY <1>2
    <3>2. QED BY <1>4, <3>1, LeastElement
  <2>3. first \in those
    BY <2>1, <2>2
  <2>4. q[first] \in PmPositions
    BY <1>2, <2>3
  <2>5. Monitor!RatioOf(m) = q[first].ratio
    BY <1>1, <1>2, <1>4, <2>1 DEF Monitor!RatioOf
  <2>6. QED BY <2>4, <2>5 DEF PmPositions
<1>5. QED BY <1>3, <1>4

PmInv ==
  /\ ledger \in PmIds /\ held \in HeldTypes /\ meta \in MetaMaps
  /\ \A id \in DOMAIN meta : meta[id].created <= ledger
  /\ alerts \in AlertMaps /\ raised \in RaisedMaps /\ SpacedAt(alerts, raised, ledger)

LEMMA ScoreNowTyped ==
  ASSUME PmInv, NEW id \in DOMAIN meta, NEW volatility \in Nat, NEW market \in Nat
  PROVE  Monitor!ScoreNow(id, volatility, market) \in Monitor!Scores
<1>1. PICK m \in Monitor!PositionMetadata : m = meta[id]
  BY MetaTyped DEF PmInv
<1>2. m.owner \in 1 .. NumUsers /\ m.created \in Nat
  BY DEF Monitor!PositionMetadata, Monitor!Traders
<1>3. Monitor!RatioOf(m) \in Nat
  BY <1>2, RatioTyped DEF PmInv
<1>4. ledger \in Nat /\ m.created <= ledger
  BY <1>1, PmInputsTyped DEF PmInv, PmIds, PmInputTypes
<1>5. PICK age \in Nat : age = ledger - m.created
  BY <1>2, <1>4
<1>6. age \div PM_DAY \in Nat
  BY PmInputsTyped, QuotientBounds DEF PmInputTypes
<1>7. Monitor!compute_risk_score(Monitor!RatioOf(m), volatility, age \div PM_DAY, market) \in Monitor!Scores
  BY <1>3, <1>6, ScoreTyped
<1>8. QED BY <1>1, <1>5, <1>7 DEF Monitor!ScoreNow

(* What a round of the monitor does to the alerts.                          *)
LEMMA RoundStays ==
  ASSUME PmInv, NEW volatility \in Nat, NEW market \in Nat, Monitor!monitor_positions(volatility, market)
  PROVE  [alerts |-> alerts', raised |-> raised'] \in AlertStates
<1> DEFINE S == AlertStates
           base == [alerts |-> alerts, raised |-> raised]
           n == MaxPmLedger
           Next1(s, id) == IF id \in Monitor!Watched
                           THEN Monitor!Alerted(s, id, Monitor!ScoreNow(id, volatility, market), volatility) ELSE s
           Rec(g) == [id \in 0 .. n |-> IF id = 0 THEN base ELSE Next1(g[id - 1], id)]
           p == CHOOSE g : g = Rec(g)
           step == [x \in (1 .. n) \X S |-> Next1(x[2], x[1])]
<1>1. n \in Nat
  BY PmInputsTyped DEF PmInputTypes
<1>2. base \in S
  BY DEF PmInv, AlertStates
<1>3. \A s \in S, id \in 1 .. n : Next1(s, id) \in S
  <2>1. SUFFICES ASSUME NEW s \in S, NEW id \in 1 .. n, id \in Monitor!Watched
                 PROVE  Monitor!Alerted(s, id, Monitor!ScoreNow(id, volatility, market), volatility) \in S
    OBVIOUS
  <2>2. id \in DOMAIN meta
    BY <2>1 DEF Monitor!Watched
  <2>3. Monitor!ScoreNow(id, volatility, market) \in Nat
    BY <2>2, ScoreNowTyped DEF Monitor!Scores
  <2>4. ledger \in Nat /\ id \in PmIds
    BY PmInputsTyped DEF PmInv, PmIds, PmInputTypes
  <2>5. QED BY <2>3, <2>4, AlertedStays
<1>4. PICK acc : StepsFrom(acc, n, S, base, step)
  <2> HIDE DEF S, base, n, Next1
  <2>1. step \in [(1 .. n) \X S -> S]
    BY <1>3
  <2> HIDE DEF step
  <2>2. QED BY <1>1, <1>2, <2>1, StepsExist
<1>5. acc = Rec(acc)
  <2> HIDE DEF S, base, n, Next1
  <2>1. acc \in [0 .. n -> S] /\ acc[0] = base
    BY <1>4 DEF StepsFrom
  <2>2. ASSUME NEW i \in 0 .. n PROVE acc[i] = Rec(acc)[i]
    <3>1. CASE i = 0
      BY <2>1, <3>1
    <3>2. CASE i # 0
      <4>1. i \in 1 .. n /\ i - 1 \in 0 .. n
        BY <1>1, <3>2
      <4>2. acc[i - 1] \in S
        BY <2>1, <4>1
      <4>3. acc[i] = step[<<i, acc[i - 1]>>]
        BY <1>4, <4>1 DEF StepsFrom
      <4>4. <<i, acc[i - 1]>> \in (1 .. n) \X S
        BY <4>1, <4>2
      <4>5. step[<<i, acc[i - 1]>>] = Next1(acc[i - 1], i)
        BY <4>4
      <4>6. QED BY <3>2, <4>3, <4>5
    <3>3. QED BY <3>1, <3>2
  <2>3. QED BY <2>1, <2>2
<1>6. p = Rec(p)
  <2> HIDE DEF Rec
  <2>1. QED BY <1>5
<1>7. alerts' = p[n].alerts /\ raised' = p[n].raised
  BY DEF Monitor!monitor_positions
<1>8. p[0] = base /\ \A i \in 1 .. n : p[i] = Next1(p[i - 1], i)
  <2> HIDE DEF p, base, n, Next1
  <2>1. \A i \in 0 .. n : p[i] = IF i = 0 THEN base ELSE Next1(p[i - 1], i)
    BY <1>6
  <2>2. QED BY <1>1, <2>1
<1>9. p[n] \in S
  <2> HIDE DEF base, n, p, S, Next1
  <2>1. \A i \in 1 .. n : p[i - 1] \in S => p[i] \in S
    BY <1>3, <1>8
  <2>2. n \in Nat /\ n \in 0 .. n /\ p[0] \in S
    BY <1>1, <1>2, <1>8
  <2>3. QED BY <2>1, <2>2, StepsStay
<1> HIDE DEF p, n
<1>10. PICK r \in S : r = p[n]
  BY <1>9
<1>11. [alerts |-> r.alerts, raised |-> r.raised] = r
  BY DEF AlertStates
<1>12. QED BY <1>7, <1>10, <1>11

LEMMA PmInitial == Monitor!PmInit => PmInv
<1>1. SUFFICES ASSUME Monitor!PmInit PROVE PmInv
  OBVIOUS
<1>2. PICK none : none = Monitor!EmptyMap /\ DOMAIN none = {}
  BY DEF Monitor!EmptyMap
<1>3. \A K, V : none \in MapsTo(K, V)
  <2>1. \A K, V : none \in [{} -> V] /\ {} \in SUBSET K
    BY <1>2 DEF Monitor!EmptyMap
  <2>2. QED BY <2>1 DEF MapsTo
<1>4. held \in HeldTypes
  BY <1>1 DEF Monitor!PmInit, HeldTypes, Monitor!Traders
<1>5. SpacedAt(none, none, 1)
  BY <1>2 DEF SpacedAt
<1>6. 1 \in PmIds
  BY PmInputsTyped DEF PmIds, PmInputTypes
<1>7. QED BY <1>1, <1>2, <1>3, <1>4, <1>5, <1>6 DEF Monitor!PmInit, PmInv, MetaMaps, AlertMaps, RaisedMaps

(* What is told, and when, is not touched by an acknowledgement.            *)
LEMMA AcknowledgedStays ==
  ASSUME PmInv, NEW caller, NEW id, NEW alert_id, Monitor!acknowledge_alert(caller, id, alert_id)
  PROVE  alerts' \in AlertMaps /\ SpacedAt(alerts', raised, ledger)
<1> DEFINE told == alerts[id]
           f == [i \in DOMAIN told |-> IF told[i].id = alert_id THEN [told[i] EXCEPT !.acknowledged = TRUE] ELSE told[i]]
<1>1. id \in DOMAIN alerts /\ alerts' = [alerts EXCEPT ![id] = f]
  BY DEF Monitor!acknowledge_alert
<1>2. alerts \in AlertMaps /\ SpacedAt(alerts, raised, ledger) /\ DOMAIN alerts \subseteq PmIds
  BY AlertStatesTyped DEF PmInv
<1>3. told \in Seq(Monitor!PositionAlert)
  BY <1>1, AlertStatesTyped DEF PmInv
<1>4. ASSUME NEW e \in Monitor!PositionAlert
      PROVE  /\ [e EXCEPT !.acknowledged = TRUE] \in Monitor!PositionAlert
             /\ [e EXCEPT !.acknowledged = TRUE].type = e.type
             /\ [e EXCEPT !.acknowledged = TRUE].at = e.at
  BY DEF Monitor!PositionAlert
<1>5. \A i \in DOMAIN told : told[i] \in Monitor!PositionAlert
  BY <1>3
<1>6. PICK q : q = f
  OBVIOUS
<1>7. /\ q \in [DOMAIN told -> Monitor!PositionAlert]
      /\ DOMAIN q = DOMAIN told /\ \A i \in DOMAIN told : q[i].type = told[i].type /\ q[i].at = told[i].at
  <2> HIDE DEF told
  <2>1. \A i \in DOMAIN told : f[i] \in Monitor!PositionAlert /\ f[i].type = told[i].type /\ f[i].at = told[i].at
    BY <1>4, <1>5
  <2>2. QED BY <1>6, <2>1
<1>8. PICK t \in Seq(Monitor!PositionAlert) : t = told
  BY <1>3
<1> HIDE DEF f, told
<1>9. q \in Seq(Monitor!PositionAlert)
  BY <1>7, <1>8, MappedInto
<1>10. PICK T : T = Seq(Monitor!PositionAlert)
  OBVIOUS
<1>11. PICK al2 : al2 = alerts'
  OBVIOUS
<1>12. /\ alerts \in [DOMAIN alerts -> T] /\ q \in T
  BY <1>2, <1>9, <1>10, MapsAre DEF AlertMaps
<1>13. /\ al2 \in [DOMAIN alerts -> T] /\ DOMAIN al2 = DOMAIN alerts /\ al2[id] = q
       /\ \A x \in DOMAIN alerts : x # id => al2[x] = alerts[x]
  BY <1>1, <1>6, <1>11, <1>12
<1>14. al2 \in AlertMaps
  BY <1>2, <1>10, <1>13 DEF AlertMaps, MapsTo
<1>15. ASSUME NEW x \in DOMAIN al2
       PROVE  /\ DOMAIN al2[x] = DOMAIN alerts[x]
              /\ \A i \in DOMAIN al2[x] : al2[x][i].type = alerts[x][i].type /\ al2[x][i].at = alerts[x][i].at
  BY <1>7, <1>13 DEF told
<1>16. ASSUME NEW x \in DOMAIN al2 PROVE Apart(al2[x]) /\ Noted(al2[x], x, raised)
  <2>1. Apart(alerts[x]) /\ Noted(alerts[x], x, raised)
    BY <1>2, <1>13 DEF SpacedAt
  <2>2. PICK a, b : a = al2[x] /\ b = alerts[x]
    OBVIOUS
  <2>3. DOMAIN a = DOMAIN b /\ \A i \in DOMAIN a : a[i].type = b[i].type /\ a[i].at = b[i].at
    BY <1>15, <2>2
  <2>4. Apart(a)
    BY <2>1, <2>2, <2>3 DEF Apart
  <2>5. Noted(a, x, raised)
    BY <2>1, <2>2, <2>3 DEF Noted
  <2>6. QED BY <2>2, <2>4, <2>5
<1>17. ASSUME NEW k \in DOMAIN raised
       PROVE  k[1] \in DOMAIN al2 /\ \E i \in DOMAIN al2[k[1]] : al2[k[1]][i].type = k[2] /\ al2[k[1]][i].at = raised[k]
  <2>1. k[1] \in DOMAIN alerts
    BY <1>2 DEF SpacedAt
  <2>2. PICK i \in DOMAIN alerts[k[1]] : alerts[k[1]][i].type = k[2] /\ alerts[k[1]][i].at = raised[k]
    BY <1>2 DEF SpacedAt
  <2>3. QED BY <1>13, <1>15, <2>1, <2>2
<1>18. SpacedAt(al2, raised, ledger)
  BY <1>2, <1>16, <1>17 DEF SpacedAt
<1>19. QED BY <1>11, <1>14, <1>18

(* What a round of the monitor does to the positions.                       *)
LEMMA RoundKeeps ==
  ASSUME PmInv, NEW volatility \in Nat, NEW market \in Nat, Monitor!monitor_positions(volatility, market)
  PROVE  meta' \in MetaMaps /\ KeptMeta(meta, meta')
<1> DEFINE f == [id \in DOMAIN meta |->
                   IF id \in Monitor!Watched THEN Monitor!Monitored(meta[id], Monitor!ScoreNow(id, volatility, market))
                   ELSE meta[id]]
<1>1. meta' = f
  BY DEF Monitor!monitor_positions
<1>2. meta \in MetaMaps /\ DOMAIN meta \subseteq PmIds
  BY MetaTyped DEF PmInv
<1>3. ledger \in Nat
  BY PmInputsTyped DEF PmInv, PmIds, PmInputTypes
<1>4. ASSUME NEW id \in DOMAIN meta
      PROVE  /\ f[id] \in Monitor!PositionMetadata
             /\ f[id].owner = meta[id].owner /\ f[id].asset = meta[id].asset /\ f[id].created = meta[id].created
             /\ meta[id].status = "Closed" => f[id].status = "Closed"
  <2>1. PICK m \in Monitor!PositionMetadata : m = meta[id]
    BY <1>2, MetaTyped
  <2>2. CASE id \notin Monitor!Watched
    BY <2>1, <2>2
  <2>3. CASE id \in Monitor!Watched
    <3>1. PICK w \in Monitor!Scores : w = Monitor!ScoreNow(id, volatility, market)
      BY ScoreNowTyped
    <3>2. PICK ss : ss = IF w >= 6000 /\ w < 8000 THEN m.status ELSE Monitor!StatusOf(w)
      OBVIOUS
    <3>3. ss \in Monitor!PositionStatus
      <4>1. m.status \in Monitor!PositionStatus
        BY DEF Monitor!PositionMetadata
      <4>2. Monitor!StatusOf(w) \in Monitor!PositionStatus
        BY DEF Monitor!StatusOf, Monitor!PositionStatus
      <4>3. QED BY <3>2, <4>1, <4>2
    <3>4. PICK e : e = [m EXCEPT !.score = w, !.updated = ledger, !.status = ss]
      OBVIOUS
    <3>5. StillOf(e, m, ss)
      BY <1>3, <3>3, <3>4, MetadataScored
    <3>6. f[id] = e
      BY <2>1, <2>3, <3>1, <3>2, <3>4 DEF Monitor!Monitored
    <3>7. m.status # "Closed"
      BY <2>1, <2>3 DEF Monitor!Watched
    <3>8. QED BY <2>1, <3>5, <3>6, <3>7 DEF StillOf
  <2>4. QED BY <2>2, <2>3
<1>5. PICK g : g = f
  OBVIOUS
<1>6. g \in [DOMAIN meta -> Monitor!PositionMetadata] /\ DOMAIN g = DOMAIN meta
  BY <1>4, <1>5
<1>7. g \in MetaMaps
  BY <1>2, <1>6 DEF MetaMaps, MapsTo
<1>8. KeptMeta(meta, g)
  BY <1>4, <1>5, <1>6 DEF KeptMeta
<1>9. QED BY <1>1, <1>5, <1>7, <1>8

\* What a step may not do to a position of an earlier ledger.
PositionsKept ==
  \A id \in DOMAIN meta :
    id # ledger =>
      /\ meta'[id].owner = meta[id].owner /\ meta'[id].asset = meta[id].asset
      /\ meta[id].status = "Closed" => meta'[id].status = "Closed"

LEMMA MetaStep ==
  ASSUME PmInv, held' \in HeldTypes, meta' \in MetaMaps, KeptMeta(meta, meta'),
         UNCHANGED <<alerts, raised, ledger>>
  PROVE  PmInv' /\ PositionsKept
<1>1. \A id \in DOMAIN meta' : meta'[id].created <= ledger
  BY DEF KeptMeta, PmInv
<1>2. PositionsKept
  BY DEF KeptMeta, PositionsKept
<1>3. SpacedAt(alerts, raised, ledger)'
  BY DEF PmInv, SpacedAt, Apart, Noted
<1>4. QED BY <1>1, <1>2, <1>3 DEF PmInv

LEMMA PmStep ==
  ASSUME PmInv, Monitor!PmNext
  PROVE  PmInv' /\ PositionsKept
<1>1. /\ ledger \in PmIds /\ ledger \in Nat /\ held \in HeldTypes /\ meta \in MetaMaps
      /\ DOMAIN meta \subseteq PmIds /\ MaxPmLedger \in Nat
  BY PmInputsTyped, MetaTyped DEF PmInv, PmIds, PmInputTypes
<1>2. PmInputTypes
  BY PmInputsTyped
<1>3. Monitor!Traders = 1 .. NumUsers
  BY DEF Monitor!Traders
<1>4. ASSUME UNCHANGED <<held, meta>> PROVE PositionsKept
  BY <1>4 DEF PositionsKept
<1>5. ASSUME NEW u \in 1 .. NumUsers, NEW asset \in PmAssets, NEW collateral \in PmCollaterals, NEW ratio \in PmRatios,
             Monitor!create_monitored_position(u, asset, collateral, ratio)
      PROVE  PmInv' /\ PositionsKept
  <2>1. collateral \in Nat /\ ratio \in Nat
    BY <1>2 DEF PmInputTypes
  <2>2. PICK w \in Monitor!Scores : w = Monitor!compute_risk_score(ratio, 3000, 0, 5000)
    BY <2>1, ScoreTyped
  <2>3. PICK e : e = [owner |-> u, asset |-> asset, created |-> ledger, updated |-> ledger,
                      status |-> "Active", score |-> w]
    OBVIOUS
  <2>4. e \in Monitor!PositionMetadata /\ e.created = ledger
    BY <1>1, <2>3 DEF Monitor!PositionMetadata, Monitor!PositionStatus, Monitor!Traders
  <2>5. PICK p : p = [asset |-> asset, collateral |-> collateral, ratio |-> ratio]
    OBVIOUS
  <2>6. p \in PmPositions
    BY <2>1, <2>5 DEF PmPositions
  <2>7. held[u] \in Seq(PmPositions)
    BY <1>1 DEF HeldTypes
  <2>8. PICK q : q = Append(held[u], p)
    OBVIOUS
  <2>9. q \in Seq(PmPositions)
    BY <2>6, <2>7, <2>8, AppendProperties
  <2>10. /\ held' = [held EXCEPT ![u] = q] /\ meta' = Put(meta, ledger, e)
         /\ UNCHANGED <<alerts, raised, ledger>>
    BY <1>5, <2>2, <2>3, <2>5, <2>8, PmMaps DEF Monitor!create_monitored_position
  <2>11. held' \in HeldTypes
    BY <1>1, <2>9, <2>10, HeldChanged
  <2>12. PICK m2 : m2 = Put(meta, ledger, e)
    OBVIOUS
  <2>13. m2 \in MetaMaps /\ DOMAIN m2 = DOMAIN meta \cup {ledger}
    <3>1. meta \in [DOMAIN meta -> Monitor!PositionMetadata]
      BY <1>1, MetaTyped
    <3>2. m2 \in [DOMAIN meta \cup {ledger} -> Monitor!PositionMetadata]
      BY <2>4, <2>12, <3>1 DEF Put
    <3>3. DOMAIN meta \cup {ledger} \in SUBSET PmIds
      BY <1>1
    <3>4. QED BY <3>2, <3>3 DEF MetaMaps, MapsTo
  <2>14. m2[ledger] = e /\ \A x \in DOMAIN meta : x # ledger => m2[x] = meta[x]
    BY <2>12 DEF Put
  <2>15. \A id \in DOMAIN m2 : m2[id].created <= ledger
    BY <1>1, <2>4, <2>13, <2>14 DEF PmInv
  <2>16. PositionsKept
    BY <2>10, <2>12, <2>14 DEF PositionsKept
  <2>17. SpacedAt(alerts, raised, ledger)'
    BY <2>10 DEF PmInv, SpacedAt, Apart, Noted
  <2>18. QED BY <2>10, <2>11, <2>12, <2>13, <2>15, <2>16, <2>17 DEF PmInv
<1>6. ASSUME NEW items \in Monitor!Batches([id : DOMAIN meta, owner : 1 .. NumUsers]), Monitor!batch_close_positions(items)
      PROVE  PmInv' /\ PositionsKept
  <2>1. UNCHANGED <<alerts, raised, ledger>>
    BY <1>6 DEF Monitor!batch_close_positions, Monitor!Batch
  <2>2. QED BY <1>1, <1>6, <2>1, ClosingKeeps, MetaStep
<1>7. ASSUME NEW ratio \in PmRatios,
             NEW items \in Monitor!Batches([id : DOMAIN meta, owner : 1 .. NumUsers, ratio : {ratio}]),
             Monitor!batch_rebalance_positions(items)
      PROVE  PmInv' /\ PositionsKept
  <2>1. UNCHANGED <<alerts, raised, ledger>>
    BY <1>7 DEF Monitor!batch_rebalance_positions, Monitor!Batch
  <2>2. ratio \in Nat
    BY <1>2 DEF PmInputTypes
  <2>3. held' \in HeldTypes /\ meta' \in MetaMaps /\ KeptMeta(meta, meta')
    BY <1>1, <1>7, <2>2, RebalancingKeeps
  <2>4. QED BY <2>1, <2>3, MetaStep
<1>8. ASSUME NEW delta \in Deltas,
             NEW items \in Monitor!Batches([id : DOMAIN meta, owner : 1 .. NumUsers, delta : {delta}]),
             Monitor!batch_adjust_collateral(items)
      PROVE  PmInv' /\ PositionsKept
  <2>1. UNCHANGED <<alerts, raised, ledger>>
    BY <1>8 DEF Monitor!batch_adjust_collateral, Monitor!Batch
  <2>2. delta \in Int
    BY <1>2 DEF PmInputTypes
  <2>3. held' \in HeldTypes /\ meta' \in MetaMaps /\ KeptMeta(meta, meta')
    BY <1>1, <1>8, <2>2, AdjustingKeeps
  <2>4. QED BY <2>1, <2>3, MetaStep
<1>9. ASSUME NEW id \in PmIds, NEW ratio \in PmRatios, NEW volatility \in Volatilities, NEW age \in Ages,
             NEW market \in Markets, Monitor!calculate_risk_score(id, ratio, volatility, age, market)
      PROVE  PmInv' /\ PositionsKept
  <2>1. ratio \in Nat /\ volatility \in Nat /\ age \in Nat /\ market \in Nat
    BY <1>2 DEF PmInputTypes
  <2>2. PICK w \in Monitor!Scores : w = Monitor!compute_risk_score(ratio, volatility, age, market)
    BY <2>1, ScoreTyped
  <2>3. id \in DOMAIN meta
    BY <1>9 DEF Monitor!calculate_risk_score
  <2>4. PICK m \in Monitor!PositionMetadata : m = meta[id]
    BY <1>1, <2>3, MetaTyped
  <2>5. PICK ss : ss = IF m.status \in {"Closed", "Liquidating"} THEN m.status ELSE Monitor!StatusOf(w)
    OBVIOUS
  <2>6. ss \in Monitor!PositionStatus /\ (m.status = "Closed" => ss = "Closed")
    <3>1. m.status \in Monitor!PositionStatus
      BY DEF Monitor!PositionMetadata
    <3>2. Monitor!StatusOf(w) \in Monitor!PositionStatus
      BY DEF Monitor!StatusOf, Monitor!PositionStatus
    <3>3. QED BY <2>5, <3>1, <3>2
  <2>7. PICK e : e = [m EXCEPT !.score = w, !.updated = ledger, !.status = ss]
    OBVIOUS
  <2>8. StillOf(e, m, ss)
    BY <1>1, <2>6, <2>7, MetadataScored
  <2>9. meta' = [meta EXCEPT ![id] = e] /\ UNCHANGED <<held, alerts, raised, ledger>>
    BY <1>9, <2>2, <2>4, <2>5, <2>7 DEF Monitor!calculate_risk_score
  <2>10. KeptMeta(meta, meta)
    BY NothingChanged
  <2>11. meta' \in MetaMaps /\ KeptMeta(meta, meta')
    BY <1>1, <2>3, <2>4, <2>6, <2>8, <2>9, <2>10, MetadataChanged DEF StillOf
  <2>12. QED BY <1>1, <2>9, <2>11, MetaStep
<1>10. ASSUME NEW id \in PmIds, NEW type \in AlertTypes, Monitor!raise_alert(id, type)
       PROVE  PmInv' /\ PositionsKept
  <2>1. PICK s0 : s0 = [alerts |-> alerts, raised |-> raised]
    OBVIOUS
  <2>2. s0 \in AlertStates
    BY <2>1 DEF PmInv, AlertStates
  <2>3. PICK s \in AlertStates : s = Monitor!Raised(s0, id, type)
    BY <1>1, <2>2, RaisedStays
  <2>4. alerts' = s.alerts /\ raised' = s.raised /\ UNCHANGED <<held, meta, ledger>>
    BY <1>10, <2>1, <2>3 DEF Monitor!raise_alert
  <2>5. alerts' \in AlertMaps /\ raised' \in RaisedMaps /\ SpacedAt(alerts', raised', ledger)
    BY <2>4 DEF AlertStates
  <2>6. SpacedAt(alerts, raised, ledger)'
    BY <2>4, <2>5 DEF SpacedAt, Apart, Noted
  <2>7. QED BY <1>4, <2>4, <2>5, <2>6 DEF PmInv
<1>11. ASSUME NEW u, NEW id, NEW alert_id, Monitor!acknowledge_alert(u, id, alert_id)
       PROVE  PmInv' /\ PositionsKept
  <2>1. UNCHANGED <<held, meta, raised, ledger>>
    BY <1>11 DEF Monitor!acknowledge_alert
  <2>2. alerts' \in AlertMaps /\ SpacedAt(alerts', raised, ledger)
    BY <1>11, AcknowledgedStays
  <2>3. SpacedAt(alerts, raised, ledger)'
    BY <2>1, <2>2 DEF SpacedAt, Apart, Noted
  <2>4. QED BY <1>4, <2>1, <2>2, <2>3 DEF PmInv
<1>12. ASSUME NEW volatility \in Volatilities, NEW market \in Markets, Monitor!monitor_positions(volatility, market)
       PROVE  PmInv' /\ PositionsKept
  <2>1. volatility \in Nat /\ market \in Nat
    BY <1>2 DEF PmInputTypes
  <2>2. UNCHANGED <<held, ledger>>
    BY <1>12 DEF Monitor!monitor_positions
  <2>3. [alerts |-> alerts', raised |-> raised'] \in AlertStates
    BY <1>12, <2>1, RoundStays
  <2>4. alerts' \in AlertMaps /\ raised' \in RaisedMaps /\ SpacedAt(alerts', raised', ledger)
    BY <2>3 DEF AlertStates
  <2>5. meta' \in MetaMaps /\ KeptMeta(meta, meta')
    BY <1>12, <2>1, RoundKeeps
  <2>6. \A id \in DOMAIN meta' : meta'[id].created <= ledger
    BY <2>5 DEF KeptMeta, PmInv
  <2>7. PositionsKept
    BY <2>5 DEF KeptMeta, PositionsKept
  <2>8. SpacedAt(alerts, raised, ledger)'
    BY <2>2, <2>4 DEF SpacedAt, Apart, Noted
  <2>9. QED BY <2>2, <2>4, <2>5, <2>6, <2>7, <2>8 DEF PmInv
<1>13. CASE Monitor!NextLedger
  <2>1. ledger' = ledger + 1 /\ ledger < MaxPmLedger /\ UNCHANGED <<held, meta, alerts, raised>>
    BY <1>13 DEF Monitor!NextLedger
  <2>2. ledger' \in PmIds
    BY <1>1, <2>1 DEF PmIds
  <2>3. \A k \in DOMAIN raised : raised[k] <= ledger + 1
    <3>1. \A k \in DOMAIN raised : raised[k] \in Nat /\ raised[k] <= ledger
      BY AlertStatesTyped DEF PmInv, SpacedAt
    <3>2. QED BY <1>1, <3>1
  <2>4. SpacedAt(alerts, raised, ledger)'
    BY <2>1, <2>3 DEF PmInv, SpacedAt, Apart, Noted
  <2>5. \A id \in DOMAIN meta : meta[id].created <= ledger + 1
    <3>1. \A id \in DOMAIN meta : meta[id].created \in Nat
      BY <1>1, MetaTyped DEF Monitor!PositionMetadata
    <3>2. QED BY <1>1, <3>1 DEF PmInv
  <2>6. QED BY <1>4, <2>1, <2>2, <2>4, <2>5 DEF PmInv
<1>14. Monitor!Ids = PmIds
  BY DEF Monitor!Ids, PmIds
<1>15. QED
  BY <1>3, <1>5, <1>6, <1>7, <1>8, <1>9, <1>10, <1>11, <1>12, <1>13, <1>14 DEF Monitor!PmNext

(* The alerts are spaced as the window says.                                *)
LEMMA AlertsAreSpaced == PmInv => Monitor!AlertsSpaced
<1>1. SUFFICES ASSUME PmInv PROVE Monitor!AlertsSpaced
  OBVIOUS
<1>2. /\ meta \in MetaMaps /\ alerts \in AlertMaps /\ SpacedAt(alerts, raised, ledger)
  BY <1>1 DEF PmInv
<1>3. Monitor!IsMap(meta, Monitor!Ids, Monitor!PositionMetadata)
  <2>1. DOMAIN meta \subseteq PmIds /\ meta \in [DOMAIN meta -> Monitor!PositionMetadata]
    BY <1>2, MetaTyped
  <2>2. Monitor!Ids = PmIds
    BY DEF Monitor!Ids, PmIds
  <2>3. QED BY <2>1, <2>2 DEF Monitor!IsMap
<1>4. ASSUME NEW id \in DOMAIN alerts, NEW i \in DOMAIN alerts[id], NEW j \in DOMAIN alerts[id]
      PROVE  /\ i < j /\ alerts[id][i].type = alerts[id][j].type =>
                  alerts[id][j].at - alerts[id][i].at >= ALERT_DEDUP_WINDOW
             /\ alerts[id][i].at <= raised[<<id, alerts[id][i].type>>]
  <2>1. Apart(alerts[id]) /\ Noted(alerts[id], id, raised)
    BY <1>2 DEF SpacedAt
  <2>2. QED BY <2>1 DEF Apart, Noted
<1>5. \A k \in DOMAIN raised : \E i \in DOMAIN alerts[k[1]] :
        alerts[k[1]][i].type = k[2] /\ alerts[k[1]][i].at = raised[k]
  BY <1>2 DEF SpacedAt
<1>6. QED BY <1>3, <1>4, <1>5 DEF Monitor!AlertsSpaced

-----------------------------------------------------------------------------
(* The contracts side by side.                                              *)

LEMMA PoolInitial == Pool!PoolInit => PoolInv
BY EmptyPoolIsSound DEF Pool!PoolInit, PoolInv

LEMMA StartsOfEach ==
  ASSUME Init
  PROVE  /\ Pool!PoolInit /\ Sim!SimInit /\ Yield!VaultInit /\ LpTokens!LpInit
         /\ Locked!StakingInit /\ Held!EscrowInit /\ Boosted!BoostInit
         /\ Stability!StabInit /\ Coins!CoinInit /\ Synthetics!SynthInit
         /\ Monitor!PmInit /\ Analytics!AnlInit
         /\ contract \in Contracts
BY DEF Init

(* A step is one of each contract, or leaves that contract as it is.        *)
LEMMA StepsOfEach ==
  ASSUME [Next]_vars
  PROVE  /\ Pool!PoolNext \/ UNCHANGED poolVars
         /\ Sim!SimNext \/ UNCHANGED simVars
         /\ Yield!VaultNext \/ UNCHANGED vault
         /\ LpTokens!LpNext \/ UNCHANGED lpVars
         /\ Locked!StakingNext \/ UNCHANGED lockVars
         /\ Held!EscrowNext \/ UNCHANGED escrowVars
         /\ Boosted!BoostNext \/ UNCHANGED boostVars
         /\ Stability!StabNext \/ UNCHANGED stabVars
         /\ Coins!CoinNext \/ UNCHANGED coinVars
         /\ Synthetics!SynthNext \/ UNCHANGED synthVars
         /\ Monitor!PmNext \/ UNCHANGED pmVars
         /\ Analytics!AnlNext \/ UNCHANGED anlVars
<1>1. CASE Next
  BY <1>1 DEF Next
<1>2. CASE UNCHANGED vars
  BY <1>2 DEF vars
<1>3. QED BY <1>1, <1>2

LEMMA PoolInvariance == Spec => []PoolInv
<1>1. Init => PoolInv
  BY StartsOfEach, PoolInitial
<1>2. PoolInv /\ [Next]_vars => PoolInv'
  <2>1. ASSUME PoolInv, UNCHANGED poolVars PROVE PoolInv'
    BY <2>1 DEF PoolInv, SoundPool, HasHolders, TotalInReserves, Sized, poolVars
  <2>2. QED BY <2>1, StepsOfEach, PoolStep
<1>3. QED BY <1>1, <1>2, PTL DEF Spec

LEMMA SimInvariance == Spec => []SimInv
<1>1. Init => SimInv
  BY StartsOfEach, SimInitial
<1>2. SimInv /\ [Next]_vars => SimInv'
  <2>1. ASSUME SimInv, UNCHANGED simVars PROVE SimInv'
    BY <2>1 DEF SimInv, SoundPool, HasHolders, TotalInReserves, Sized, simVars
  <2>2. QED BY <2>1, StepsOfEach, SimStep
<1>3. QED BY <1>1, <1>2, PTL DEF Spec

LEMMA VaultInvariance == Spec => []VaultInv
<1>1. Init => VaultInv
  BY StartsOfEach, VaultInitial
<1>2. VaultInv /\ [Next]_vars => VaultInv'
  <2>1. ASSUME VaultInv, UNCHANGED vault PROVE VaultInv'
    BY <2>1 DEF VaultInv
  <2>2. QED BY <2>1, StepsOfEach, VaultStep
<1>3. QED BY <1>1, <1>2, PTL DEF Spec

LEMMA LpInvariance == Spec => []LpInv
<1>1. Init => LpInv
  BY StartsOfEach, LpInitial
<1>2. LpInv /\ [Next]_vars => LpInv'
  <2>1. ASSUME LpInv, UNCHANGED lpVars PROVE LpInv'
    BY <2>1 DEF LpInv, lpVars
  <2>2. QED BY <2>1, StepsOfEach, LpStep
<1>3. QED BY <1>1, <1>2, PTL DEF Spec

LEMMA StakingInvariance == Spec => []StakingInv
<1>1. Init => StakingInv
  BY StartsOfEach, StakingInitial
<1>2. StakingInv /\ [Next]_vars => StakingInv'
  <2>1. ASSUME StakingInv, UNCHANGED lockVars PROVE StakingInv'
    BY <2>1 DEF StakingInv, lockVars, Locked!PaidForTheLock
  <2>2. QED BY <2>1, StepsOfEach, StakingStep
<1>3. QED BY <1>1, <1>2, PTL DEF Spec

LEMMA EscrowInvariance == Spec => []EscrowInv
<1>1. Init => EscrowInv
  BY StartsOfEach, EscrowInitial
<1>2. EscrowInv /\ [Next]_vars => EscrowInv'
  <2>1. ASSUME EscrowInv, UNCHANGED escrowVars PROVE EscrowInv'
    BY <2>1 DEF EscrowInv, escrowVars
  <2>2. QED BY <2>1, StepsOfEach, EscrowStep
<1>3. QED BY <1>1, <1>2, PTL DEF Spec

LEMMA BoostInvariance == Spec => []BoostInv
<1>1. Init => BoostInv
  BY StartsOfEach, BoostInitial
<1>2. BoostInv /\ [Next]_vars => BoostInv'
  <2>1. ASSUME BoostInv, UNCHANGED boostVars PROVE BoostInv'
    BY <2>1 DEF BoostInv, boostVars
  <2>2. QED BY <2>1, StepsOfEach, BoostStep
<1>3. QED BY <1>1, <1>2, PTL DEF Spec

(* No step takes from the shares that stay: not in either pool, whose product *)
(* of reserves per squared token never falls, nor in the vault, whose assets  *)
(* per share never fall, at any amounts, fees, roundings and overflows.       *)
THEOREM SharesKeepTheirWorth == Spec => WorthKept
<1>1. PoolInv /\ [Next]_vars => [Pool!WorthNoLess(pool, pool')]_pool
  BY StepsOfEach, PoolStep DEF poolVars
<1>2. SimInv /\ [Next]_vars => [Sim!WorthNoLess(sim, sim')]_sim
  BY StepsOfEach, SimStep, SimMath DEF simVars
<1>3. VaultInv /\ [Next]_vars =>
        [vault.total_shares > 0 /\ vault'.total_shares > 0 =>
           vault'.total_assets * vault.total_shares >= vault.total_assets * vault'.total_shares]_vault
  BY StepsOfEach, VaultStep DEF SharesWorth
<1>4. Spec => Pool!LiquidityKeepsWorth
  BY <1>1, PoolInvariance, PTL DEF Spec, Pool!LiquidityKeepsWorth
<1>5. Spec => Sim!SimKeepsWorth
  BY <1>2, SimInvariance, PTL DEF Spec, Sim!SimKeepsWorth
<1>6. Spec => Yield!SharesKeepWorth
  BY <1>3, VaultInvariance, PTL DEF Spec, Yield!SharesKeepWorth
<1>7. QED BY <1>4, <1>5, <1>6 DEF WorthKept

(* A staker is paid no more than the rate earns over the time the stake was   *)
(* held, and not before its lock is over; a depositor's boost is the one its  *)
(* time in the pool earns.                                                    *)
THEOREM OnlyWhatWasEarned == Spec => []EarnedOnly
<1>1. StakingInv => Locked!PaidForTheLock
  BY DEF StakingInv
<1>2. StakingInv /\ BoostInv => EarnedOnly
  BY <1>1, BoostIsEarned DEF EarnedOnly
<1>3. QED BY <1>2, StakingInvariance, BoostInvariance, PTL

LEMMA StabInvariance == Spec => []StabInv
<1>1. Init => StabInv
  BY StartsOfEach, StabInitial
<1>2. StabInv /\ [Next]_vars => StabInv'
  <2>1. ASSUME StabInv, UNCHANGED stabVars PROVE StabInv'
    BY <2>1 DEF StabInv, SoundBooks, Owed, stabVars
  <2>2. QED BY <2>1, StepsOfEach, StabStep
<1>3. QED BY <1>1, <1>2, PTL DEF Spec

LEMMA PmInvariance == Spec => []PmInv
<1>1. Init => PmInv
  BY StartsOfEach, PmInitial
<1>2. PmInv /\ [Next]_vars => PmInv'
  <2>1. ASSUME PmInv, UNCHANGED pmVars PROVE PmInv'
    BY <2>1 DEF PmInv, SpacedAt, Apart, Noted, pmVars
  <2>2. QED BY <2>1, StepsOfEach, PmStep
<1>3. QED BY <1>1, <1>2, PTL DEF Spec

LEMMA StakesStayAsMade == Spec => Locked!StakesAreKept
<1>1. [Next]_vars => [\A u \in DOMAIN stakes :
         IF u \in DOMAIN stakes' THEN stakes'[u] = stakes[u]
         ELSE \E p \in payouts' : p.user = u /\ p.of = stakes[u] /\ p.at = now]_(Locked!stakingVars)
  <2>1. ASSUME [Next]_vars, NEW u \in DOMAIN stakes, Locked!stakingVars' # Locked!stakingVars
        PROVE  IF u \in DOMAIN stakes' THEN stakes'[u] = stakes[u]
               ELSE \E p \in payouts' : p.user = u /\ p.of = stakes[u] /\ p.at = now
    <3>1. Locked!StakingNext
      BY <2>1, StepsOfEach DEF lockVars, Locked!stakingVars
    <3>2. QED BY <3>1, StakeIsKept DEF StakeKept
  <2>2. QED BY <2>1
<1>2. QED BY <1>1, PTL DEF Spec, Locked!StakesAreKept

LEMMA EscrowsSettleOnce == Spec => Held!SettledOnce
<1>1. EscrowInv /\ [Next]_vars => [\A id \in DOMAIN escrows : EscrowKept(id)]_escrows
  <2>1. ASSUME EscrowInv, [Next]_vars, escrows' # escrows PROVE \A id \in DOMAIN escrows : EscrowKept(id)
    <3>1. Held!EscrowNext
      BY <2>1, StepsOfEach DEF escrowVars
    <3>2. QED BY <2>1, <3>1, EscrowStep
  <2>2. QED BY <2>1
<1>2. [\A id \in DOMAIN escrows : EscrowKept(id)]_escrows =>
        [\A id \in DOMAIN escrows :
           /\ id \in DOMAIN escrows'
           /\ LET was == escrows[id]
                  is  == escrows'[id]
              IN  /\ is = [was EXCEPT !.claimed = is.claimed, !.refunded = is.refunded]
                  /\ ~(is.claimed /\ is.refunded)
                  /\ was.claimed => is.claimed
                  /\ was.refunded => is.refunded
                  /\ is.refunded /\ ~was.refunded => escrow_now > was.expiration]_escrows
  BY DEF EscrowKept
<1>3. QED BY <1>1, <1>2, EscrowInvariance, PTL DEF Spec, Held!SettledOnce

LEMMA IndexOnlyGrows == Spec => Stability!IndexGrows
<1>1. StabInv /\ [Next]_vars =>
        [/\ books'.index >= books.index
         /\ books'.last_update >= books.last_update
         /\ \A i \in DOMAIN records.distributions : records'.distributions[i] = records.distributions[i]
         /\ Len(records'.distributions) > Len(records.distributions) =>
              records'.distributions[Len(records'.distributions)].index_after = books'.index]_<<books, records>>
  <2>1. SUFFICES ASSUME StabInv, [Next]_vars, <<books, records>>' # <<books, records>>
                 PROVE  /\ books'.index >= books.index
                        /\ books'.last_update >= books.last_update
                        /\ \A i \in DOMAIN records.distributions : records'.distributions[i] = records.distributions[i]
                        /\ Len(records'.distributions) > Len(records.distributions) =>
                             records'.distributions[Len(records'.distributions)].index_after = books'.index
    OBVIOUS
  <2>2. Stability!StabNext
    BY <2>1, StepsOfEach DEF stabVars
  <2>3. HistoryKept /\ NoFurtherBack(books, books')
    BY <2>1, <2>2, StabStep
  <2>4. books'.index >= books.index /\ books'.last_update >= books.last_update
    <3>1. StabInv'
      BY <2>1, <2>2, StabStep
    <3>2. /\ books.index \in Nat /\ books.last_update \in Nat
          /\ books'.index \in Nat /\ books'.last_update \in Nat
      BY <2>1, <3>1 DEF StabInv, SoundBooks, AllBooks
    <3>3. QED BY <2>3, <3>2 DEF NoFurtherBack
  <2>5. QED BY <2>1, <2>3, <2>4, HistoryTells
<1>2. QED BY <1>1, StabInvariance, PTL DEF Spec, Stability!IndexGrows

LEMMA PositionsCloseForGood == Spec => Monitor!ClosedForGood
<1>1. PmInv /\ [Next]_vars =>
        [\A id \in DOMAIN meta :
           id # ledger =>
             /\ meta'[id].owner = meta[id].owner /\ meta'[id].asset = meta[id].asset
             /\ meta[id].status = "Closed" => meta'[id].status = "Closed"]_meta
  BY StepsOfEach, PmStep DEF pmVars, PositionsKept
<1>2. QED BY <1>1, PmInvariance, PTL DEF Spec, Monitor!ClosedForGood

(* A stake stays as it was made until it is paid out, an escrow is settled    *)
(* once and on its terms, the stability pool's reward index and its history   *)
(* only grow, and a position that was closed in an earlier ledger is never    *)
(* opened again nor passed on.                                                *)
THEOREM WhatWasSettledStays == Spec => KeptForGood
BY StakesStayAsMade, EscrowsSettleOnce, IndexOnlyGrows, PositionsCloseForGood DEF KeptForGood

-----------------------------------------------------------------------------
(* Amounts that wrap: remainders and what is the same but for whole widths.  *)

\* a and b differ by a multiple of w.
Congruent(w, a, b) == \E k \in Int : a = b + w * k

LEMMA WrappedIs ==
  ASSUME NEW w \in Nat, w > 0, NEW z \in Int
  PROVE  /\ z % w \in Nat /\ z % w < w
         /\ \E k \in Int : z = (z % w) + w * k
<1>1. z % w \in 0 .. w - 1
  OBVIOUS
<1>2. z = w * (z \div w) + (z % w)
  OBVIOUS
<1>3. z \div w \in Int
  OBVIOUS
<1>4. PICK q \in Int : q = z \div w
  BY <1>3
<1>5. PICK r \in Int : r = z % w
  BY <1>1
<1>6. z = r + w * q
  <2>1. w * q \in Int
    OBVIOUS
  <2>2. z = w * q + r
    BY <1>2, <1>4, <1>5
  <2>3. QED BY <2>1, <2>2
<1>7. QED BY <1>1, <1>5, <1>6

\* Less than one width apart is not a whole number of them.
LEMMA NoWidthBetween ==
  ASSUME NEW w \in Nat, w > 0, NEW a \in Nat, NEW b \in Nat, a < w, b < w, NEW k \in Int, a = b + w * k
  PROVE  a = b
<1>1. w * k \in Int
  OBVIOUS
<1>2. CASE k >= 1
  <2>1. w * k >= w * 1
    BY <1>2
  <2>2. QED BY <1>1, <2>1
<1>3. CASE k <= -1
  <2>1. w * k <= w * (-1)
    BY <1>3
  <2>2. QED BY <1>1, <2>1
<1>4. CASE k = 0
  BY <1>4
<1>5. QED BY <1>2, <1>3, <1>4

LEMMA CongruentAddUp ==
  ASSUME NEW w \in Nat, NEW a \in Int, NEW b \in Int, NEW c \in Int, NEW d \in Int,
         Congruent(w, a, b), Congruent(w, c, d)
  PROVE  /\ Congruent(w, a + c, b + d)
         /\ Congruent(w, a - c, b - d)
<1>1. PICK k \in Int : a = b + w * k
  BY DEF Congruent
<1>2. PICK l \in Int : c = d + w * l
  BY DEF Congruent
<1>3. /\ w * k \in Int /\ w * l \in Int
      /\ w * (k + l) = w * k + w * l /\ w * (k - l) = w * k - w * l
  OBVIOUS
<1>4. a + c = (b + d) + w * (k + l)
  BY <1>1, <1>2, <1>3
<1>5. a - c = (b - d) + w * (k - l)
  BY <1>1, <1>2, <1>3
<1>6. k + l \in Int /\ k - l \in Int
  OBVIOUS
<1>7. Congruent(w, a + c, b + d)
  BY <1>4, <1>6 DEF Congruent
<1>8. Congruent(w, a - c, b - d)
  BY <1>5, <1>6 DEF Congruent
<1>9. QED BY <1>7, <1>8

LEMMA CongruentBasics ==
  ASSUME NEW w \in Nat, NEW a \in Int, NEW b \in Int
  PROVE  /\ Congruent(w, a, a)
         /\ Congruent(w, a, b) => Congruent(w, b, a)
<1>1. a = a + w * 0
  OBVIOUS
<1>2. Congruent(w, a, a)
  BY <1>1 DEF Congruent
<1>3. ASSUME Congruent(w, a, b) PROVE Congruent(w, b, a)
  <2>1. PICK k \in Int : a = b + w * k
    BY <1>3 DEF Congruent
  <2>2. w * k \in Int /\ w * (-k) = -(w * k) /\ -k \in Int
    OBVIOUS
  <2>3. b = a + w * (-k)
    BY <2>1, <2>2
  <2>4. QED BY <2>2, <2>3 DEF Congruent
<1>4. QED BY <1>2, <1>3

LEMMA CongruentChain ==
  ASSUME NEW w \in Nat, NEW a \in Int, NEW b \in Int, NEW c \in Int,
         Congruent(w, a, b), Congruent(w, b, c)
  PROVE  Congruent(w, a, c)
<1>1. PICK k \in Int : a = b + w * k
  BY DEF Congruent
<1>2. PICK l \in Int : b = c + w * l
  BY DEF Congruent
<1>3. w * k \in Int /\ w * l \in Int /\ w * (k + l) = w * k + w * l /\ k + l \in Int
  OBVIOUS
<1>4. a = c + w * (k + l)
  BY <1>1, <1>2, <1>3
<1>5. QED BY <1>3, <1>4 DEF Congruent

\* What wraps is congruent to what it wraps, and congruent amounts wrap alike.
LEMMA WrappedIsCongruent ==
  ASSUME NEW w \in Nat, w > 0, NEW z \in Int
  PROVE  z % w \in Nat /\ z % w < w /\ Congruent(w, z % w, z) /\ Congruent(w, z, z % w)
<1>1. z % w \in Nat /\ z % w < w
  BY WrappedIs
<1>2. PICK x \in Nat : x = z % w
  BY <1>1
<1>3. Congruent(w, z, x)
  BY <1>2, WrappedIs DEF Congruent
<1>4. Congruent(w, x, z)
  BY <1>3, CongruentBasics
<1>5. QED BY <1>1, <1>2, <1>3, <1>4

LEMMA CongruentWrapAlike ==
  ASSUME NEW w \in Nat, w > 0, NEW a \in Int, NEW b \in Int, Congruent(w, a, b)
  PROVE  a % w = b % w
<1>1. PICK x \in Nat : x = a % w /\ x < w /\ Congruent(w, x, a)
  BY WrappedIsCongruent
<1>2. PICK y \in Nat : y = b % w /\ y < w /\ Congruent(w, b, y)
  BY WrappedIsCongruent
<1>3. Congruent(w, x, b)
  BY <1>1, CongruentChain
<1>4. Congruent(w, x, y)
  BY <1>2, <1>3, CongruentChain
<1>5. PICK k \in Int : x = y + w * k
  BY <1>4 DEF Congruent
<1>6. x = y
  BY <1>1, <1>2, <1>5, NoWidthBetween
<1>7. QED BY <1>1, <1>2, <1>6

\* What is congruent to a number within the width wraps to it.
LEMMA WithinTheWidth ==
  ASSUME NEW w \in Nat, w > 0, NEW a \in Nat, a < w
  PROVE  a % w = a
<1>1. PICK x \in Nat : x = a % w /\ x < w /\ Congruent(w, x, a)
  BY WrappedIsCongruent
<1>2. PICK k \in Int : x = a + w * k
  BY <1>1 DEF Congruent
<1>3. QED BY <1>1, <1>2, NoWidthBetween

-----------------------------------------------------------------------------
(* The stablecoin: what is owed and what circulates are one, but for whole   *)
(* widths of the amounts.                                                    *)

LEMMA CoinMaps ==
  ASSUME NEW m, NEW k, NEW v
  PROVE  /\ Coins!Put(m, k, v) = Put(m, k, v)
         /\ Coins!Drop(m, k) = Drop(m, k)
         /\ Coins!GetOr(m, k, v) = GetOr(m, k, v)
         /\ Coins!SumFunction(m) = SumFunction(m)
         /\ Coins!EmptyMap = EmptyMap
BY DEF Coins!Put, Put, Coins!Drop, Drop, Coins!GetOr, GetOr, Coins!EmptyMap, EmptyMap,
       Coins!SumFunction, SumFunction, Coins!SumFunctionOnSet, SumFunctionOnSet,
       Coins!FoldFunctionOnSet, FoldFunctionOnSet, Coins!MapThenFoldSet, MapThenFoldSet

\* m holds an amount for each of finitely many keys.
Tally(m) == m \in [DOMAIN m -> Nat] /\ IsFiniteSet(DOMAIN m)

LEMMA TallyAt ==
  ASSUME NEW m, Tally(m), NEW k
  PROVE  GetOr(m, k, 0) \in Nat /\ (k \in DOMAIN m => m[k] \in Nat)
BY DEF Tally, GetOr

LEMMA TallyPut ==
  ASSUME NEW m, Tally(m), NEW k, NEW x \in Nat
  PROVE  /\ Tally(Put(m, k, x))
         /\ SumFunction(Put(m, k, x)) = SumFunction(m) - GetOr(m, k, 0) + x
<1>1. IsFiniteSet(DOMAIN m) /\ \A y \in DOMAIN m : m[y] \in Nat
  BY DEF Tally
<1>2. PICK n : n = Put(m, k, x)
  OBVIOUS
<1>3. DOMAIN n = DOMAIN m \cup {k}
  BY <1>2 DEF Put
<1>4. IsFiniteSet(DOMAIN n)
  BY <1>1, <1>3, FS_AddElement
<1>5. n \in [DOMAIN n -> Nat]
  BY <1>1, <1>2, <1>3 DEF Put
<1>6. Tally(n)
  BY <1>4, <1>5 DEF Tally
<1>7. \A y \in DOMAIN m : m[y] \in Int
  BY <1>1
<1>8. QED BY <1>1, <1>2, <1>6, <1>7, SumPut

LEMMA TallyDrop ==
  ASSUME NEW m, Tally(m), NEW k
  PROVE  /\ Tally(Drop(m, k))
         /\ SumFunction(Drop(m, k)) = SumFunction(m) - GetOr(m, k, 0)
<1>1. IsFiniteSet(DOMAIN m) /\ \A y \in DOMAIN m : m[y] \in Nat
  BY DEF Tally
<1>2. PICK n : n = Drop(m, k)
  OBVIOUS
<1>3. DOMAIN n = DOMAIN m \ {k}
  BY <1>2 DEF Drop
<1>4. IsFiniteSet(DOMAIN n)
  BY <1>1, <1>3, FS_Subset
<1>5. n \in [DOMAIN n -> Nat]
  BY <1>1, <1>2, <1>3 DEF Drop
<1>6. Tally(n)
  BY <1>4, <1>5 DEF Tally
<1>7. \A y \in DOMAIN m : m[y] \in Int
  BY <1>1
<1>8. CASE k \in DOMAIN m
  <2>1. SumFunction(Drop(m, k)) = SumFunction(m) - m[k]
    BY <1>1, <1>7, <1>8, SumDrop
  <2>2. QED BY <1>2, <1>6, <1>8, <2>1 DEF GetOr
<1>9. CASE k \notin DOMAIN m
  <2>1. n = m
    <3>1. DOMAIN n = DOMAIN m /\ \A y \in DOMAIN m : n[y] = m[y]
      BY <1>2, <1>9 DEF Drop
    <3>2. n = [y \in DOMAIN n |-> n[y]] /\ m = [y \in DOMAIN m |-> m[y]]
      BY <1>5 DEF Tally
    <3>3. QED BY <3>1, <3>2
  <2>2. GetOr(m, k, 0) = 0
    BY <1>9 DEF GetOr
  <2>3. SumFunction(m) \in Nat
    BY <1>1, SumOfMapIsNat
  <2>4. QED BY <1>2, <1>6, <2>1, <2>2, <2>3
<1>10. QED BY <1>8, <1>9

LEMMA TallySum ==
  ASSUME NEW m, Tally(m)
  PROVE  SumFunction(m) \in Nat /\ \A k : GetOr(m, k, 0) <= SumFunction(m)
<1>1. IsFiniteSet(DOMAIN m) /\ \A y \in DOMAIN m : m[y] \in Nat
  BY DEF Tally
<1>2. SumFunction(m) \in Nat
  BY <1>1, SumOfMapIsNat
<1>3. ASSUME NEW k PROVE GetOr(m, k, 0) <= SumFunction(m)
  <2>1. PICK n : n = Drop(m, k)
    OBVIOUS
  <2>2. Tally(n) /\ SumFunction(n) = SumFunction(m) - GetOr(m, k, 0)
    BY <2>1, TallyDrop
  <2>3. SumFunction(n) \in Nat
    <3>1. IsFiniteSet(DOMAIN n) /\ \A y \in DOMAIN n : n[y] \in Nat
      BY <2>2 DEF Tally
    <3>2. QED BY <3>1, SumOfMapIsNat
  <2>4. GetOr(m, k, 0) \in Nat
    BY TallyAt
  <2>5. QED BY <1>2, <2>2, <2>3, <2>4
<1>4. QED BY <1>2, <1>3

\* A vault as it may be stored.
VaultRecord(v) ==
  /\ v = [debt |-> v.debt, deposits |-> v.deposits]
  /\ v.debt \in Nat /\ v.debt < DEBT_U64
  /\ Tally(v.deposits)

VaultsTyped(m) ==
  /\ IsFiniteSet(DOMAIN m) /\ m = [u \in DOMAIN m |-> m[u]]
  /\ \A u \in DOMAIN m : VaultRecord(m[u]) /\ (m[u].debt > 0 \/ m[u].deposits # EmptyMap)

DebtsOf(m) == [u \in DOMAIN m |-> m[u].debt]
HeldOf(m) == [u \in DOMAIN m |-> SumFunction(m[u].deposits)]

CoinInv ==
  /\ coin \in [supply : Nat, collateral : Nat, pool : Int, minting_fee : Nat, redemption_fee : Nat,
               paused : BOOLEAN, minted_fees : Nat]
  /\ VaultsTyped(vaults)
  /\ Congruent(DEBT_U64, SumFunction(DebtsOf(vaults)), coin.supply + coin.minted_fees)
  /\ SumFunction(HeldOf(vaults)) <= coin.collateral

LEMMA CoinInputsTyped ==
  /\ DEBT_U64 \in Nat /\ DEBT_U64 > 0 /\ COIN_PENALTY \in Nat
  /\ CoinAmounts \subseteq Nat /\ CollateralAmounts \subseteq Nat /\ CoinFees \subseteq Nat
BY CoinsInputs DEF Coins!StablecoinAssumption

LEMMA VaultTallies ==
  ASSUME NEW m, VaultsTyped(m)
  PROVE  /\ Tally(DebtsOf(m)) /\ Tally(HeldOf(m))
         /\ DOMAIN DebtsOf(m) = DOMAIN m /\ DOMAIN HeldOf(m) = DOMAIN m
<1>1. \A u \in DOMAIN m : m[u].debt \in Nat /\ Tally(m[u].deposits)
  BY DEF VaultsTyped, VaultRecord
<1>2. \A u \in DOMAIN m : SumFunction(m[u].deposits) \in Nat
  BY <1>1, TallySum
<1>3. IsFiniteSet(DOMAIN m)
  BY DEF VaultsTyped
<1>4. Tally(DebtsOf(m)) /\ DOMAIN DebtsOf(m) = DOMAIN m
  BY <1>1, <1>3 DEF Tally, DebtsOf
<1>5. Tally(HeldOf(m)) /\ DOMAIN HeldOf(m) = DOMAIN m
  BY <1>2, <1>3 DEF Tally, HeldOf
<1>6. QED BY <1>4, <1>5

LEMMA GottenVault ==
  ASSUME VaultsTyped(vaults), NEW u, NEW old, old = Coins!get_vault_position(u)
  PROVE  /\ VaultRecord(old)
         /\ GetOr(DebtsOf(vaults), u, 0) = old.debt
         /\ GetOr(HeldOf(vaults), u, 0) = SumFunction(old.deposits)
<1>1. old = GetOr(vaults, u, [debt |-> 0, deposits |-> EmptyMap])
  BY CoinMaps DEF Coins!get_vault_position
<1>2. CASE u \in DOMAIN vaults
  <2>1. old = vaults[u]
    BY <1>1, <1>2 DEF GetOr
  <2>2. QED BY <1>2, <2>1 DEF GetOr, DebtsOf, HeldOf, VaultsTyped
<1>3. CASE u \notin DOMAIN vaults
  <2>1. old = [debt |-> 0, deposits |-> EmptyMap]
    BY <1>1, <1>3 DEF GetOr
  <2>2. DOMAIN EmptyMap = {} /\ EmptyMap \in [{} -> Nat]
    BY DEF EmptyMap
  <2>3. Tally(EmptyMap)
    BY <2>2, FS_EmptySet DEF Tally
  <2>4. SumFunction(EmptyMap) = 0
    BY <2>2, SumOfNothing
  <2>5. old.debt = 0 /\ old.deposits = EmptyMap
    BY <2>1
  <2>6. VaultRecord(old)
    BY <2>1, <2>3, <2>5, CoinInputsTyped DEF VaultRecord
  <2>7. GetOr(DebtsOf(vaults), u, 0) = 0 /\ GetOr(HeldOf(vaults), u, 0) = 0
    BY <1>3 DEF GetOr, DebtsOf, HeldOf
  <2>8. QED BY <2>4, <2>5, <2>6, <2>7
<1>4. QED BY <1>2, <1>3

LEMMA VaultIsSet ==
  ASSUME VaultsTyped(vaults), NEW u, NEW old, old = Coins!get_vault_position(u),
         NEW v, VaultRecord(v), Coins!set_vault_position(u, v)
  PROVE  /\ VaultsTyped(vaults')
         /\ SumFunction(DebtsOf(vaults')) = SumFunction(DebtsOf(vaults)) - old.debt + v.debt
         /\ SumFunction(HeldOf(vaults')) =
              SumFunction(HeldOf(vaults)) - SumFunction(old.deposits) + SumFunction(v.deposits)
<1>1. PICK m : m = vaults
  OBVIOUS
<1>2. PICK n : n = vaults'
  OBVIOUS
<1>3. n = IF v.debt = 0 /\ v.deposits = EmptyMap THEN Drop(m, u) ELSE Put(m, u, v)
  BY <1>1, <1>2, CoinMaps DEF Coins!set_vault_position
<1>4. VaultsTyped(m) /\ Tally(DebtsOf(m)) /\ Tally(HeldOf(m))
  BY <1>1, VaultTallies
<1>5. GetOr(DebtsOf(m), u, 0) = old.debt /\ GetOr(HeldOf(m), u, 0) = SumFunction(old.deposits)
  BY <1>1, GottenVault
<1>6. v.debt \in Nat /\ Tally(v.deposits) /\ SumFunction(v.deposits) \in Nat
  BY TallySum DEF VaultRecord
<1>7. /\ SumFunction(DebtsOf(m)) \in Nat /\ SumFunction(HeldOf(m)) \in Nat
      /\ old.debt \in Nat /\ SumFunction(old.deposits) \in Nat
  BY <1>4, <1>5, TallySum, TallyAt
<1>8. CASE v.debt = 0 /\ v.deposits = EmptyMap
  <2>1. n = Drop(m, u)
    BY <1>3, <1>8
  <2>2. VaultsTyped(n)
    <3>1. DOMAIN n = DOMAIN m \ {u} /\ \A x \in DOMAIN n : n[x] = m[x]
      BY <2>1 DEF Drop
    <3>2. IsFiniteSet(DOMAIN n)
      BY <1>4, <3>1, FS_Subset DEF VaultsTyped
    <3>3. n = [x \in DOMAIN n |-> n[x]]
      BY <2>1 DEF Drop
    <3>4. QED BY <1>4, <3>1, <3>2, <3>3 DEF VaultsTyped
  <2>3. DebtsOf(n) = Drop(DebtsOf(m), u) /\ HeldOf(n) = Drop(HeldOf(m), u)
    BY <2>1 DEF DebtsOf, HeldOf, Drop
  <2>4. SumFunction(v.deposits) = 0
    <3>1. DOMAIN EmptyMap = {}
      BY DEF EmptyMap
    <3>2. QED BY <1>8, <3>1, SumOfNothing
  <2>5. /\ SumFunction(DebtsOf(n)) = SumFunction(DebtsOf(m)) - old.debt
        /\ SumFunction(HeldOf(n)) = SumFunction(HeldOf(m)) - SumFunction(old.deposits)
    BY <1>4, <1>5, <2>3, TallyDrop
  <2>6. QED BY <1>1, <1>2, <1>7, <1>8, <2>2, <2>4, <2>5
<1>9. CASE ~(v.debt = 0 /\ v.deposits = EmptyMap)
  <2>1. n = Put(m, u, v)
    BY <1>3, <1>9
  <2>2. VaultsTyped(n)
    <3>1. DOMAIN n = DOMAIN m \cup {u} /\ n[u] = v /\ \A x \in DOMAIN n \ {u} : x \in DOMAIN m /\ n[x] = m[x]
      BY <2>1 DEF Put
    <3>2. IsFiniteSet(DOMAIN n)
      BY <1>4, <3>1, FS_AddElement DEF VaultsTyped
    <3>3. n = [x \in DOMAIN n |-> n[x]]
      BY <2>1 DEF Put
    <3>4. v.debt > 0 \/ v.deposits # EmptyMap
      BY <1>6, <1>9
    <3>5. \A x \in DOMAIN n : VaultRecord(n[x]) /\ (n[x].debt > 0 \/ n[x].deposits # EmptyMap)
      BY <1>4, <3>1, <3>4 DEF VaultsTyped
    <3>6. QED BY <3>2, <3>3, <3>5 DEF VaultsTyped
  <2>3. DebtsOf(n) = Put(DebtsOf(m), u, v.debt) /\ HeldOf(n) = Put(HeldOf(m), u, SumFunction(v.deposits))
    BY <2>1 DEF DebtsOf, HeldOf, Put
  <2>4. SumFunction(DebtsOf(n)) = SumFunction(DebtsOf(m)) - old.debt + v.debt
    BY <1>4, <1>5, <1>6, <2>3, TallyPut
  <2>5. SumFunction(HeldOf(n)) = SumFunction(HeldOf(m)) - SumFunction(old.deposits) + SumFunction(v.deposits)
    BY <1>4, <1>5, <1>6, <2>3, TallyPut
  <2>6. QED BY <1>1, <1>2, <2>2, <2>4, <2>5
<1>10. QED BY <1>8, <1>9

\* A debt that changes by as much as what was ever minted keeps them one.
LEMMA CoinsChange ==
  ASSUME CoinInv, NEW u, NEW old, old = Coins!get_vault_position(u),
         NEW v, VaultRecord(v), Coins!set_vault_position(u, v),
         NEW d \in Int, Congruent(DEBT_U64, v.debt, old.debt + d),
         Congruent(DEBT_U64, coin'.supply + coin'.minted_fees, coin.supply + coin.minted_fees + d),
         coin' \in [supply : Nat, collateral : Nat, pool : Int, minting_fee : Nat, redemption_fee : Nat,
                    paused : BOOLEAN, minted_fees : Nat],
         SumFunction(v.deposits) - SumFunction(old.deposits) <= coin'.collateral - coin.collateral
  PROVE  CoinInv'
<1>1. /\ VaultsTyped(vaults) /\ VaultsTyped(vaults')
      /\ SumFunction(DebtsOf(vaults')) = SumFunction(DebtsOf(vaults)) - old.debt + v.debt
      /\ SumFunction(HeldOf(vaults')) =
           SumFunction(HeldOf(vaults)) - SumFunction(old.deposits) + SumFunction(v.deposits)
  BY VaultIsSet DEF CoinInv
<1>2. PICK w \in Nat : w = DEBT_U64
  BY CoinInputsTyped
<1>3. PICK before \in Nat : before = SumFunction(DebtsOf(vaults))
  BY <1>1, VaultTallies, TallySum
<1>4. PICK held_before \in Nat : held_before = SumFunction(HeldOf(vaults))
  BY <1>1, VaultTallies, TallySum
<1>5. VaultRecord(old)
  BY <1>1, GottenVault
<1>6. PICK x \in Nat : x = old.debt
  BY <1>5 DEF VaultRecord
<1>7. PICK y \in Nat : y = v.debt
  BY DEF VaultRecord
<1>8. PICK s \in Nat : s = coin.supply + coin.minted_fees
  BY DEF CoinInv
<1>9. PICK t \in Nat : t = coin'.supply + coin'.minted_fees
  OBVIOUS
<1>p. PICK p \in Int : p = x + d
  OBVIOUS
<1>q. PICK q \in Int : q = s + d
  OBVIOUS
<1>z. PICK z \in Int : z = before - x + y
  OBVIOUS
<1>10. Congruent(w, before, s) /\ Congruent(w, y, p) /\ Congruent(w, t, q)
  BY <1>2, <1>3, <1>6, <1>7, <1>8, <1>9, <1>p, <1>q DEF CoinInv
<1>11. Congruent(w, z, t)
  <2>1. PICK k \in Int : before = s + w * k
    BY <1>10 DEF Congruent
  <2>2. PICK l \in Int : y = p + w * l
    BY <1>10 DEF Congruent
  <2>3. PICK m \in Int : t = q + w * m
    BY <1>10 DEF Congruent
  <2>4. PICK n \in Int : n = k + l - m
    OBVIOUS
  <2>5. w * k \in Int /\ w * l \in Int /\ w * m \in Int /\ w * n = w * k + w * l - w * m
    BY <2>4
  <2>6. z = t + w * n
    BY <1>p, <1>q, <1>z, <2>1, <2>2, <2>3, <2>5
  <2>7. QED BY <2>6 DEF Congruent
<1>12. Congruent(DEBT_U64, SumFunction(DebtsOf(vaults')), coin'.supply + coin'.minted_fees)
  BY <1>1, <1>2, <1>3, <1>6, <1>7, <1>9, <1>11, <1>z
<1>13. SumFunction(HeldOf(vaults')) <= coin'.collateral
  <2>1. SumFunction(v.deposits) \in Nat /\ SumFunction(old.deposits) \in Nat
    BY <1>5, TallySum DEF VaultRecord
  <2>2. held_before <= coin.collateral /\ coin.collateral \in Nat /\ coin'.collateral \in Nat
    BY <1>4 DEF CoinInv
  <2>3. QED BY <1>1, <1>4, <2>1, <2>2
<1>14. QED BY <1>1, <1>12, <1>13 DEF CoinInv

\* What a redemption or a liquidation leaves of a vault.
LEMMA ReducedVault ==
  ASSUME NEW old, VaultRecord(old), NEW c, NEW amount \in Nat, NEW taken \in Nat,
         taken <= GetOr(old.deposits, c, 0)
  PROVE  /\ VaultRecord(Coins!Reduced(old, c, amount, taken))
         /\ Congruent(DEBT_U64, Coins!Reduced(old, c, amount, taken).debt, old.debt + (0 - amount))
         /\ SumFunction(Coins!Reduced(old, c, amount, taken).deposits) <= SumFunction(old.deposits) - taken
<1>1. /\ DEBT_U64 \in Nat /\ DEBT_U64 > 0 /\ old.debt \in Nat /\ Tally(old.deposits)
      /\ old.debt - amount \in Int /\ old.debt - amount = old.debt + (0 - amount)
  BY CoinInputsTyped DEF VaultRecord
<1>2. PICK debt \in Nat : /\ debt = Coins!Wrapped(old.debt - amount) /\ debt < DEBT_U64
                          /\ Congruent(DEBT_U64, debt, old.debt - amount)
  BY <1>1, WrappedIsCongruent DEF Coins!Wrapped
<1>3. PICK kept \in Nat : kept = GetOr(old.deposits, c, 0) - taken
  BY <1>1, TallyAt
<1>4. PICK left : left = IF debt = 0 THEN Drop(old.deposits, c) ELSE Put(old.deposits, c, kept)
  OBVIOUS
<1>5. Coins!Reduced(old, c, amount, taken) = [debt |-> debt, deposits |-> left]
  BY <1>2, <1>3, <1>4, CoinMaps DEF Coins!Reduced
<1>6. GetOr(old.deposits, c, 0) \in Nat /\ SumFunction(old.deposits) \in Nat
  BY <1>1, TallyAt, TallySum
<1>7. Tally(left) /\ SumFunction(left) <= SumFunction(old.deposits) - taken
  <2>1. CASE debt = 0
    <3>1. Tally(left) /\ SumFunction(left) = SumFunction(old.deposits) - GetOr(old.deposits, c, 0)
      BY <1>1, <1>4, <2>1, TallyDrop
    <3>2. QED BY <1>6, <3>1
  <2>2. CASE debt # 0
    <3>1. Tally(left) /\ SumFunction(left) = SumFunction(old.deposits) - GetOr(old.deposits, c, 0) + kept
      BY <1>1, <1>4, <2>2, TallyPut
    <3>2. QED BY <1>3, <1>6, <3>1
  <2>3. QED BY <2>1, <2>2
<1>8. PICK v : v = [debt |-> debt, deposits |-> left]
  OBVIOUS
<1>9. v.debt = debt /\ v.deposits = left
  BY <1>8
<1>10. VaultRecord(v)
  BY <1>2, <1>7, <1>8, <1>9 DEF VaultRecord
<1>11. QED BY <1>1, <1>2, <1>5, <1>7, <1>8, <1>9, <1>10

Coin == [supply : Nat, collateral : Nat, pool : Int, minting_fee : Nat, redemption_fee : Nat,
         paused : BOOLEAN, minted_fees : Nat]

LEMMA MintKeepsCoins ==
  ASSUME CoinInv, NEW u, NEW c, NEW ca \in Nat, NEW amount \in Nat, Coins!mint(u, c, ca, amount)
  PROVE  CoinInv'
<1>1. PICK old : old = Coins!get_vault_position(u)
  OBVIOUS
<1>2. VaultRecord(old)
  BY <1>1, GottenVault DEF CoinInv
<1>3. /\ DEBT_U64 \in Nat /\ DEBT_U64 > 0 /\ old.debt \in Nat /\ Tally(old.deposits)
  BY <1>2, CoinInputsTyped DEF VaultRecord
<1>4. PICK debt \in Nat : /\ debt = Coins!Wrapped(old.debt + amount) /\ debt < DEBT_U64
                          /\ Congruent(DEBT_U64, debt, old.debt + amount)
  <2>1. PICK z \in Int : z = old.debt + amount
    BY <1>3
  <2>2. /\ Coins!Wrapped(z) \in Nat /\ Coins!Wrapped(z) < DEBT_U64
        /\ Congruent(DEBT_U64, Coins!Wrapped(z), z)
    BY <1>3, WrappedIsCongruent DEF Coins!Wrapped
  <2>3. QED BY <2>1, <2>2
<1>5. PICK left : left = Put(old.deposits, c, GetOr(old.deposits, c, 0) + ca)
  OBVIOUS
<1>6. Tally(left) /\ SumFunction(left) = SumFunction(old.deposits) + ca
  <2>1. GetOr(old.deposits, c, 0) \in Nat /\ SumFunction(old.deposits) \in Nat
    BY <1>3, TallyAt, TallySum
  <2>2. PICK g \in Nat : g = GetOr(old.deposits, c, 0)
    BY <2>1
  <2>3. Tally(left) /\ SumFunction(left) = SumFunction(old.deposits) - g + (g + ca)
    BY <1>3, <1>5, <2>2, TallyPut
  <2>4. QED BY <2>1, <2>3
<1>7. PICK v : v = [debt |-> debt, deposits |-> left]
  OBVIOUS
<1>8. v.debt = debt /\ v.deposits = left
  BY <1>7
<1>9. VaultRecord(v)
  BY <1>4, <1>6, <1>7, <1>8 DEF VaultRecord
<1>10. coin \in Coin /\ coin.supply \in Nat /\ coin.minted_fees \in Nat /\ coin.minting_fee \in Nat /\ coin.collateral \in Nat
  BY DEF CoinInv, Coin
<1>11. PICK fee \in Nat : fee = (amount * coin.minting_fee) \div 10000
  <2>1. PICK z \in Nat : z = amount * coin.minting_fee
    BY <1>10
  <2>2. z \div 10000 \in Nat
    OBVIOUS
  <2>3. QED BY <2>1, <2>2
<1>12. /\ Coins!set_vault_position(u, v)
       /\ coin' = [coin EXCEPT !.supply = Coins!Wrapped(@ + amount - fee), !.collateral = @ + ca,
                               !.minted_fees = Coins!Wrapped(@ + fee)]
  BY <1>1, <1>4, <1>5, <1>7, <1>11, CoinMaps DEF Coins!mint
<1>13. PICK s \in Nat : /\ s = Coins!Wrapped(coin.supply + amount - fee)
                        /\ Congruent(DEBT_U64, s, coin.supply + amount - fee)
  <2>1. coin.supply + amount - fee \in Int
    BY <1>10
  <2>2. QED BY <1>3, <2>1, WrappedIsCongruent DEF Coins!Wrapped
<1>14. PICK f \in Nat : /\ f = Coins!Wrapped(coin.minted_fees + fee)
                        /\ Congruent(DEBT_U64, f, coin.minted_fees + fee)
  <2>1. coin.minted_fees + fee \in Int
    BY <1>10
  <2>2. QED BY <1>3, <2>1, WrappedIsCongruent DEF Coins!Wrapped
<1>15. /\ coin' \in Coin /\ coin'.supply = s /\ coin'.minted_fees = f
       /\ coin'.collateral = coin.collateral + ca
  <2>1. PICK k \in Nat : k = coin.collateral + ca
    BY <1>10
  <2>2. coin' = [coin EXCEPT !.supply = s, !.collateral = k, !.minted_fees = f]
    BY <1>12, <1>13, <1>14, <2>1
  <2>3. QED BY <1>10, <2>1, <2>2 DEF Coin
<1>16. Congruent(DEBT_U64, coin'.supply + coin'.minted_fees, coin.supply + coin.minted_fees + amount)
  <2>1. Congruent(DEBT_U64, s + f, (coin.supply + amount - fee) + (coin.minted_fees + fee))
    <3>1. PICK p \in Int : p = coin.supply + amount - fee
      BY <1>10
    <3>2. PICK q \in Int : q = coin.minted_fees + fee
      BY <1>10
    <3>3. Congruent(DEBT_U64, s + f, p + q)
      <4>1. Congruent(DEBT_U64, s, p) /\ Congruent(DEBT_U64, f, q)
        BY <1>13, <1>14, <3>1, <3>2
      <4>2. s \in Int /\ f \in Int /\ DEBT_U64 \in Nat
        BY <1>3
      <4>3. QED BY <4>1, <4>2, CongruentAddUp
    <3>4. QED BY <3>1, <3>2, <3>3
  <2>2. (coin.supply + amount - fee) + (coin.minted_fees + fee) = coin.supply + coin.minted_fees + amount
    BY <1>10
  <2>3. QED BY <1>15, <2>1, <2>2
<1>17. SumFunction(v.deposits) - SumFunction(old.deposits) <= coin'.collateral - coin.collateral
  <2>1. SumFunction(old.deposits) \in Nat
    BY <1>3, TallySum
  <2>2. QED BY <1>6, <1>8, <1>10, <1>15, <2>1
<1>18. coin' \in [supply : Nat, collateral : Nat, pool : Int, minting_fee : Nat, redemption_fee : Nat,
                  paused : BOOLEAN, minted_fees : Nat]
  BY <1>15 DEF Coin
<1>19. Congruent(DEBT_U64, v.debt, old.debt + amount)
  BY <1>4, <1>8
<1>20. amount \in Int
  OBVIOUS
<1>21. QED BY <1>1, <1>9, <1>12, <1>16, <1>17, <1>18, <1>19, <1>20, CoinsChange

LEMMA TakingKeepsCoins ==
  ASSUME CoinInv, NEW u, NEW c, NEW taken \in Nat, NEW amount \in Nat,
         NEW old, old = Coins!get_vault_position(u),
         Coins!GetOr(old.deposits, c, 0) >= taken,
         Coins!set_vault_position(u, Coins!Reduced(old, c, amount, taken)),
         coin' = [coin EXCEPT !.supply = Coins!Wrapped(@ - amount), !.collateral = @ - taken]
  PROVE  CoinInv'
<1>1. VaultRecord(old) /\ GetOr(HeldOf(vaults), u, 0) = SumFunction(old.deposits)
  BY GottenVault DEF CoinInv
<1>2. /\ DEBT_U64 \in Nat /\ DEBT_U64 > 0 /\ old.debt \in Nat /\ Tally(old.deposits)
  BY <1>1, CoinInputsTyped DEF VaultRecord
<1>3. GetOr(old.deposits, c, 0) \in Nat /\ taken <= GetOr(old.deposits, c, 0)
  BY <1>2, TallyAt, CoinMaps
<1>4. PICK v : v = Coins!Reduced(old, c, amount, taken)
  OBVIOUS
<1>5. /\ VaultRecord(v) /\ Congruent(DEBT_U64, v.debt, old.debt + (0 - amount))
      /\ SumFunction(v.deposits) <= SumFunction(old.deposits) - taken
  BY <1>1, <1>3, <1>4, ReducedVault
<1>6. coin \in Coin /\ coin.supply \in Nat /\ coin.minted_fees \in Nat /\ coin.collateral \in Nat
  BY DEF CoinInv, Coin
<1>7. PICK s \in Nat : /\ s = Coins!Wrapped(coin.supply - amount)
                       /\ Congruent(DEBT_U64, s, coin.supply - amount)
  <2>1. coin.supply - amount \in Int
    BY <1>6
  <2>2. QED BY <1>2, <2>1, WrappedIsCongruent DEF Coins!Wrapped
<1>8. coin.collateral - taken \in Nat
  <2>1. Tally(HeldOf(vaults)) /\ SumFunction(HeldOf(vaults)) <= coin.collateral
    BY VaultTallies DEF CoinInv
  <2>2. SumFunction(HeldOf(vaults)) \in Nat /\ SumFunction(old.deposits) <= SumFunction(HeldOf(vaults))
    BY <1>1, <2>1, TallySum
  <2>3. SumFunction(old.deposits) \in Nat /\ GetOr(old.deposits, c, 0) <= SumFunction(old.deposits)
    BY <1>2, TallySum
  <2>4. QED BY <1>3, <1>6, <2>1, <2>2, <2>3
<1>9. /\ coin' \in Coin /\ coin'.supply = s /\ coin'.minted_fees = coin.minted_fees
      /\ coin'.collateral = coin.collateral - taken
  BY <1>6, <1>7, <1>8 DEF Coin
<1>10. Congruent(DEBT_U64, coin'.supply + coin'.minted_fees, coin.supply + coin.minted_fees + (0 - amount))
  <2>1. PICK p \in Int : p = coin.supply - amount
    BY <1>6
  <2>2. PICK f \in Nat : f = coin.minted_fees
    BY <1>6
  <2>3. Congruent(DEBT_U64, s + f, p + f)
    BY <1>2, <1>7, <2>1, CongruentAddUp, CongruentBasics
  <2>4. p + f = coin.supply + coin.minted_fees + (0 - amount)
    BY <1>6, <2>1, <2>2
  <2>5. QED BY <1>9, <2>2, <2>3, <2>4
<1>11. SumFunction(v.deposits) - SumFunction(old.deposits) <= coin'.collateral - coin.collateral
  <2>1. SumFunction(old.deposits) \in Nat /\ SumFunction(v.deposits) \in Nat
    BY <1>2, <1>5, TallySum DEF VaultRecord
  <2>2. QED BY <1>5, <1>6, <1>9, <2>1
<1>12. coin' \in [supply : Nat, collateral : Nat, pool : Int, minting_fee : Nat, redemption_fee : Nat,
                  paused : BOOLEAN, minted_fees : Nat]
  BY <1>9 DEF Coin
<1>13. 0 - amount \in Int
  OBVIOUS
<1>14. QED BY <1>4, <1>5, <1>10, <1>11, <1>12, <1>13, CoinsChange

LEMMA RedeemKeepsCoins ==
  ASSUME CoinInv, NEW u, NEW c, NEW taken \in Nat, NEW amount \in Nat, Coins!redeem(u, c, amount, taken)
  PROVE  CoinInv'
BY TakingKeepsCoins DEF Coins!redeem

LEMMA LiquidateKeepsCoins ==
  ASSUME CoinInv, NEW u, NEW c, NEW amount \in Nat, Coins!liquidate(u, c, amount)
  PROVE  CoinInv'
<1>1. PICK seen \in Nat : seen = (amount * (10000 + COIN_PENALTY)) \div 10000
  <2>1. amount * (10000 + COIN_PENALTY) \in Nat
    BY CoinInputsTyped
  <2>2. PICK z \in Nat : z = amount * (10000 + COIN_PENALTY)
    BY <2>1
  <2>3. z \div 10000 \in Nat
    OBVIOUS
  <2>4. QED BY <2>2, <2>3
<1>2. PICK old : old = Coins!get_vault_position(u)
  OBVIOUS
<1>3. /\ Coins!GetOr(old.deposits, c, 0) >= seen
      /\ Coins!set_vault_position(u, Coins!Reduced(old, c, amount, seen))
      /\ coin' = [coin EXCEPT !.supply = Coins!Wrapped(@ - amount), !.collateral = @ - seen]
  BY <1>1, <1>2 DEF Coins!liquidate
<1>4. QED BY <1>2, <1>3, TakingKeepsCoins

\* What does not touch the vaults, the supply or the collateral.
LEMMA OthersKeepCoins ==
  ASSUME CoinInv, vaults' = vaults, coin' \in Coin,
         coin'.supply = coin.supply, coin'.minted_fees = coin.minted_fees, coin'.collateral = coin.collateral
  PROVE  CoinInv'
BY DEF CoinInv, Coin

LEMMA CoinStep ==
  ASSUME CoinInv, Coins!CoinNext
  PROVE  CoinInv'
<1>0. coin \in Coin
  BY DEF CoinInv, Coin
<1>1. ASSUME NEW u \in Coins!Owners, NEW c \in Collaterals, NEW amount \in CoinAmounts,
             NEW ca \in CollateralAmounts, Coins!mint(u, c, ca, amount) \/ Coins!redeem(u, c, amount, ca)
      PROVE  CoinInv'
  BY <1>1, MintKeepsCoins, RedeemKeepsCoins, CoinInputsTyped
<1>2. ASSUME NEW u \in Coins!Owners, NEW c \in Collaterals, NEW amount \in CoinAmounts, Coins!liquidate(u, c, amount)
      PROVE  CoinInv'
  BY <1>2, LiquidateKeepsCoins, CoinInputsTyped
<1>3. ASSUME NEW amount \in CoinAmounts, Coins!deposit_stability_pool(amount) \/ Coins!withdraw_stability_pool(amount)
      PROVE  CoinInv'
  <2>1. amount \in Nat
    BY CoinInputsTyped
  <2>2. PICK p \in Int : coin' = [coin EXCEPT !.pool = p] /\ vaults' = vaults
    BY <1>0, <1>3, <2>1 DEF Coins!deposit_stability_pool, Coins!withdraw_stability_pool, Coin
  <2>3. /\ coin' \in Coin /\ coin'.supply = coin.supply /\ coin'.minted_fees = coin.minted_fees
        /\ coin'.collateral = coin.collateral
    BY <1>0, <2>2 DEF Coin
  <2>4. QED BY <2>2, <2>3, OthersKeepCoins
<1>4. ASSUME NEW c \in Collaterals, NEW r \in MinRatios, Coins!add_collateral(c, r)
      PROVE  CoinInv'
  BY <1>0, <1>4, OthersKeepCoins DEF Coins!add_collateral
<1>5. ASSUME NEW paused \in BOOLEAN, Coins!SetPaused(paused)
      PROVE  CoinInv'
  <2>1. /\ coin' \in Coin /\ coin'.supply = coin.supply /\ coin'.minted_fees = coin.minted_fees
        /\ coin'.collateral = coin.collateral /\ vaults' = vaults
    BY <1>0, <1>5 DEF Coin, Coins!SetPaused
  <2>2. QED BY <2>1, OthersKeepCoins
<1>6. ASSUME NEW fee \in CoinFees, Coins!set_minting_fee(fee) \/ Coins!set_redemption_fee(fee)
      PROVE  CoinInv'
  <2>1. fee \in Nat
    BY CoinInputsTyped
  <2>2. /\ coin' \in Coin /\ coin'.supply = coin.supply /\ coin'.minted_fees = coin.minted_fees
        /\ coin'.collateral = coin.collateral /\ vaults' = vaults
    BY <1>0, <1>6, <2>1 DEF Coin, Coins!set_minting_fee, Coins!set_redemption_fee
  <2>3. QED BY <2>2, OthersKeepCoins
<1>7. QED BY <1>1, <1>2, <1>3, <1>4, <1>5, <1>6 DEF Coins!CoinNext

LEMMA CoinInitial ==
  ASSUME Coins!CoinInit
  PROVE  CoinInv
<1>1. /\ coin = [supply |-> 0, collateral |-> 0, pool |-> 0, minting_fee |-> 50, redemption_fee |-> 50,
                 paused |-> FALSE, minted_fees |-> 0]
      /\ vaults = EmptyMap
  BY CoinMaps DEF Coins!CoinInit
<1>2. DOMAIN vaults = {} /\ vaults = [u \in DOMAIN vaults |-> vaults[u]]
  BY <1>1 DEF EmptyMap
<1>3. VaultsTyped(vaults)
  BY <1>2, FS_EmptySet DEF VaultsTyped
<1>4. DOMAIN DebtsOf(vaults) = {} /\ DOMAIN HeldOf(vaults) = {}
  BY <1>2 DEF DebtsOf, HeldOf
<1>5. SumFunction(DebtsOf(vaults)) = 0 /\ SumFunction(HeldOf(vaults)) = 0
  BY <1>4, SumOfNothing
<1>6. coin.supply + coin.minted_fees = 0 /\ coin.collateral = 0
  BY <1>1
<1>7. Congruent(DEBT_U64, 0, 0)
  BY CoinInputsTyped, CongruentBasics
<1>8. coin \in [supply : Nat, collateral : Nat, pool : Int, minting_fee : Nat, redemption_fee : Nat,
                paused : BOOLEAN, minted_fees : Nat]
  BY <1>1
<1>9. QED BY <1>3, <1>5, <1>6, <1>7, <1>8 DEF CoinInv

LEMMA CoinsDoBalance == CoinInv => Coins!CoinsAreOwed
<1> SUFFICES ASSUME CoinInv PROVE Coins!CoinsAreOwed
  OBVIOUS
<1>1. VaultsTyped(vaults) /\ Tally(DebtsOf(vaults))
  BY VaultTallies DEF CoinInv
<1>2. PICK debts \in Nat : debts = SumFunction(DebtsOf(vaults))
  BY <1>1, TallySum
<1>3. PICK s \in Nat : s = coin.supply + coin.minted_fees
  BY DEF CoinInv
<1>4. debts % DEBT_U64 = s % DEBT_U64
  <2>1. Congruent(DEBT_U64, debts, s)
    BY <1>2, <1>3 DEF CoinInv
  <2>2. PICK w \in Nat : w = DEBT_U64 /\ w > 0
    BY CoinInputsTyped
  <2>3. QED BY <2>1, <2>2, CongruentWrapAlike
<1>5. Coins!SumFunction([u \in DOMAIN vaults |-> vaults[u].debt]) = debts
  BY <1>2, CoinMaps DEF DebtsOf
<1>6. Coins!SumFunction([u \in DOMAIN vaults |-> Coins!Deposits(vaults[u])]) = SumFunction(HeldOf(vaults))
  BY CoinMaps DEF HeldOf, Coins!Deposits
<1>7. \A u \in DOMAIN vaults :
        /\ vaults[u].debt \in 0 .. (DEBT_U64 - 1)
        /\ vaults[u].debt > 0 \/ vaults[u].deposits # EmptyMap
        /\ \A c \in DOMAIN vaults[u].deposits : vaults[u].deposits[c] >= 0
  BY <1>1, CoinInputsTyped DEF VaultsTyped, VaultRecord, Tally
<1>8. QED BY <1>3, <1>4, <1>5, <1>6, <1>7, CoinMaps DEF CoinInv, Coins!CoinsAreOwed, Coins!Wrapped

-----------------------------------------------------------------------------
(* The synthetic assets: the supply of an asset is what is held of it.       *)

(* One more term at the end is one more in the sum. *)
LEMMA SumToExtended ==
  ASSUME NEW n \in Nat, NEW f \in [1 .. n -> Int], NEW g \in [1 .. (n + 1) -> Int], \A i \in 1 .. n : g[i] = f[i]
  PROVE  SumTo(g, n + 1) = SumTo(f, n) + g[n + 1]
<1> DEFINE p == PartialSums(g, n + 1)
           q == [i \in 0 .. n |-> p[i]]
<1>1. IsPartialSums(p, g, n + 1)
  BY PartialSumsDef
<1> HIDE DEF p
<1>2. /\ p \in [0 .. (n + 1) -> Int] /\ p[0] = 0
      /\ \A i \in 1 .. (n + 1) : p[i] = p[i - 1] + g[i]
  BY <1>1 DEF IsPartialSums
<1>3. q \in [0 .. n -> Int] /\ q[0] = 0
  BY <1>2
<1>4. ASSUME NEW i \in 1 .. n PROVE q[i] = q[i - 1] + f[i]
  <2>1. i \in 1 .. (n + 1) /\ i \in 0 .. n /\ i - 1 \in 0 .. n /\ g[i] = f[i]
    OBVIOUS
  <2>2. QED BY <1>2, <2>1
<1>5. IsPartialSums(q, f, n)
  BY <1>3, <1>4 DEF IsPartialSums
<1>6. PartialSums(f, n) = q
  BY <1>5, PartialSumsDef, PartialSumsUnique
<1>7. SumTo(f, n) = p[n]
  BY <1>6 DEF SumTo
<1>8. p[n + 1] = p[n] + g[n + 1]
  <2>1. n + 1 \in 1 .. (n + 1) /\ (n + 1) - 1 = n
    OBVIOUS
  <2>2. QED BY <1>2, <2>1
<1>9. QED BY <1>7, <1>8 DEF SumTo, p

LEMMA SynthMaps ==
  ASSUME NEW m, NEW k, NEW v
  PROVE  /\ Synthetics!Put(m, k, v) = Put(m, k, v)
         /\ Synthetics!Drop(m, k) = Drop(m, k)
         /\ Synthetics!GetOr(m, k, v) = GetOr(m, k, v)
         /\ Synthetics!SumFunction(m) = SumFunction(m)
         /\ Synthetics!SumFunctionOnSet(m, k) = SumFunctionOnSet(m, k)
         /\ Synthetics!SumTo(m, k) = SumTo(m, k)
         /\ Synthetics!EmptyMap = EmptyMap
BY DEF Synthetics!Put, Put, Synthetics!Drop, Drop, Synthetics!GetOr, GetOr, Synthetics!EmptyMap, EmptyMap,
       Synthetics!SumFunction, SumFunction, Synthetics!SumFunctionOnSet, SumFunctionOnSet,
       Synthetics!FoldFunctionOnSet, FoldFunctionOnSet, Synthetics!MapThenFoldSet, MapThenFoldSet,
       Synthetics!SumTo, SumTo, Synthetics!PartialSums, PartialSums

SynthKeys == Synthetics!Minters \X Nat

\* A position as it may be stored.
SynthRecord(p) ==
  /\ p = [synthetic |-> p.synthetic, debt |-> p.debt, deposits |-> p.deposits, ratio |-> p.ratio]
  /\ p.synthetic \in Nat /\ p.debt \in Nat /\ p.debt < DEBT_U64 /\ p.synthetic <= p.debt

PositionsTyped(m) ==
  /\ IsFiniteSet(DOMAIN m) /\ m = [k \in DOMAIN m |-> m[k]]
  /\ DOMAIN m \subseteq SynthKeys
  /\ \A k \in DOMAIN m : SynthRecord(m[k]) /\ m[k].ratio = Synthetics!calculate_collateral_ratio(m[k])

KeysOf(m, a) == {k \in DOMAIN m : k[2] = a}
SynthIn(m, a) == [k \in KeysOf(m, a) |-> m[k].synthetic]
OwedBy(m, u) == [k \in {x \in DOMAIN m : x[1] = u} |-> m[k].debt]

LEMMA SynthTallies ==
  ASSUME NEW m, PositionsTyped(m), NEW a
  PROVE  Tally(SynthIn(m, a)) /\ Tally(OwedBy(m, a))
<1>1. \A k \in DOMAIN m : m[k].synthetic \in Nat /\ m[k].debt \in Nat
  BY DEF PositionsTyped, SynthRecord
<1>2. IsFiniteSet(KeysOf(m, a)) /\ IsFiniteSet({x \in DOMAIN m : x[1] = a})
  BY FS_Subset DEF PositionsTyped, KeysOf
<1>3. Tally(SynthIn(m, a))
  BY <1>1, <1>2 DEF Tally, SynthIn, KeysOf
<1>4. Tally(OwedBy(m, a))
  BY <1>1, <1>2 DEF Tally, OwedBy
<1>5. QED BY <1>3, <1>4

\* What the positions hold of an asset, and what a user owes, as the contract adds it up.
LEMMA SynthSums ==
  ASSUME NEW m, PositionsTyped(m), NEW a
  PROVE  /\ SumFunctionOnSet([k \in DOMAIN m |-> m[k].synthetic], KeysOf(m, a)) = SumFunction(SynthIn(m, a))
         /\ SumFunctionOnSet([k \in DOMAIN m |-> m[k].debt], {x \in DOMAIN m : x[1] = a}) = SumFunction(OwedBy(m, a))
<1>1. \A k \in DOMAIN m : m[k].synthetic \in Int /\ m[k].debt \in Int
  BY DEF PositionsTyped, SynthRecord
<1>2. PICK S : S = KeysOf(m, a)
  OBVIOUS
<1>3. PICK T : T = {x \in DOMAIN m : x[1] = a}
  OBVIOUS
<1>4. IsFiniteSet(S) /\ IsFiniteSet(T) /\ S \subseteq DOMAIN m /\ T \subseteq DOMAIN m
  BY <1>2, <1>3, FS_Subset DEF PositionsTyped, KeysOf
<1>5. PICK f : f = [k \in DOMAIN m |-> m[k].synthetic]
  OBVIOUS
<1>6. PICK g : g = SynthIn(m, a)
  OBVIOUS
<1>7. \A k \in S : f[k] \in Int /\ f[k] = g[k]
  BY <1>1, <1>2, <1>4, <1>5, <1>6 DEF SynthIn
<1>8. DOMAIN g = S
  BY <1>2, <1>6 DEF SynthIn
<1>9. SumFunctionOnSet(f, S) = SumFunction(g)
  BY <1>4, <1>7, <1>8, SumOnSetAgree DEF SumFunction
<1>10. PICK h : h = [k \in DOMAIN m |-> m[k].debt]
  OBVIOUS
<1>11. PICK o : o = OwedBy(m, a)
  OBVIOUS
<1>12. \A k \in T : h[k] \in Int /\ h[k] = o[k]
  BY <1>1, <1>3, <1>4, <1>10, <1>11 DEF OwedBy
<1>13. DOMAIN o = T
  BY <1>3, <1>11 DEF OwedBy
<1>14. SumFunctionOnSet(h, T) = SumFunction(o)
  BY <1>4, <1>12, <1>13, SumOnSetAgree DEF SumFunction
<1>15. QED BY <1>2, <1>3, <1>5, <1>6, <1>9, <1>10, <1>11, <1>14

LEMMA PutPosition ==
  ASSUME NEW m, PositionsTyped(m), NEW k \in SynthKeys, NEW p, SynthRecord(p),
         p.ratio = Synthetics!calculate_collateral_ratio(p)
  PROVE  /\ PositionsTyped(Put(m, k, p))
         /\ SumFunction(SynthIn(Put(m, k, p), k[2])) =
              SumFunction(SynthIn(m, k[2])) - GetOr(SynthIn(m, k[2]), k, 0) + p.synthetic
         /\ \A b : b # k[2] => SynthIn(Put(m, k, p), b) = SynthIn(m, b)
<1>1. PICK n : n = Put(m, k, p)
  OBVIOUS
<1>2. /\ DOMAIN n = DOMAIN m \cup {k} /\ n[k] = p /\ \A x \in DOMAIN n \ {k} : x \in DOMAIN m /\ n[x] = m[x]
      /\ n = [x \in DOMAIN n |-> n[x]]
  BY <1>1 DEF Put
<1>3. IsFiniteSet(DOMAIN n)
  BY <1>2, FS_AddElement DEF PositionsTyped
<1>4. \A x \in DOMAIN n : SynthRecord(n[x]) /\ n[x].ratio = Synthetics!calculate_collateral_ratio(n[x])
  BY <1>2 DEF PositionsTyped
<1>5. PositionsTyped(n)
  BY <1>2, <1>3, <1>4 DEF PositionsTyped
<1>6. SynthIn(n, k[2]) = Put(SynthIn(m, k[2]), k, p.synthetic)
  <2>1. KeysOf(n, k[2]) = KeysOf(m, k[2]) \cup {k}
    BY <1>2 DEF KeysOf
  <2>2. \A x \in KeysOf(n, k[2]) : n[x].synthetic = IF x = k THEN p.synthetic ELSE SynthIn(m, k[2])[x]
    BY <1>2, <2>1 DEF SynthIn, KeysOf
  <2>3. DOMAIN SynthIn(m, k[2]) = KeysOf(m, k[2])
    BY DEF SynthIn
  <2>4. QED BY <2>1, <2>2, <2>3 DEF SynthIn, Put
<1>7. ASSUME NEW b, b # k[2] PROVE SynthIn(n, b) = SynthIn(m, b)
  <2>1. KeysOf(n, b) = KeysOf(m, b)
    BY <1>2, <1>7 DEF KeysOf
  <2>2. \A x \in KeysOf(m, b) : n[x] = m[x]
    BY <1>2, <1>7 DEF KeysOf
  <2>3. QED BY <2>1, <2>2 DEF SynthIn
<1>8. p.synthetic \in Nat
  BY DEF SynthRecord
<1>9. PICK t : t = SynthIn(m, k[2])
  OBVIOUS
<1>10. SumFunction(Put(t, k, p.synthetic)) = SumFunction(t) - GetOr(t, k, 0) + p.synthetic
  <2>1. Tally(t)
    BY <1>9, SynthTallies
  <2>2. QED BY <1>8, <2>1, TallyPut
<1>11. QED BY <1>1, <1>5, <1>6, <1>7, <1>9, <1>10

LEMMA DropPosition ==
  ASSUME NEW m, PositionsTyped(m), NEW k
  PROVE  /\ PositionsTyped(Drop(m, k))
         /\ SumFunction(SynthIn(Drop(m, k), k[2])) = SumFunction(SynthIn(m, k[2])) - GetOr(SynthIn(m, k[2]), k, 0)
         /\ \A b : b # k[2] => SynthIn(Drop(m, k), b) = SynthIn(m, b)
<1>1. PICK n : n = Drop(m, k)
  OBVIOUS
<1>2. /\ DOMAIN n = DOMAIN m \ {k} /\ \A x \in DOMAIN n : x \in DOMAIN m /\ n[x] = m[x]
      /\ n = [x \in DOMAIN n |-> n[x]]
  BY <1>1 DEF Drop
<1>3. IsFiniteSet(DOMAIN n)
  BY <1>2, FS_Subset DEF PositionsTyped
<1>4. PositionsTyped(n)
  BY <1>2, <1>3 DEF PositionsTyped
<1>5. SynthIn(n, k[2]) = Drop(SynthIn(m, k[2]), k)
  <2>1. KeysOf(n, k[2]) = KeysOf(m, k[2]) \ {k}
    BY <1>2 DEF KeysOf
  <2>2. \A x \in KeysOf(n, k[2]) : n[x].synthetic = SynthIn(m, k[2])[x]
    BY <1>2, <2>1 DEF SynthIn, KeysOf
  <2>3. DOMAIN SynthIn(m, k[2]) = KeysOf(m, k[2])
    BY DEF SynthIn
  <2>4. QED BY <2>1, <2>2, <2>3 DEF SynthIn, Drop
<1>6. ASSUME NEW b, b # k[2] PROVE SynthIn(n, b) = SynthIn(m, b)
  <2>1. KeysOf(n, b) = KeysOf(m, b)
    BY <1>2, <1>6 DEF KeysOf
  <2>2. \A x \in KeysOf(m, b) : n[x] = m[x]
    BY <1>2, <1>6 DEF KeysOf
  <2>3. QED BY <2>1, <2>2 DEF SynthIn
<1>7. PICK t : t = SynthIn(m, k[2])
  OBVIOUS
<1>8. SumFunction(Drop(t, k)) = SumFunction(t) - GetOr(t, k, 0)
  BY <1>7, SynthTallies, TallyDrop
<1>9. QED BY <1>1, <1>4, <1>5, <1>6, <1>7, <1>8

SynthTerms == {t \in [min_ratio : Nat, fee_bps : Nat, active : BOOLEAN] : t.fee_bps <= 1000}
SynthAssets == {r \in [terms : SynthTerms, supply : Nat, collateral : Nat] : r.supply < DEBT_U64}

Supplies(listed) == [a \in DOMAIN listed |-> listed[a].supply]

RatiosOf(m) == [k \in DOMAIN m |-> m[k].ratio]

ProtocolTyped(p) ==
  /\ p = [risk |-> p.risk, paused |-> p.paused, fees |-> p.fees, supply |-> p.supply, avg_ratio |-> p.avg_ratio]
  /\ p.risk \in RiskSets

SynthInv ==
  /\ assets \in Seq(SynthAssets)
  /\ PositionsTyped(positions) /\ \A k \in DOMAIN positions : k[2] \in DOMAIN assets
  /\ ProtocolTyped(protocol)
  /\ \A a \in DOMAIN assets : assets[a].supply = SumFunction(SynthIn(positions, a))
  /\ protocol.supply = SumTo(Supplies(assets), Len(assets)) % DEBT_U64
  /\ positions # EmptyMap =>
       protocol.avg_ratio = SumFunction(RatiosOf(positions)) \div Cardinality(DOMAIN positions)

LEMMA SynthInputsTyped ==
  /\ DEBT_U64 \in Nat /\ DEBT_U64 > 0
  /\ RiskSets \subseteq [max_debt : 0 .. (DEBT_U64 - 1), threshold : Nat]
  /\ AssetTerms \subseteq [min_ratio : Nat, fee_bps : Nat, active : BOOLEAN]
  /\ SynthAmounts \subseteq Nat /\ SynthCollaterals \subseteq Nat
  /\ MaxSupply \in Nat /\ MaxSupply < DEBT_U64
BY SyntheticsInputs DEF Synthetics!SyntheticProtocolAssumption

LEMMA SuppliesTyped ==
  ASSUME NEW listed \in Seq(SynthAssets)
  PROVE  /\ Len(listed) \in Nat /\ DOMAIN listed = 1 .. Len(listed)
         /\ Supplies(listed) \in [1 .. Len(listed) -> Int]
         /\ SumTo(Supplies(listed), Len(listed)) \in Int
         /\ \A a \in DOMAIN listed : listed[a] \in SynthAssets /\ listed[a].supply \in Nat
<1>1. Len(listed) \in Nat /\ DOMAIN listed = 1 .. Len(listed)
  OBVIOUS
<1>2. \A a \in DOMAIN listed : listed[a] \in SynthAssets
  OBVIOUS
<1>3. \A a \in DOMAIN listed : listed[a].supply \in Nat
  BY <1>2 DEF SynthAssets
<1>4. Supplies(listed) \in [1 .. Len(listed) -> Int]
  BY <1>1, <1>3 DEF Supplies
<1>5. QED BY <1>1, <1>2, <1>3, <1>4, SumToType

\* The asset a of a list with another supply.
WithSupply(listed, a, x, y) == [listed EXCEPT ![a].supply = x, ![a].collateral = y]

LEMMA SupplyChanged ==
  ASSUME NEW listed \in Seq(SynthAssets), NEW a \in DOMAIN listed, NEW x \in Nat, x < DEBT_U64, NEW y \in Nat,
         NEW after, after = WithSupply(listed, a, x, y)
  PROVE  /\ after \in Seq(SynthAssets) /\ Len(after) = Len(listed) /\ DOMAIN after = DOMAIN listed
         /\ after[a].supply = x /\ \A b \in DOMAIN listed : b # a => after[b] = listed[b]
         /\ SumTo(Supplies(after), Len(after)) = SumTo(Supplies(listed), Len(listed)) - listed[a].supply + x
<1>1. /\ Len(listed) \in Nat /\ DOMAIN listed = 1 .. Len(listed)
      /\ Supplies(listed) \in [1 .. Len(listed) -> Int] /\ listed[a] \in SynthAssets
  BY SuppliesTyped
<1>2. PICK r : r = [listed[a] EXCEPT !.supply = x, !.collateral = y]
  OBVIOUS
<1>3. r \in SynthAssets /\ r.supply = x
  BY <1>1, <1>2 DEF SynthAssets
<1>4. after = [listed EXCEPT ![a] = r]
  BY <1>2 DEF WithSupply
<1>5. /\ after \in Seq(SynthAssets) /\ Len(after) = Len(listed)
      /\ \A b \in 1 .. Len(listed) : after[b] = IF b = a THEN r ELSE listed[b]
  <2>1. a \in 1 .. Len(listed)
    BY <1>1
  <2>2. r \in SynthAssets
    BY <1>3
  <2>3. after \in Seq(SynthAssets)
    BY <1>4, <2>1, <2>2
  <2>4. Len(after) = Len(listed)
    BY <1>4, <2>1
  <2>5. \A b \in 1 .. Len(listed) : after[b] = IF b = a THEN r ELSE listed[b]
    BY <1>1, <1>4, <2>1
  <2>6. QED BY <2>3, <2>4, <2>5
<1>6. /\ DOMAIN after = DOMAIN listed /\ after[a] = r
      /\ \A b \in DOMAIN listed : b # a => after[b] = listed[b]
  BY <1>1, <1>5
<1>7. Supplies(after) = [Supplies(listed) EXCEPT ![a] = x]
  <2>1. DOMAIN Supplies(after) = DOMAIN listed /\ DOMAIN Supplies(listed) = DOMAIN listed
    BY <1>6 DEF Supplies
  <2>2. \A b \in DOMAIN listed : Supplies(after)[b] = IF b = a THEN x ELSE Supplies(listed)[b]
    BY <1>3, <1>6 DEF Supplies
  <2>3. Supplies(after) = [b \in DOMAIN listed |-> Supplies(after)[b]]
    BY <1>6 DEF Supplies
  <2>4. QED BY <2>1, <2>2, <2>3
<1>8. Supplies(listed)[a] = listed[a].supply
  BY DEF Supplies
<1>9. QED
  <2>1. PICK n \in Nat : n = Len(listed)
    BY <1>1
  <2>2. PICK f \in [1 .. n -> Int] : f = Supplies(listed)
    BY <1>1, <2>1
  <2>3. SumTo([f EXCEPT ![a] = x], n) = SumTo(f, n) - f[a] + x
    <3>1. a \in 1 .. n /\ x \in Int
      BY <1>1, <2>1
    <3>2. QED BY <3>1, SumToUpdate
  <2>4. QED BY <1>3, <1>5, <1>6, <1>7, <1>8, <2>1, <2>2, <2>3

\* A position was written or removed, its asset follows, and the statistics count it.
LEMMA SynthMoves ==
  ASSUME SynthInv, NEW a \in DOMAIN assets, NEW minted \in Nat, NEW burned \in Nat, NEW fee,
         PositionsTyped(positions'), \A k \in DOMAIN positions' : k[2] \in DOMAIN assets,
         NEW x \in Nat, x < DEBT_U64, x = SumFunction(SynthIn(positions', a)),
         x = assets[a].supply + minted - burned,
         \A b : b # a => SynthIn(positions', b) = SynthIn(positions, b),
         NEW y \in Nat, assets' = WithSupply(assets, a, x, y),
         Synthetics!Counted(minted, burned, fee)
  PROVE  SynthInv'
<1>1. /\ assets' \in Seq(SynthAssets) /\ Len(assets') = Len(assets) /\ DOMAIN assets' = DOMAIN assets
      /\ assets'[a].supply = x /\ \A b \in DOMAIN assets : b # a => assets'[b] = assets[b]
      /\ SumTo(Supplies(assets'), Len(assets')) = SumTo(Supplies(assets), Len(assets)) - assets[a].supply + x
  <2>1. assets \in Seq(SynthAssets)
    BY DEF SynthInv
  <2>2. PICK after : after = assets'
    OBVIOUS
  <2>3. after = WithSupply(assets, a, x, y)
    BY <2>2
  <2>4. /\ after \in Seq(SynthAssets) /\ Len(after) = Len(assets) /\ DOMAIN after = DOMAIN assets
        /\ after[a].supply = x /\ \A b \in DOMAIN assets : b # a => after[b] = assets[b]
        /\ SumTo(Supplies(after), Len(after)) = SumTo(Supplies(assets), Len(assets)) - assets[a].supply + x
    BY <2>1, <2>3, SupplyChanged
  <2>5. QED BY <2>2, <2>4
<1>2. \A b \in DOMAIN assets' : assets'[b].supply = SumFunction(SynthIn(positions', b))
  BY <1>1 DEF SynthInv
<1>3. PICK avg : avg = IF positions' = EmptyMap THEN protocol.avg_ratio
                       ELSE SumFunction([k \in DOMAIN positions' |->
                                           Synthetics!calculate_collateral_ratio(positions'[k])])
                              \div Cardinality(DOMAIN positions')
  OBVIOUS
<1>4. PICK w \in Nat : w = DEBT_U64 /\ w > 0
  BY SynthInputsTyped
<1>5. PICK s \in Int : s = SumTo(Supplies(assets), Len(assets))
  BY SuppliesTyped DEF SynthInv
<1>6. PICK f : protocol' = [protocol EXCEPT !.supply = Synthetics!Wrapped(protocol.supply + minted - burned),
                                           !.avg_ratio = avg, !.fees = f]
  <2>1. Synthetics!Cardinality(DOMAIN positions') = Cardinality(DOMAIN positions')
    BY DEF Synthetics!Cardinality, Cardinality
  <2>2. PICK ratio_sum : ratio_sum = SumFunction([k \in DOMAIN positions' |->
                                              Synthetics!calculate_collateral_ratio(positions'[k])])
    OBVIOUS
  <2>3. avg = IF positions' = EmptyMap THEN protocol.avg_ratio ELSE ratio_sum \div Cardinality(DOMAIN positions')
    BY <1>3, <2>2
  <2>4. ratio_sum = Synthetics!SumFunction([k \in DOMAIN positions' |->
                                              Synthetics!calculate_collateral_ratio(positions'[k])])
    BY <2>2, SynthMaps
  <2>5. positions' = EmptyMap <=> positions' = Synthetics!EmptyMap
    BY SynthMaps
  <2>6. avg = IF positions' = Synthetics!EmptyMap THEN protocol.avg_ratio
              ELSE ratio_sum \div Synthetics!Cardinality(DOMAIN positions')
    BY <2>1, <2>3, <2>5
  <2>7. PICK t : t = protocol.fees.total + fee
    OBVIOUS
  <2>a. PICK v : v = protocol.fees.stakers + ((fee * 8000) \div 10000)
    OBVIOUS
  <2>b. PICK q : q = protocol.fees.treasury + (fee - ((fee * 8000) \div 10000))
    OBVIOUS
  <2>c. PICK f : f = [total |-> t, stakers |-> v, treasury |-> q]
    OBVIOUS
  <2>8. protocol' = [protocol EXCEPT !.supply = Synthetics!Wrapped(protocol.supply + minted - burned),
                                     !.avg_ratio = avg, !.fees = f]
    BY <2>4, <2>6, <2>7, <2>a, <2>b, <2>c DEF Synthetics!Counted
  <2>9. QED BY <2>8
<1>7. PICK z : z = Synthetics!Wrapped(protocol.supply + minted - burned)
  OBVIOUS
<1>8. /\ ProtocolTyped(protocol') /\ protocol'.supply = z /\ protocol'.avg_ratio = avg
  <2>1. protocol' = [protocol EXCEPT !.supply = z, !.avg_ratio = avg, !.fees = f]
    BY <1>6, <1>7
  <2>2. ProtocolTyped(protocol)
    BY DEF SynthInv
  <2>3. QED BY <2>1, <2>2 DEF ProtocolTyped
<1>9. z = SumTo(Supplies(assets'), Len(assets')) % DEBT_U64
  <2>1. protocol.supply = s % w
    BY <1>4, <1>5 DEF SynthInv
  <2>2. PICK d \in Int : d = minted - burned
    OBVIOUS
  <2>3. PICK p \in Nat : p = s % w /\ Congruent(w, p, s)
    BY <1>4, WrappedIsCongruent
  <2>4. Congruent(w, p + d, s + d)
    <3>1. Congruent(w, d, d)
      BY CongruentBasics
    <3>2. p \in Int /\ Congruent(w, p, s)
      BY <2>3
    <3>3. QED BY <3>1, <3>2, CongruentAddUp
  <2>5. p + d \in Int /\ s + d \in Int
    OBVIOUS
  <2>6. (p + d) % w = (s + d) % w
    BY <1>4, <2>4, <2>5, CongruentWrapAlike
  <2>7. assets[a].supply \in Nat
    BY SuppliesTyped DEF SynthInv
  <2>8. SumTo(Supplies(assets'), Len(assets')) = s + d
    BY <1>1, <1>5, <2>2, <2>7
  <2>9. protocol.supply + minted - burned = p + d
    BY <2>1, <2>2, <2>3
  <2>10. QED BY <1>4, <1>7, <2>6, <2>8, <2>9 DEF Synthetics!Wrapped
<1>10. positions' # EmptyMap =>
         protocol'.avg_ratio = SumFunction(RatiosOf(positions')) \div Cardinality(DOMAIN positions')
  <2>1. RatiosOf(positions') = [k \in DOMAIN positions' |-> Synthetics!calculate_collateral_ratio(positions'[k])]
    BY DEF RatiosOf, PositionsTyped
  <2>2. QED BY <1>3, <1>8, <2>1
<1>11. \A k \in DOMAIN positions' : k[2] \in DOMAIN assets'
  BY <1>1
<1>12. QED BY <1>1, <1>2, <1>8, <1>9, <1>10, <1>11 DEF SynthInv

LEMMA RatedIs ==
  ASSUME NEW s \in Nat, NEW d \in Nat, s <= d, d < DEBT_U64, NEW e, NEW r,
         NEW p, p = Synthetics!Rated([synthetic |-> s, debt |-> d, deposits |-> e, ratio |-> r])
  PROVE  /\ SynthRecord(p) /\ p.ratio = Synthetics!calculate_collateral_ratio(p)
         /\ p.synthetic = s /\ p.debt = d
<1>1. PICK q : q = [synthetic |-> s, debt |-> d, deposits |-> e, ratio |-> r]
  OBVIOUS
<1>2. PICK c : c = Synthetics!calculate_collateral_ratio(q)
  OBVIOUS
<1>3. p = [q EXCEPT !.ratio = c]
  BY <1>1, <1>2 DEF Synthetics!Rated
<1>4. p = [synthetic |-> s, debt |-> d, deposits |-> e, ratio |-> c]
  BY <1>1, <1>3
<1>5. p.synthetic = s /\ p.debt = d /\ p.deposits = e /\ p.ratio = c
  BY <1>4
<1>6. SynthRecord(p)
  BY <1>4, <1>5 DEF SynthRecord
<1>7. q.debt = p.debt /\ q.deposits = p.deposits
  BY <1>1, <1>5
<1>8. Synthetics!calculate_collateral_ratio(p) = Synthetics!calculate_collateral_ratio(q)
  BY <1>7 DEF Synthetics!calculate_collateral_ratio, Synthetics!Collateral
<1>9. QED BY <1>2, <1>5, <1>6, <1>8

LEMMA GottenPosition ==
  ASSUME PositionsTyped(positions), NEW u, NEW a, NEW old,
         old = GetOr(positions, <<u, a>>, [synthetic |-> 0, debt |-> 0, deposits |-> EmptyMap, ratio |-> 0])
  PROVE  /\ SynthRecord(old)
         /\ GetOr(SynthIn(positions, a), <<u, a>>, 0) = old.synthetic
         /\ GetOr(OwedBy(positions, u), <<u, a>>, 0) = old.debt
<1>1. PICK k : k = <<u, a>> /\ k[1] = u /\ k[2] = a
  OBVIOUS
<1>2. CASE k \in DOMAIN positions
  <2>1. old = positions[k]
    BY <1>1, <1>2 DEF GetOr
  <2>2. SynthRecord(old)
    BY <1>2, <2>1 DEF PositionsTyped
  <2>3. GetOr(SynthIn(positions, a), k, 0) = old.synthetic
    BY <1>1, <1>2, <2>1 DEF GetOr, SynthIn, KeysOf
  <2>4. GetOr(OwedBy(positions, u), k, 0) = old.debt
    BY <1>1, <1>2, <2>1 DEF GetOr, OwedBy
  <2>5. QED BY <1>1, <2>2, <2>3, <2>4
<1>3. CASE k \notin DOMAIN positions
  <2>1. old = [synthetic |-> 0, debt |-> 0, deposits |-> EmptyMap, ratio |-> 0]
    BY <1>1, <1>3 DEF GetOr
  <2>2. SynthRecord(old) /\ old.synthetic = 0 /\ old.debt = 0
    BY <2>1, SynthInputsTyped DEF SynthRecord
  <2>3. GetOr(SynthIn(positions, a), k, 0) = 0
    BY <1>3 DEF GetOr, SynthIn, KeysOf
  <2>4. GetOr(OwedBy(positions, u), k, 0) = 0
    BY <1>3 DEF GetOr, OwedBy
  <2>5. QED BY <1>1, <2>2, <2>3, <2>4
<1>4. QED BY <1>2, <1>3

\* The key of a position of a listed asset.
LEMMA SynthKey ==
  ASSUME SynthInv, NEW u \in Synthetics!Minters, NEW a \in DOMAIN assets
  PROVE  /\ <<u, a>> \in SynthKeys /\ <<u, a>>[2] = a
         /\ a \in Nat /\ assets[a] \in SynthAssets /\ assets[a].supply \in Nat
<1>1. assets \in Seq(SynthAssets)
  BY DEF SynthInv
<1>2. assets[a] \in SynthAssets /\ assets[a].supply \in Nat /\ DOMAIN assets = 1 .. Len(assets) /\ Len(assets) \in Nat
  BY <1>1, SuppliesTyped
<1>3. a \in Nat
  BY <1>2
<1>4. QED BY <1>2, <1>3 DEF SynthKeys

LEMMA SynthFee ==
  ASSUME NEW amount \in Nat, NEW t \in SynthTerms
  PROVE  (amount * t.fee_bps) \div 10000 \in Nat /\ (amount * t.fee_bps) \div 10000 <= amount
<1>1. PICK f \in Nat : f = t.fee_bps /\ f <= 1000
  BY DEF SynthTerms
<1>2. amount * f \in Nat /\ amount * f <= amount * 1000
  BY <1>1
<1>3. PICK z \in Nat : z = amount * f /\ z <= amount * 1000
  BY <1>2
<1>4. z \div 10000 \in Nat /\ z \div 10000 <= amount
  BY <1>3
<1>5. QED BY <1>1, <1>3, <1>4

LEMMA UserDebt ==
  ASSUME PositionsTyped(positions), NEW u
  PROVE  Synthetics!get_user_debt(u) = SumFunction(OwedBy(positions, u))
<1>1. PICK f : f = [k \in DOMAIN positions |-> positions[k].debt]
  OBVIOUS
<1>2. PICK T : T = {x \in DOMAIN positions : x[1] = u}
  OBVIOUS
<1>3. SumFunctionOnSet(f, T) = SumFunction(OwedBy(positions, u))
  BY <1>1, <1>2, SynthSums
<1>4. Synthetics!get_user_debt(u) = Synthetics!SumFunctionOnSet(f, T)
  BY <1>1, <1>2 DEF Synthetics!get_user_debt
<1>5. QED BY <1>3, <1>4, SynthMaps

LEMMA MintKeepsSynth ==
  ASSUME SynthInv, NEW u \in Synthetics!Minters, NEW a \in DOMAIN assets, NEW token, NEW collateral \in Nat,
         NEW amount \in Nat, Synthetics!mint_synthetic(u, a, token, collateral, amount)
  PROVE  SynthInv'
<1>1. /\ <<u, a>> \in SynthKeys /\ <<u, a>>[2] = a /\ assets[a] \in SynthAssets /\ assets[a].supply \in Nat
      /\ PositionsTyped(positions)
  BY SynthKey DEF SynthInv
<1>2. PICK k \in SynthKeys : k = <<u, a>> /\ k[2] = a
  BY <1>1
<1>3. PICK old : old = GetOr(positions, k, [synthetic |-> 0, debt |-> 0, deposits |-> EmptyMap, ratio |-> 0])
  OBVIOUS
<1>4. /\ SynthRecord(old) /\ GetOr(SynthIn(positions, a), k, 0) = old.synthetic
      /\ GetOr(OwedBy(positions, u), k, 0) = old.debt
  BY <1>1, <1>2, <1>3, GottenPosition
<1>5. PICK fee \in Nat : fee = (amount * assets[a].terms.fee_bps) \div 10000 /\ fee <= amount
  <2>1. assets[a].terms \in SynthTerms
    BY <1>1 DEF SynthAssets
  <2>2. QED BY <2>1, SynthFee
<1>6. PICK minted \in Nat : minted = amount - fee /\ minted <= amount
  BY <1>5
<1>7. PICK s \in Nat : s = old.synthetic + minted
  BY <1>4 DEF SynthRecord
<1>8. PICK d \in Nat : d = old.debt + amount
  BY <1>4 DEF SynthRecord
<1>9. s <= d
  BY <1>4, <1>6, <1>7, <1>8 DEF SynthRecord
<1>10. PICK e : e = Put(old.deposits, token, GetOr(old.deposits, token, 0) + collateral)
  OBVIOUS
<1>11. PICK p : p = Synthetics!Rated([synthetic |-> s, debt |-> d, deposits |-> e, ratio |-> old.ratio])
  OBVIOUS
<1>12. PICK q : q = [old EXCEPT !.synthetic = s, !.debt = d, !.deposits = e]
  OBVIOUS
<1>m. q = [synthetic |-> s, debt |-> d, deposits |-> e, ratio |-> old.ratio]
  <2>1. old = [synthetic |-> old.synthetic, debt |-> old.debt, deposits |-> old.deposits, ratio |-> old.ratio]
    BY <1>4 DEF SynthRecord
  <2>2. QED BY <1>12, <2>1
<1>13. positions' = Put(positions, k, p)
  <2>1. PICK none : none = [synthetic |-> 0, debt |-> 0, deposits |-> EmptyMap, ratio |-> 0]
    OBVIOUS
  <2>2. none = [synthetic |-> 0, debt |-> 0, deposits |-> Synthetics!EmptyMap, ratio |-> 0]
    BY <2>1, SynthMaps
  <2>3. old = Synthetics!GetOr(positions, k, none)
    BY <1>3, <2>1, SynthMaps
  <2>4. old = Synthetics!GetOr(positions, <<u, a>>,
                [synthetic |-> 0, debt |-> 0, deposits |-> Synthetics!EmptyMap, ratio |-> 0])
    BY <1>2, <2>2, <2>3
  <2>5. e = Synthetics!Put(old.deposits, token, Synthetics!GetOr(old.deposits, token, 0) + collateral)
    BY <1>10, SynthMaps
  <2>6. q = [old EXCEPT !.synthetic = old.synthetic + minted, !.debt = old.debt + amount,
                        !.deposits = Synthetics!Put(old.deposits, token,
                                       Synthetics!GetOr(old.deposits, token, 0) + collateral)]
    BY <1>7, <1>8, <1>12, <2>5
  <2>7. positions' = Synthetics!Put(positions, <<u, a>>, Synthetics!Rated(q))
    BY <1>5, <1>6, <2>4, <2>6 DEF Synthetics!mint_synthetic
  <2>8. positions' = Put(positions, k, Synthetics!Rated(q))
    BY <1>2, <2>7, SynthMaps
  <2>9. QED BY <1>11, <1>m, <2>8
<1>14. /\ Synthetics!get_user_debt(u) + amount <= protocol.risk.max_debt
       /\ assets[a].supply + minted <= MaxSupply
       /\ assets' = [assets EXCEPT ![a].supply = @ + minted, ![a].collateral = Synthetics!Wrapped(@ + collateral)]
       /\ Synthetics!Counted(minted, 0, fee)
  BY <1>5, <1>6 DEF Synthetics!mint_synthetic
<1>15. d < DEBT_U64
  <2>1. Synthetics!get_user_debt(u) = SumFunction(OwedBy(positions, u))
    BY <1>1, UserDebt
  <2>2. SumFunction(OwedBy(positions, u)) \in Nat /\ old.debt <= SumFunction(OwedBy(positions, u))
    BY <1>1, <1>4, SynthTallies, TallySum
  <2>3. protocol.risk.max_debt \in Nat /\ protocol.risk.max_debt < DEBT_U64
    <3>1. PICK r \in [max_debt : 0 .. (DEBT_U64 - 1), threshold : Nat] : r = protocol.risk
      BY SynthInputsTyped DEF SynthInv, ProtocolTyped
    <3>2. r.max_debt \in 0 .. (DEBT_U64 - 1)
      OBVIOUS
    <3>3. QED BY <3>1, <3>2, SynthInputsTyped
  <2>4. old.debt \in Nat /\ DEBT_U64 \in Nat
    BY <1>4, SynthInputsTyped DEF SynthRecord
  <2>5. QED BY <1>8, <1>14, <2>1, <2>2, <2>3, <2>4
<1>16. /\ SynthRecord(p) /\ p.ratio = Synthetics!calculate_collateral_ratio(p) /\ p.synthetic = s
  BY <1>9, <1>11, <1>15, RatedIs
<1>17. /\ PositionsTyped(positions')
       /\ SumFunction(SynthIn(positions', a)) = SumFunction(SynthIn(positions, a)) - old.synthetic + s
       /\ \A b : b # a => SynthIn(positions', b) = SynthIn(positions, b)
  BY <1>1, <1>2, <1>4, <1>13, <1>16, PutPosition
<1>18. PICK x \in Nat : x = assets[a].supply + minted
  BY <1>1
<1>19. x < DEBT_U64
  BY <1>14, <1>18, SynthInputsTyped
<1>20. x = SumFunction(SynthIn(positions', a))
  <2>1. assets[a].supply = SumFunction(SynthIn(positions, a))
    BY DEF SynthInv
  <2>2. old.synthetic \in Nat
    BY <1>4 DEF SynthRecord
  <2>3. QED BY <1>1, <1>7, <1>17, <1>18, <2>1, <2>2
<1>21. PICK y \in Nat : y = Synthetics!Wrapped(assets[a].collateral + collateral)
  <2>1. PICK z \in Int : z = assets[a].collateral + collateral
    BY <1>1 DEF SynthAssets
  <2>2. z % DEBT_U64 \in Nat
    BY SynthInputsTyped, WrappedIs
  <2>3. QED BY <2>1, <2>2 DEF Synthetics!Wrapped
<1>22. assets' = WithSupply(assets, a, x, y)
  BY <1>14, <1>18, <1>21 DEF WithSupply
<1>23. \A i \in DOMAIN positions' : i[2] \in DOMAIN assets
  <2>1. DOMAIN positions' = DOMAIN positions \cup {k}
    BY <1>13 DEF Put
  <2>2. QED BY <1>2, <2>1 DEF SynthInv
<1>24. x = assets[a].supply + minted - 0
  BY <1>1, <1>18
<1>25. QED BY <1>14, <1>17, <1>19, <1>20, <1>22, <1>23, <1>24, SynthMoves

LEMMA SynthHeld ==
  ASSUME SynthInv, NEW u \in Synthetics!Minters, NEW a \in DOMAIN assets, NEW k \in SynthKeys, k = <<u, a>>,
         k \in DOMAIN positions
  PROVE  /\ SynthRecord(positions[k]) /\ GetOr(SynthIn(positions, a), k, 0) = positions[k].synthetic
         /\ positions[k].synthetic <= assets[a].supply
         /\ assets[a].supply = SumFunction(SynthIn(positions, a)) /\ assets[a].supply < DEBT_U64
<1>1. PositionsTyped(positions) /\ assets[a].supply = SumFunction(SynthIn(positions, a))
  BY DEF SynthInv
<1>2. PICK old : old = GetOr(positions, k, [synthetic |-> 0, debt |-> 0, deposits |-> EmptyMap, ratio |-> 0])
  OBVIOUS
<1>3. old = positions[k]
  BY <1>2 DEF GetOr
<1>4. SynthRecord(old) /\ GetOr(SynthIn(positions, a), k, 0) = old.synthetic
  BY <1>1, <1>2, GottenPosition
<1>5. old.synthetic <= SumFunction(SynthIn(positions, a))
  BY <1>1, <1>4, SynthTallies, TallySum
<1>6. assets[a].supply < DEBT_U64
  BY SynthKey DEF SynthAssets
<1>7. QED BY <1>1, <1>3, <1>4, <1>5, <1>6

LEMMA SynthWrapped ==
  ASSUME NEW z \in Int
  PROVE  /\ Synthetics!Wrapped(z) \in Nat /\ Synthetics!Wrapped(z) < DEBT_U64
         /\ z \in Nat /\ z < DEBT_U64 => Synthetics!Wrapped(z) = z
BY SynthInputsTyped, WrappedIs, WithinTheWidth DEF Synthetics!Wrapped

LEMMA BurnKeepsSynth ==
  ASSUME SynthInv, NEW u \in Synthetics!Minters, NEW a \in DOMAIN assets, NEW token, NEW collateral \in Nat,
         NEW amount \in Nat, Synthetics!burn_synthetic(u, a, token, collateral, amount)
  PROVE  SynthInv'
<1>1. /\ <<u, a>> \in SynthKeys /\ <<u, a>>[2] = a /\ assets[a] \in SynthAssets /\ assets[a].supply \in Nat
      /\ PositionsTyped(positions)
  BY SynthKey DEF SynthInv
<1>2. PICK k \in SynthKeys : k = <<u, a>> /\ k[2] = a
  BY <1>1
<1>3. PICK old : old = positions[k]
  OBVIOUS
<1>4. k \in DOMAIN positions /\ old.synthetic >= amount
  BY <1>2, <1>3 DEF Synthetics!burn_synthetic
<1>5. /\ SynthRecord(old) /\ GetOr(SynthIn(positions, a), k, 0) = old.synthetic
      /\ old.synthetic <= assets[a].supply
      /\ assets[a].supply = SumFunction(SynthIn(positions, a)) /\ assets[a].supply < DEBT_U64
  BY <1>2, <1>3, <1>4, SynthHeld
<1>6. /\ old.synthetic \in Nat /\ old.debt \in Nat /\ old.synthetic <= old.debt /\ old.debt < DEBT_U64
      /\ DEBT_U64 \in Nat
  BY <1>5, SynthInputsTyped DEF SynthRecord
<1>7. PICK s \in Nat : s = old.synthetic - amount
  BY <1>4, <1>6
<1>8. PICK d \in Nat : d = Synthetics!Wrapped(old.debt - amount) /\ d = old.debt - amount /\ d < DEBT_U64 /\ s <= d
  <2>1. PICK z \in Nat : z = old.debt - amount /\ z < DEBT_U64 /\ s <= z
    BY <1>4, <1>6, <1>7
  <2>2. Synthetics!Wrapped(z) = z
    BY <2>1, SynthWrapped
  <2>3. QED BY <2>1, <2>2
<1>9. PICK x \in Nat : x = Synthetics!Wrapped(assets[a].supply - amount) /\ x = assets[a].supply - amount /\ x < DEBT_U64
  <2>1. PICK z \in Nat : z = assets[a].supply - amount /\ z < DEBT_U64
    BY <1>1, <1>4, <1>5, <1>6
  <2>2. Synthetics!Wrapped(z) = z
    BY <2>1, SynthWrapped
  <2>3. QED BY <2>1, <2>2
<1>10. PICK y \in Nat : y = Synthetics!Wrapped(assets[a].collateral - collateral)
  <2>1. PICK z \in Int : z = assets[a].collateral - collateral
    BY <1>1 DEF SynthAssets
  <2>2. QED BY <2>1, SynthWrapped
<1>11. PICK had : had = Synthetics!GetOr(old.deposits, token, 0)
  OBVIOUS
<1>12. PICK e : e = IF s = 0 THEN Synthetics!Drop(old.deposits, token)
                    ELSE Synthetics!Put(old.deposits, token, had - collateral)
  OBVIOUS
<1>13. PICK q : q = [old EXCEPT !.synthetic = s, !.debt = d, !.deposits = e]
  OBVIOUS
<1>14. q = [synthetic |-> s, debt |-> d, deposits |-> e, ratio |-> old.ratio]
  <2>1. old = [synthetic |-> old.synthetic, debt |-> old.debt, deposits |-> old.deposits, ratio |-> old.ratio]
    BY <1>5 DEF SynthRecord
  <2>2. QED BY <1>13, <2>1
<1>15. PICK p : p = Synthetics!Rated(q)
  OBVIOUS
<1>16. /\ positions' = [positions EXCEPT ![k] = p]
       /\ assets' = [assets EXCEPT ![a].supply = x, ![a].collateral = y]
       /\ Synthetics!Counted(0, amount, 0)
  <2>1. q = [old EXCEPT !.synthetic = s, !.debt = Synthetics!Wrapped(old.debt - amount), !.deposits = e]
    BY <1>8, <1>13
  <2>2. positions' = [positions EXCEPT ![k] = p]
    BY <1>2, <1>3, <1>7, <1>11, <1>12, <1>15, <2>1 DEF Synthetics!burn_synthetic
  <2>3. assets' = [assets EXCEPT ![a].supply = x, ![a].collateral = y]
    BY <1>9, <1>10 DEF Synthetics!burn_synthetic
  <2>4. QED BY <2>2, <2>3 DEF Synthetics!burn_synthetic
<1>17. /\ SynthRecord(p) /\ p.ratio = Synthetics!calculate_collateral_ratio(p) /\ p.synthetic = s
  BY <1>8, <1>14, <1>15, RatedIs
<1>18. positions' = Put(positions, k, p)
  <2>1. positions = [r \in DOMAIN positions |-> positions[r]]
    BY <1>1 DEF PositionsTyped
  <2>2. DOMAIN positions \cup {k} = DOMAIN positions
    BY <1>4
  <2>3. QED BY <1>16, <2>1, <2>2 DEF Put
<1>19. /\ PositionsTyped(positions')
       /\ SumFunction(SynthIn(positions', a)) = SumFunction(SynthIn(positions, a)) - old.synthetic + s
       /\ \A b : b # a => SynthIn(positions', b) = SynthIn(positions, b)
  BY <1>1, <1>2, <1>5, <1>17, <1>18, PutPosition
<1>20. x = SumFunction(SynthIn(positions', a))
  BY <1>1, <1>5, <1>6, <1>7, <1>9, <1>19
<1>21. assets' = WithSupply(assets, a, x, y)
  BY <1>16 DEF WithSupply
<1>22. \A r \in DOMAIN positions' : r[2] \in DOMAIN assets
  <2>1. DOMAIN positions' = DOMAIN positions \cup {k}
    BY <1>18 DEF Put
  <2>2. QED BY <1>2, <2>1 DEF SynthInv
<1>23. x = assets[a].supply + 0 - amount
  BY <1>1, <1>9
<1>24. QED BY <1>9, <1>16, <1>19, <1>20, <1>21, <1>22, <1>23, SynthMoves

LEMMA LiquidateKeepsSynth ==
  ASSUME SynthInv, NEW u \in Synthetics!Minters, NEW a \in DOMAIN assets, Synthetics!liquidate_position(u, a)
  PROVE  SynthInv'
<1>1. /\ <<u, a>> \in SynthKeys /\ <<u, a>>[2] = a /\ assets[a] \in SynthAssets /\ assets[a].supply \in Nat
      /\ PositionsTyped(positions)
  BY SynthKey DEF SynthInv
<1>2. PICK k \in SynthKeys : k = <<u, a>> /\ k[2] = a
  BY <1>1
<1>3. PICK old : old = positions[k]
  OBVIOUS
<1>4. k \in DOMAIN positions
  BY <1>2 DEF Synthetics!liquidate_position
<1>5. /\ SynthRecord(old) /\ GetOr(SynthIn(positions, a), k, 0) = old.synthetic
      /\ old.synthetic <= assets[a].supply
      /\ assets[a].supply = SumFunction(SynthIn(positions, a)) /\ assets[a].supply < DEBT_U64
  BY <1>2, <1>3, <1>4, SynthHeld
<1>6. PICK burned \in Nat : burned = old.synthetic
  BY <1>5 DEF SynthRecord
<1>7. PICK x \in Nat : x = Synthetics!Wrapped(assets[a].supply - burned) /\ x = assets[a].supply - burned /\ x < DEBT_U64
  <2>1. PICK z \in Nat : z = assets[a].supply - burned /\ z < DEBT_U64
    BY <1>1, <1>5, <1>6, SynthInputsTyped
  <2>2. Synthetics!Wrapped(z) = z
    BY <2>1, SynthWrapped
  <2>3. QED BY <2>1, <2>2
<1>8. PICK y \in Nat : y = Synthetics!Wrapped(assets[a].collateral - old.debt)
  <2>1. PICK z \in Int : z = assets[a].collateral - old.debt
    BY <1>1, <1>5 DEF SynthAssets, SynthRecord
  <2>2. QED BY <2>1, SynthWrapped
<1>9. PICK penalty : penalty = (old.debt * PRICE * SYNTH_PENALTY) \div 10000
  OBVIOUS
<1>10. /\ positions' = Drop(positions, k)
       /\ assets' = [assets EXCEPT ![a].supply = x, ![a].collateral = y]
       /\ Synthetics!Counted(0, burned, penalty)
  <2>1. positions' = Synthetics!Drop(positions, k)
    BY <1>2 DEF Synthetics!liquidate_position
  <2>2. assets' = [assets EXCEPT ![a].supply = x, ![a].collateral = y]
    BY <1>2, <1>3, <1>6, <1>7, <1>8 DEF Synthetics!liquidate_position
  <2>3. Synthetics!Counted(0, burned, penalty)
    BY <1>2, <1>3, <1>6, <1>9 DEF Synthetics!liquidate_position
  <2>4. QED BY <2>1, <2>2, <2>3, SynthMaps
<1>11. /\ PositionsTyped(positions')
       /\ SumFunction(SynthIn(positions', a)) = SumFunction(SynthIn(positions, a)) - old.synthetic
       /\ \A b : b # a => SynthIn(positions', b) = SynthIn(positions, b)
  <2>1. PICK m, less : m = positions /\ less = Drop(m, k)
    OBVIOUS
  <2>2. PositionsTyped(m)
    BY <1>1, <2>1
  <2>3. /\ PositionsTyped(less)
        /\ SumFunction(SynthIn(less, k[2])) = SumFunction(SynthIn(m, k[2])) - GetOr(SynthIn(m, k[2]), k, 0)
        /\ \A b : b # k[2] => SynthIn(less, b) = SynthIn(m, b)
    BY <2>1, <2>2, DropPosition
  <2>4. positions' = less
    BY <1>10, <2>1
  <2>5. QED BY <1>2, <1>5, <2>1, <2>3, <2>4
<1>12. x = SumFunction(SynthIn(positions', a))
  BY <1>5, <1>6, <1>7, <1>11
<1>13. assets' = WithSupply(assets, a, x, y)
  BY <1>10 DEF WithSupply
<1>14. \A r \in DOMAIN positions' : r[2] \in DOMAIN assets
  BY <1>10 DEF SynthInv, Drop
<1>15. x = assets[a].supply + 0 - burned
  BY <1>1, <1>7
<1>16. QED BY <1>7, <1>10, <1>11, <1>12, <1>13, <1>14, <1>15, SynthMoves

LEMMA ListKeepsSynth ==
  ASSUME SynthInv, NEW terms \in AssetTerms, Synthetics!list_asset(terms)
  PROVE  SynthInv'
<1>1. assets \in Seq(SynthAssets)
  BY DEF SynthInv
<1>2. PICK n \in Nat : n = Len(assets) /\ DOMAIN assets = 1 .. n
  BY <1>1
<1>3. PICK r : r = [terms |-> terms, supply |-> 0, collateral |-> 0]
  OBVIOUS
<1>4. r \in SynthAssets /\ r.supply = 0
  <2>1. terms \in SynthTerms
    BY SynthInputsTyped DEF SynthTerms, Synthetics!list_asset
  <2>2. QED BY <1>3, <2>1, SynthInputsTyped DEF SynthAssets
<1>5. assets' = Append(assets, r) /\ positions' = positions /\ protocol' = protocol
  BY <1>3 DEF Synthetics!list_asset
<1>6. /\ assets' \in Seq(SynthAssets) /\ Len(assets') = n + 1 /\ DOMAIN assets' = 1 .. (n + 1)
      /\ assets'[n + 1] = r /\ \A b \in 1 .. n : assets'[b] = assets[b]
  BY <1>1, <1>2, <1>4, <1>5
<1>7. \A b \in DOMAIN assets' : assets'[b].supply = SumFunction(SynthIn(positions', b))
  <2>1. ASSUME NEW b \in 1 .. n PROVE assets'[b].supply = SumFunction(SynthIn(positions', b))
    BY <1>2, <1>5, <1>6, <2>1 DEF SynthInv
  <2>2. SumFunction(SynthIn(positions, n + 1)) = 0
    <3>1. KeysOf(positions, n + 1) = {}
      BY <1>2 DEF SynthInv, KeysOf
    <3>2. DOMAIN SynthIn(positions, n + 1) = {}
      BY <3>1 DEF SynthIn
    <3>3. QED BY <3>2, SumOfNothing
  <2>3. \A b \in 1 .. (n + 1) : b \in 1 .. n \/ b = n + 1
    OBVIOUS
  <2>4. QED BY <1>4, <1>5, <1>6, <2>1, <2>2, <2>3
<1>8. SumTo(Supplies(assets'), Len(assets')) = SumTo(Supplies(assets), Len(assets))
  <2>1. PICK f \in [1 .. n -> Int] : f = Supplies(assets)
    BY <1>1, <1>2, SuppliesTyped
  <2>2. PICK g \in [1 .. (n + 1) -> Int] : g = Supplies(assets')
    BY <1>6, SuppliesTyped
  <2>3. \A b \in 1 .. n : g[b] = f[b]
    BY <1>2, <1>6, <2>1, <2>2 DEF Supplies
  <2>4. g[n + 1] = 0
    BY <1>4, <1>6, <2>2 DEF Supplies
  <2>5. SumTo(g, n + 1) = SumTo(f, n) + g[n + 1]
    BY <2>3, SumToExtended
  <2>6. SumTo(f, n) \in Int
    BY SumToType
  <2>7. QED BY <1>2, <1>6, <2>1, <2>2, <2>4, <2>5, <2>6
<1>9. \A k \in DOMAIN positions' : k[2] \in DOMAIN assets'
  BY <1>2, <1>5, <1>6 DEF SynthInv
<1>10. QED BY <1>5, <1>6, <1>7, <1>8, <1>9 DEF SynthInv

\* What moves neither assets, positions nor what is counted.
LEMMA OthersKeepSynth ==
  ASSUME SynthInv, assets' = assets, positions' = positions, ProtocolTyped(protocol'),
         protocol'.supply = protocol.supply, protocol'.avg_ratio = protocol.avg_ratio
  PROVE  SynthInv'
BY DEF SynthInv

LEMMA SynthStep ==
  ASSUME SynthInv, Synthetics!SynthNext
  PROVE  SynthInv'
<1>0. ProtocolTyped(protocol)
  BY DEF SynthInv
<1>1. ASSUME NEW terms \in AssetTerms, Synthetics!list_asset(terms) PROVE SynthInv'
  BY <1>1, ListKeepsSynth
<1>2. ASSUME NEW u \in Synthetics!Minters, NEW a \in DOMAIN assets, NEW token \in SynthTokens,
             NEW collateral \in SynthCollaterals, NEW amount \in SynthAmounts,
             \/ Synthetics!mint_synthetic(u, a, token, collateral, amount)
             \/ Synthetics!burn_synthetic(u, a, token, collateral, amount)
      PROVE  SynthInv'
  BY <1>2, MintKeepsSynth, BurnKeepsSynth, SynthInputsTyped
<1>3. ASSUME NEW u \in Synthetics!Minters, NEW a \in DOMAIN assets, Synthetics!liquidate_position(u, a)
      PROVE  SynthInv'
  BY <1>3, LiquidateKeepsSynth
<1>4. ASSUME NEW u \in Synthetics!Minters, NEW amount \in SynthStakes,
             Synthetics!stake(u, amount) \/ Synthetics!unstake(u, amount)
      PROVE  SynthInv'
  <2>1. assets' = assets /\ positions' = positions /\ protocol' = protocol
    BY <1>4 DEF Synthetics!stake, Synthetics!unstake
  <2>2. QED BY <1>0, <2>1, OthersKeepSynth
<1>5. ASSUME NEW paused \in BOOLEAN, Synthetics!SetPaused(paused) PROVE SynthInv'
  <2>1. assets' = assets /\ positions' = positions /\ protocol' = [protocol EXCEPT !.paused = paused]
    BY <1>5 DEF Synthetics!SetPaused
  <2>2. /\ ProtocolTyped(protocol') /\ protocol'.supply = protocol.supply
        /\ protocol'.avg_ratio = protocol.avg_ratio
    BY <1>0, <2>1 DEF ProtocolTyped
  <2>3. QED BY <2>1, <2>2, OthersKeepSynth
<1>6. ASSUME NEW risk \in RiskSets, Synthetics!update_risk_params(risk) PROVE SynthInv'
  <2>1. assets' = assets /\ positions' = positions /\ protocol' = [protocol EXCEPT !.risk = risk]
    BY <1>6 DEF Synthetics!update_risk_params
  <2>2. /\ ProtocolTyped(protocol') /\ protocol'.supply = protocol.supply
        /\ protocol'.avg_ratio = protocol.avg_ratio
    BY <1>0, <2>1 DEF ProtocolTyped
  <2>3. QED BY <2>1, <2>2, OthersKeepSynth
<1>7. ASSUME Synthetics!SynthElapse PROVE SynthInv'
  <2>1. assets' = assets /\ positions' = positions /\ protocol' = protocol
    BY <1>7 DEF Synthetics!SynthElapse
  <2>2. QED BY <1>0, <2>1, OthersKeepSynth
<1>8. QED BY <1>1, <1>2, <1>3, <1>4, <1>5, <1>6, <1>7 DEF Synthetics!SynthNext

LEMMA SynthInitial ==
  ASSUME Synthetics!SynthInit
  PROVE  SynthInv
<1>1. assets = <<>> /\ positions = EmptyMap
  BY SynthMaps DEF Synthetics!SynthInit
<1>2. DOMAIN positions = {} /\ positions = [k \in DOMAIN positions |-> positions[k]]
  BY <1>1 DEF EmptyMap
<1>3. PositionsTyped(positions)
  BY <1>2, FS_EmptySet DEF PositionsTyped
<1>4. assets \in Seq(SynthAssets) /\ Len(assets) = 0 /\ DOMAIN assets = {}
  BY <1>1
<1> PICK fees : fees = [total |-> 0, stakers |-> 0, treasury |-> 0]
  OBVIOUS
<1>5. PICK risk \in RiskSets :
        protocol = [risk |-> risk, paused |-> FALSE, fees |-> fees, supply |-> 0, avg_ratio |-> 0]
  <2>1. protocol \in [risk : RiskSets, paused : {FALSE}, fees : {fees}, supply : {0}, avg_ratio : {0}]
    BY DEF Synthetics!SynthInit
  <2>2. PICK risk \in RiskSets : risk = protocol.risk
    BY <2>1
  <2>3. protocol = [risk |-> risk, paused |-> FALSE, fees |-> fees, supply |-> 0, avg_ratio |-> 0]
    BY <2>1, <2>2
  <2>4. QED BY <2>3
<1>6. ProtocolTyped(protocol) /\ protocol.supply = 0
  BY <1>5 DEF ProtocolTyped
<1>7. SumTo(Supplies(assets), 0) = 0
  <2>1. PICK f \in [1 .. 0 -> Int] : f = Supplies(assets)
    BY <1>4, SuppliesTyped
  <2>2. \A i \in 1 .. 0 : f[i] = 0
    OBVIOUS
  <2>3. QED BY <2>1, <2>2, SumToZero
<1>8. 0 % DEBT_U64 = 0
  <2>1. PICK w \in Nat : w = DEBT_U64 /\ w > 0
    BY SynthInputsTyped
  <2>2. QED BY <2>1, WithinTheWidth
<1>9. QED BY <1>1, <1>2, <1>3, <1>4, <1>6, <1>7, <1>8 DEF SynthInv

LEMMA SuppliesDoAddUp == SynthInv => Synthetics!SupplyIsHeld
<1> SUFFICES ASSUME SynthInv PROVE Synthetics!SupplyIsHeld
  OBVIOUS
<1>0. PositionsTyped(positions)
  BY DEF SynthInv
<1>1. PICK f : f = [k \in DOMAIN positions |-> positions[k].synthetic]
  OBVIOUS
<1>2. ASSUME NEW a \in DOMAIN assets
      PROVE  assets[a].supply = Synthetics!SumFunctionOnSet(f, Synthetics!PositionsOf(a))
  <2>1. PICK S : S = KeysOf(positions, a)
    OBVIOUS
  <2>2. Synthetics!PositionsOf(a) = S
    BY <2>1 DEF Synthetics!PositionsOf, KeysOf
  <2>3. SumFunctionOnSet(f, S) = SumFunction(SynthIn(positions, a))
    BY <1>0, <1>1, <2>1, SynthSums
  <2>4. Synthetics!SumFunctionOnSet(f, S) = SumFunctionOnSet(f, S)
    BY SynthMaps
  <2>5. QED BY <2>2, <2>3, <2>4 DEF SynthInv
<1>3. protocol.supply = Synthetics!Wrapped(Synthetics!SumTo([a \in DOMAIN assets |-> assets[a].supply], Len(assets)))
  <2>1. PICK g : g = Supplies(assets)
    OBVIOUS
  <2>2. g = [a \in DOMAIN assets |-> assets[a].supply]
    BY <2>1 DEF Supplies
  <2>3. Synthetics!SumTo(g, Len(assets)) = SumTo(g, Len(assets))
    BY SynthMaps
  <2>4. QED BY <2>1, <2>2, <2>3 DEF SynthInv, Synthetics!Wrapped
<1>4. ASSUME NEW k \in DOMAIN positions
      PROVE  /\ 0 <= positions[k].synthetic /\ positions[k].synthetic <= positions[k].debt
             /\ positions[k].ratio = Synthetics!calculate_collateral_ratio(positions[k])
  BY <1>0 DEF PositionsTyped, SynthRecord
<1>5. positions # Synthetics!EmptyMap =>
        protocol.avg_ratio = Synthetics!SumFunction([k \in DOMAIN positions |-> positions[k].ratio])
                               \div Synthetics!Cardinality(DOMAIN positions)
  <2>1. PICK g : g = RatiosOf(positions)
    OBVIOUS
  <2>2. g = [k \in DOMAIN positions |-> positions[k].ratio]
    BY <2>1 DEF RatiosOf
  <2>3. Synthetics!SumFunction(g) = SumFunction(g) /\ Synthetics!EmptyMap = EmptyMap
    BY SynthMaps
  <2>4. Synthetics!Cardinality(DOMAIN positions) = Cardinality(DOMAIN positions)
    BY DEF Synthetics!Cardinality, Cardinality
  <2>5. QED BY <2>1, <2>2, <2>3, <2>4 DEF SynthInv
<1>6. QED BY <1>1, <1>2, <1>3, <1>4, <1>5 DEF Synthetics!SupplyIsHeld

-----------------------------------------------------------------------------
(* What the books of each contract say together.                            *)

LEMMA PoolIsCovered == PoolInv => Pool!PositionsCoverLiquidity
BY SoundPoolFits, CoveredMeans DEF PoolInv, SoundPool, Pool!PositionsCoverLiquidity, Pool!PoolTypeOK

LEMMA SimIsCovered == SimInv => Sim!SimCovered
BY SoundPoolFits, CoveredMeans, SimTypes DEF SimInv, SoundPool, Sim!SimCovered

LEMMA CoinInvariance == Spec => []CoinInv
<1>1. Init => CoinInv
  BY StartsOfEach, CoinInitial
<1>2. CoinInv /\ [Next]_vars => CoinInv'
  <2>1. ASSUME CoinInv, UNCHANGED coinVars PROVE CoinInv'
    BY <2>1 DEF CoinInv, coinVars
  <2>2. QED BY <2>1, StepsOfEach, CoinStep
<1>3. QED BY <1>1, <1>2, PTL DEF Spec

LEMMA SynthInvariance == Spec => []SynthInv
<1>1. Init => SynthInv
  BY StartsOfEach, SynthInitial
<1>2. SynthInv /\ [Next]_vars => SynthInv'
  <2>1. ASSUME SynthInv, UNCHANGED synthVars PROVE SynthInv'
    BY <2>1 DEF SynthInv, synthVars
  <2>2. QED BY <2>1, StepsOfEach, SynthStep
<1>3. QED BY <1>1, <1>2, PTL DEF Spec

(* The books of each contract agree with one another, whatever was called:    *)
(* no liquidity without a holder in either pool, the vault's totals and the   *)
(* token's supply are those of the accounts, the stability pool's deposits    *)
(* are its depositors', the stablecoins that circulate are the debts of the   *)
(* vaults as the width of the counters shows them, and the synthetic supply   *)
(* is what the positions issued.                                              *)
THEOREM BooksAlwaysAgree == Spec => []BooksAgree
<1>1. PoolInv /\ SimInv /\ VaultInv /\ LpInv /\ StabInv /\ CoinInv /\ SynthInv => BooksAgree
  BY PoolIsCovered, SimIsCovered, VaultIsSound, LpIsHeld, DepositsDoAddUp, CoinsDoBalance, SuppliesDoAddUp
     DEF BooksAgree
<1>2. QED
  BY <1>1, PoolInvariance, SimInvariance, VaultInvariance, LpInvariance, StabInvariance,
     CoinInvariance, SynthInvariance, PTL

-----------------------------------------------------------------------------
(* The analytics of a position: divisions that truncate, roots by Newton's   *)
(* method, and the worst return there was.                                   *)

(* A division that truncates towards zero never grows what it divides.       *)
LEMMA TruncatedIs ==
  ASSUME NEW x \in Int, NEW y \in Nat \ {0}
  PROVE  /\ Analytics!Truncated(x, y) \in Int
         /\ x >= 0 => Analytics!Truncated(x, y) >= 0 /\ Analytics!Truncated(x, y) * y <= x
         /\ x < 0 => Analytics!Truncated(x, y) <= 0 /\ (-Analytics!Truncated(x, y)) * y <= -x
<1>1. CASE x >= 0
  <2>1. PICK q \in Nat : q = x \div y /\ q * y <= x
    BY <1>1, QuotientBounds
  <2>2. Analytics!Truncated(x, y) = q
    BY <1>1, <2>1 DEF Analytics!Truncated
  <2>3. QED BY <1>1, <2>1, <2>2
<1>2. CASE x < 0
  <2>1. PICK z \in Nat : z = -x
    BY <1>2
  <2>2. PICK q \in Nat : q = z \div y /\ q * y <= z
    BY QuotientBounds
  <2>3. Analytics!Truncated(x, y) = -q
    BY <1>2, <2>1, <2>2 DEF Analytics!Truncated
  <2>4. -(-q) = q /\ -q <= 0 /\ -q \in Int
    OBVIOUS
  <2>5. QED BY <1>2, <2>1, <2>2, <2>3, <2>4
<1>3. QED BY <1>1, <1>2

LEMMA TruncatedGrows ==
  ASSUME NEW x \in Int, NEW z \in Int, NEW y \in Nat \ {0}, x <= z
  PROVE  Analytics!Truncated(x, y) <= Analytics!Truncated(z, y)
<1>1. CASE x >= 0
  <2>1. x \div y <= z \div y
    BY <1>1, QuotientGrows
  <2>2. QED BY <1>1, <2>1 DEF Analytics!Truncated
<1>2. CASE x < 0 /\ z >= 0
  <2>1. PICK s \in Int, t \in Int : /\ s = Analytics!Truncated(x, y) /\ t = Analytics!Truncated(z, y)
                                    /\ s <= 0 /\ t >= 0
    BY <1>2, TruncatedIs
  <2>2. QED BY <2>1
<1>3. CASE z < 0
  <2>1. PICK a \in Nat, b \in Nat : a = -x /\ b = -z /\ b <= a
    BY <1>3
  <2>2. PICK p \in Nat, q \in Nat : p = a \div y /\ q = b \div y /\ q <= p
    BY <2>1, QuotientGrows, QuotientBounds
  <2>3. Analytics!Truncated(x, y) = -p /\ Analytics!Truncated(z, y) = -q
    BY <1>3, <2>1, <2>2 DEF Analytics!Truncated
  <2>4. -p <= -q
    BY <2>2
  <2>5. QED BY <2>3, <2>4
<1>4. QED BY <1>1, <1>2, <1>3

\* Where Newton's method goes from x.
NewtonStep(n, x) == (x + (n \div x)) \div 2

\* The recursion of isqrt, up to m.
IsNewton(d, n, m) ==
  /\ d = [x \in 0 .. m |-> d[x]]
  /\ \A x \in 0 .. m : d[x] = IF x > 0 /\ NewtonStep(n, x) < x THEN d[NewtonStep(n, x)] ELSE x

LEMMA NewtonStepIs ==
  ASSUME NEW n \in Nat, NEW x \in Nat, x > 0
  PROVE  NewtonStep(n, x) \in Nat
<1>1. PICK q \in Nat : q = n \div x
  BY QuotientBounds
<1>2. (x + q) \div 2 \in Nat
  OBVIOUS
<1>3. QED BY <1>1, <1>2 DEF NewtonStep

LEMMA NewtonExists ==
  ASSUME NEW n \in Nat
  PROVE  \E d : IsNewton(d, n, n)
<1> DEFINE Bad == {m \in 0 .. n : ~ \E d : IsNewton(d, n, m)}
<1>1. SUFFICES ASSUME Bad # {} PROVE FALSE
  <2>1. n \notin Bad => \E d : IsNewton(d, n, n)
    OBVIOUS
  <2>2. QED BY <2>1
<1>2. PICK m \in Bad : \A y \in Bad : m <= y
  <2>1. Bad \in SUBSET Nat
    OBVIOUS
  <2> HIDE DEF Bad
  <2>2. QED BY <1>1, <2>1, LeastElement
<1>3. m \in Nat /\ m <= n
  BY <1>2
<1>4. CASE m = 0
  <2>1. PICK e : e = [x \in 0 .. m |-> 0]
    OBVIOUS
  <2>2. IsNewton(e, n, m)
    BY <1>4, <2>1 DEF IsNewton
  <2>3. QED BY <1>2, <2>2
<1>5. CASE m # 0
  <2>1. PICK k \in Nat : k = m - 1
    BY <1>3, <1>5
  <2>2. k \in 0 .. n /\ k \notin Bad /\ m = k + 1
    BY <1>2, <1>3, <2>1
  <2>3. PICK d : IsNewton(d, n, k)
    BY <2>2
  <2>4. PICK v : v = IF NewtonStep(n, m) < m THEN d[NewtonStep(n, m)] ELSE m
    OBVIOUS
  <2>5. PICK e : e = [x \in 0 .. m |-> IF x = m THEN v ELSE d[x]]
    OBVIOUS
  <2>6. e = [x \in 0 .. m |-> e[x]]
    BY <2>5
  <2>7. ASSUME NEW x \in 0 .. m
        PROVE  e[x] = IF x > 0 /\ NewtonStep(n, x) < x THEN e[NewtonStep(n, x)] ELSE x
    <3>1. CASE x = m
      <4>1. NewtonStep(n, m) \in Nat
        BY <1>3, <1>5, NewtonStepIs
      <4>2. NewtonStep(n, m) < m => NewtonStep(n, m) \in 0 .. m /\ NewtonStep(n, m) # m
        BY <1>3, <4>1
      <4>3. NewtonStep(n, m) < m => e[NewtonStep(n, m)] = d[NewtonStep(n, m)]
        BY <2>5, <4>2
      <4>4. e[x] = v
        BY <2>5, <3>1
      <4>5. m > 0
        BY <1>3, <1>5
      <4>6. QED BY <2>4, <3>1, <4>3, <4>4, <4>5
    <3>2. CASE x # m
      <4>1. x \in 0 .. k /\ x \in Nat
        BY <2>2, <3>2
      <4>2. d[x] = IF x > 0 /\ NewtonStep(n, x) < x THEN d[NewtonStep(n, x)] ELSE x
        BY <2>3, <4>1 DEF IsNewton
      <4>3. x > 0 /\ NewtonStep(n, x) < x => NewtonStep(n, x) \in 0 .. m /\ NewtonStep(n, x) # m
        <5>1. x > 0 => NewtonStep(n, x) \in Nat
          BY <4>1, NewtonStepIs
        <5>2. QED BY <1>3, <5>1
      <4>4. x > 0 /\ NewtonStep(n, x) < x => e[NewtonStep(n, x)] = d[NewtonStep(n, x)]
        BY <2>5, <4>3
      <4>5. e[x] = d[x]
        BY <2>5, <3>2
      <4>6. QED BY <4>2, <4>4, <4>5
    <3>3. QED BY <3>1, <3>2
  <2>8. IsNewton(e, n, m)
    BY <2>6, <2>7 DEF IsNewton
  <2>9. QED BY <1>2, <2>8
<1>6. QED BY <1>4, <1>5

LEMMA NewtonIs ==
  ASSUME NEW n \in Nat
  PROVE  \E d : IsNewton(d, n, n) /\ Analytics!isqrt(n) = d[n]
<1> DEFINE Rec(g) == [x \in 0 .. n |->
                        IF x > 0 /\ (x + (n \div x)) \div 2 < x THEN g[(x + (n \div x)) \div 2] ELSE x]
           p == CHOOSE g : g = Rec(g)
<1>1. PICK d : IsNewton(d, n, n)
  BY NewtonExists
<1>2. d = Rec(d)
  BY <1>1 DEF IsNewton, NewtonStep
<1>3. p = Rec(p)
  BY <1>2
<1>4. Analytics!isqrt(n) = p[n]
  BY DEF Analytics!isqrt
<1> HIDE DEF p
<1>5. IsNewton(p, n, n)
  BY <1>3 DEF IsNewton, NewtonStep
<1>6. QED BY <1>4, <1>5

(* Of two naturals with a sum, the product is largest when they are equal.   *)
LEMMA MeanProduct ==
  ASSUME NEW a \in Nat, NEW b \in Nat, NEW s \in Nat, a + b <= 2 * s
  PROVE  a * b <= s * s
<1>1. ASSUME NEW x \in Nat, NEW y \in Nat, x + y <= 2 * s, x <= s PROVE x * y <= s * s
  <2>1. PICK d \in Nat : d = s - x
    BY <1>1
  <2>2. x = s - d /\ y <= s + d
    BY <1>1, <2>1
  <2>3. x * y <= x * (s + d)
    BY <2>2, ProductGrows
  <2>4. x * (s + d) = s * s - d * d
    BY <2>2
  <2>5. d * d \in Nat /\ s * s \in Nat /\ x * y \in Nat
    BY ProductIsNat
  <2>6. QED BY <2>3, <2>4, <2>5
<1>2. CASE a <= s
  BY <1>1, <1>2
<1>3. CASE s < a
  <2>1. b <= s /\ b + a <= 2 * s
    BY <1>3
  <2>2. b * a <= s * s
    BY <1>1, <2>1
  <2>3. b * a = a * b
    OBVIOUS
  <2>4. QED BY <2>2, <2>3
<1>4. QED BY <1>2, <1>3

(* A step of Newton's method never goes below the root.                      *)
LEMMA NewtonStaysAbove ==
  ASSUME NEW n \in Nat, NEW x \in Nat, x > 0
  PROVE  n < (NewtonStep(n, x) + 1) * (NewtonStep(n, x) + 1)
<1>1. PICK q \in Nat : q = n \div x /\ n < (q + 1) * x
  BY QuotientBounds
<1>2. PICK y \in Nat : y = (x + q) \div 2 /\ x + q < 2 * (y + 1)
  OBVIOUS
<1>3. PICK s \in Nat, c \in Nat : s = y + 1 /\ c = q + 1
  OBVIOUS
<1>4. c + x <= 2 * s
  BY <1>2, <1>3
<1>5. c * x <= s * s
  BY <1>4, MeanProduct
<1>6. n < s * s
  <2>1. c * x \in Nat /\ s * s \in Nat /\ n < c * x
    BY <1>1, <1>3, ProductIsNat
  <2>2. QED BY <1>5, <2>1
<1>7. NewtonStep(n, x) + 1 = s
  BY <1>1, <1>2, <1>3 DEF NewtonStep
<1>8. QED BY <1>6, <1>7

(* Newton's method ends at the root.                                         *)
LEMMA RootIs ==
  ASSUME NEW n \in Nat
  PROVE  /\ Analytics!isqrt(n) \in Nat
         /\ Analytics!isqrt(n) * Analytics!isqrt(n) <= n
         /\ n < (Analytics!isqrt(n) + 1) * (Analytics!isqrt(n) + 1)
<1>1. PICK d : IsNewton(d, n, n) /\ Analytics!isqrt(n) = d[n]
  BY NewtonIs
<1> DEFINE Found(r) == r \in Nat /\ r * r <= n /\ n < (r + 1) * (r + 1)
           Bad == {x \in 0 .. n : n < (x + 1) * (x + 1) /\ ~Found(d[x])}
<1>2. ASSUME Bad # {} PROVE FALSE
  <2>1. PICK m \in Bad : \A y \in Bad : m <= y
    <3>1. Bad \in SUBSET Nat
      OBVIOUS
    <3> HIDE DEF Bad
    <3>2. QED BY <1>2, <3>1, LeastElement
  <2>2. m \in Nat /\ m \in 0 .. n /\ n < (m + 1) * (m + 1) /\ ~Found(d[m])
    BY <2>1
  <2>3. d[m] = IF m > 0 /\ NewtonStep(n, m) < m THEN d[NewtonStep(n, m)] ELSE m
    BY <1>1, <2>2 DEF IsNewton
  <2>4. CASE m > 0 /\ NewtonStep(n, m) < m
    <3>1. PICK y \in Nat : y = NewtonStep(n, m)
      BY <2>2, <2>4, NewtonStepIs
    <3>2. n < (y + 1) * (y + 1)
      BY <2>2, <2>4, <3>1, NewtonStaysAbove
    <3>3. y \in 0 .. n /\ ~(m <= y)
      BY <2>2, <2>4, <3>1
    <3>4. y \notin Bad
      <4> HIDE DEF Bad
      <4>1. QED BY <2>1, <3>3
    <3>5. Found(d[y])
      <4> HIDE DEF Found
      <4>1. QED BY <3>2, <3>3, <3>4
    <3>6. d[m] = d[y]
      BY <2>3, <2>4, <3>1
    <3> HIDE DEF Found
    <3>7. QED BY <2>2, <3>5, <3>6
  <2>5. CASE ~(m > 0 /\ NewtonStep(n, m) < m)
    <3>1. d[m] = m
      BY <2>3, <2>5
    <3>2. m * m <= n
      <4>1. CASE m = 0
        BY <4>1
      <4>2. CASE m # 0
        <5>1. PICK q \in Nat : q = n \div m /\ q * m <= n
          BY <2>2, <4>2, QuotientBounds
        <5>2. ~((m + q) \div 2 < m)
          BY <2>2, <2>5, <4>2, <5>1 DEF NewtonStep
        <5>3. m <= q
          BY <2>2, <5>2
        <5>4. m * m <= q * m
          BY <2>2, <5>3, ProductGrows
        <5>5. m * m \in Nat /\ q * m \in Nat
          BY <2>2, ProductIsNat
        <5>6. QED BY <5>1, <5>4, <5>5
      <4>3. QED BY <4>1, <4>2
    <3>3. Found(m)
      BY <2>2, <3>2
    <3> HIDE DEF Found
    <3>4. QED BY <2>2, <3>1, <3>3
  <2>6. QED BY <2>4, <2>5
<1>3. n < (n + 1) * (n + 1)
  <2>1. (n + 1) * (n + 1) = n * n + n + n + 1 /\ n * n \in Nat
    BY ProductIsNat
  <2>2. QED BY <2>1
<1>4. Found(d[n])
  <2> HIDE DEF Found
  <2>1. n \notin Bad /\ n \in 0 .. n
    BY <1>2
  <2>2. QED BY <1>3, <2>1
<1>5. QED BY <1>1, <1>4

(* Returns whose squares make up for their sum leave no negative variance.   *)
LEMMA VarianceIs ==
  ASSUME NEW s \in Int, NEW q \in Nat, NEW n \in Nat \ {0}, s * s <= n * q
  PROVE  Analytics!Variance(s, q, n) \in Nat
<1>1. PICK t \in Int : t = Analytics!Truncated(s, n)
  BY TruncatedIs
<1>2. PICK a \in Nat, b \in Nat : a * a = t * t /\ b * b = s * s /\ a * n <= b
  <2>1. CASE s >= 0
    <3>1. t \in Nat /\ s \in Nat /\ t * n <= s
      BY <1>1, <2>1, TruncatedIs
    <3>2. QED BY <3>1
  <2>2. CASE s < 0
    <3>1. PICK a \in Nat, b \in Nat : a = -t /\ b = -s
      BY <1>1, <2>2, TruncatedIs
    <3>2. a * n <= b
      BY <1>1, <2>2, <3>1, TruncatedIs
    <3>3. a * a = t * t /\ b * b = s * s
      BY <3>1
    <3>4. QED BY <3>2, <3>3
  <2>3. QED BY <2>1, <2>2
<1>3. PICK c \in Nat, e \in Nat : c = a * n /\ e = a * a
  BY ProductIsNat
<1>4. c * c <= b * b
  BY <1>2, <1>3, Products
<1>5. c * c = (e * n) * n /\ n * q = q * n
  BY <1>3
<1>6. (e * n) * n <= q * n
  <2>1. c * c \in Nat /\ b * b \in Nat /\ q * n \in Nat
    BY ProductIsNat
  <2>2. QED BY <1>2, <1>4, <1>5, <2>1
<1>7. e * n <= q
  <2>1. PICK f \in Nat : f = e * n
    BY ProductIsNat
  <2>2. QED BY <1>6, <2>1, ProductCancels
<1>8. PICK k \in Nat : k = q \div n /\ q < (k + 1) * n
  BY QuotientBounds
<1>9. e <= k
  <2>1. SUFFICES ASSUME k + 1 <= e PROVE FALSE
    OBVIOUS
  <2>2. (k + 1) * n <= e * n
    BY <2>1, ProductGrows
  <2>3. (k + 1) * n \in Nat /\ e * n \in Nat
    BY ProductIsNat
  <2>4. QED BY <1>7, <1>8, <2>2, <2>3
<1>10. Analytics!Variance(s, q, n) = k - e
  BY <1>1, <1>2, <1>3, <1>8 DEF Analytics!Variance
<1>11. QED BY <1>9, <1>10

(* One more return leaves the sum within what the squares make up for.       *)
LEMMA SquaresMakeUp ==
  ASSUME NEW s \in Int, NEW q \in Nat, NEW n \in Nat, NEW r \in Int, s * s <= n * q
  PROVE  (s + r) * (s + r) <= (n + 1) * (q + r * r)
<1>1. PICK z \in Nat, t \in Nat : z = r * r /\ t = s * s
  <2>1. \A x \in Int : x * x \in Nat
    OBVIOUS
  <2>2. QED BY <2>1
<1>2. PICK w \in Int, m \in Nat, v \in Nat : w = s * r /\ m = n * q /\ v = n * z
  BY ProductIsNat
<1>3. (s + r) * (s + r) = t + 2 * w + z
  BY <1>1, <1>2
<1>4. (n + 1) * (q + z) = m + v + q + z
  BY <1>2
<1>5. 2 * w <= v + q
  <2>1. CASE n = 0
    <3>1. t = 0
      BY <1>1, <2>1
    <3>2. s = 0
      BY <1>1, <3>1
    <3>3. w = 0
      BY <1>2, <3>2
    <3>4. QED BY <3>3
  <2>2. CASE n # 0
    <3>1. SUFFICES ASSUME v + q + 1 <= 2 * w PROVE FALSE
      OBVIOUS
    <3>2. w \in Nat
      BY <3>1
    <3>3. n * (v + q + 1) <= n * (2 * w)
      BY <3>1, <3>2, ProductGrows
    <3>4. PICK x \in Int : x = n * r
      OBVIOUS
    <3>5. PICK y \in Nat, u \in Int, g \in Nat, h \in Int : y = x * x /\ u = s * x /\ g = n * v /\ h = n * w
      <4>1. \A i \in Int : i * i \in Nat
        OBVIOUS
      <4>2. QED BY <4>1
    <3>6. y = g
      BY <1>1, <1>2, <3>4, <3>5
    <3>7. u = h
      BY <1>2, <3>4, <3>5
    <3>8. n * (v + q + 1) = g + m + n /\ n * (2 * w) = 2 * h
      BY <1>2, <3>5
    <3>9. 2 * u <= t + y
      <4>1. PICK i \in Int : i = s - x
        OBVIOUS
      <4>2. i * i = t + y - 2 * u
        BY <1>1, <3>5, <4>1
      <4>3. i * i >= 0
        OBVIOUS
      <4>4. QED BY <4>2, <4>3
    <3>10. t <= m
      BY <1>1, <1>2
    <3>11. QED BY <2>2, <3>3, <3>6, <3>7, <3>8, <3>9, <3>10
  <2>3. QED BY <2>1, <2>2
<1>6. t <= m
  BY <1>1, <1>2
<1>7. QED BY <1>1, <1>3, <1>4, <1>5, <1>6

\* What the return is at a price.
ReturnAt(r, price) ==
  Analytics!Truncated(Analytics!Truncated((price - r.entry) * r.size, PRICE_UNIT) * 10000, r.stake)

AnlRecords ==
  [entry : Nat, current : Nat, size : Nat, stake : Nat, pnl : Int, roi : Int, drawdown : Int,
   sum : Int, squares : Nat, samples : Nat, sharpe : Int, days : Int, updated : Nat]

\* The drawdown is that of the lowest price, and the squares make up for the sum.
Tells(r, low) ==
  /\ r.drawdown = IF r.stake > 0 THEN Analytics!WorseOf(0, -ReturnAt(r, low)) ELSE 0
  /\ r.roi >= -r.drawdown
  /\ r.stake = 0 => r.roi = 0
  /\ r.sum * r.sum <= r.samples * r.squares

AnlInv ==
  /\ anl_now \in Nat
  /\ anl # Analytics!NoRecord => anl \in AnlRecords /\ lowest \in Nat /\ Tells(anl, lowest)

LEMMA AnlInputsTyped ==
  /\ AnlPrices \subseteq Nat /\ Sizes \subseteq Nat /\ Stakes \subseteq Nat
  /\ PRICE_UNIT \in Nat \ {0} /\ AnlDay \in Nat \ {0}
BY AnalyticsInputs DEF Analytics!PositionAnalyticsAssumption

LEMMA ReturnGrows ==
  ASSUME NEW r \in AnlRecords, r.stake > 0, NEW p \in Nat, NEW q \in Nat, p <= q
  PROVE  ReturnAt(r, p) \in Int /\ ReturnAt(r, q) \in Int /\ ReturnAt(r, p) <= ReturnAt(r, q)
<1>1. PICK e \in Nat, s \in Nat, k \in Nat \ {0}, u \in Nat \ {0} :
        e = r.entry /\ s = r.size /\ k = r.stake /\ u = PRICE_UNIT
  BY AnlInputsTyped DEF AnlRecords
<1>2. PICK x \in Int, y \in Int : x = (p - e) * s /\ y = (q - e) * s
  OBVIOUS
<1>3. x <= y
  <2>1. PICK d \in Nat : d = q - p
    OBVIOUS
  <2>2. y = x + d * s /\ d * s \in Nat
    BY <1>2, <2>1, ProductIsNat
  <2>3. QED BY <2>2
<1>4. PICK v \in Int, w \in Int : v = Analytics!Truncated(x, u) /\ w = Analytics!Truncated(y, u) /\ v <= w
  BY <1>3, TruncatedIs, TruncatedGrows
<1>5. PICK a \in Int, b \in Int : a = v * 10000 /\ b = w * 10000 /\ a <= b
  BY <1>4
<1>6. /\ Analytics!Truncated(a, k) \in Int /\ Analytics!Truncated(b, k) \in Int
      /\ Analytics!Truncated(a, k) <= Analytics!Truncated(b, k)
  BY <1>5, TruncatedIs, TruncatedGrows
<1>7. ReturnAt(r, p) = Analytics!Truncated(a, k) /\ ReturnAt(r, q) = Analytics!Truncated(b, k)
  BY <1>1, <1>2, <1>4, <1>5 DEF ReturnAt
<1>8. QED BY <1>6, <1>7

LEMMA ReturnSame ==
  ASSUME NEW r, NEW s, r.entry = s.entry, r.size = s.size, r.stake = s.stake, NEW p
  PROVE  ReturnAt(r, p) = ReturnAt(s, p)
BY DEF ReturnAt

(* The drawdown stays that of the lowest price.                              *)
LEMMA WorstStays ==
  ASSUME NEW r \in AnlRecords, NEW low \in Nat, Tells(r, low), NEW price \in Nat, NEW roi \in Int,
         roi = IF r.stake > 0 THEN ReturnAt(r, price) ELSE r.roi,
         NEW least \in Nat, least = IF price < low THEN price ELSE low
  PROVE  /\ Analytics!WorseOf(r.drawdown, -roi) \in Int
         /\ Analytics!WorseOf(r.drawdown, -roi) =
              IF r.stake > 0 THEN Analytics!WorseOf(0, -ReturnAt(r, least)) ELSE 0
         /\ roi >= -Analytics!WorseOf(r.drawdown, -roi)
<1>1. PICK d \in Int : d = r.drawdown
  BY DEF AnlRecords
<1>2. CASE r.stake > 0
  <2>1. PICK a \in Int, b \in Int, c \in Int :
          /\ a = ReturnAt(r, low) /\ b = ReturnAt(r, price) /\ c = ReturnAt(r, least)
          /\ c = IF price < low THEN b ELSE a
    BY <1>2, ReturnGrows
  <2>2. price < low => b <= a
    BY <1>2, <2>1, ReturnGrows
  <2>3. low <= price => a <= b
    BY <1>2, <2>1, ReturnGrows
  <2>4. d = Analytics!WorseOf(0, -a) /\ roi = b
    BY <1>1, <1>2, <2>1 DEF Tells
  <2>5. (price < low /\ c = b /\ b <= a) \/ (~(price < low) /\ c = a /\ a <= b)
    BY <2>1, <2>2, <2>3
  <2>6. /\ Analytics!WorseOf(d, -b) \in Int /\ Analytics!WorseOf(d, -b) = Analytics!WorseOf(0, -c)
        /\ b >= -Analytics!WorseOf(d, -b)
    BY <2>4, <2>5 DEF Analytics!WorseOf
  <2>7. QED BY <1>1, <1>2, <2>1, <2>4, <2>6
<1>3. CASE ~(r.stake > 0)
  <2>1. r.stake = 0 /\ r.roi = 0 /\ r.drawdown = 0
    BY <1>3 DEF Tells, AnlRecords
  <2>2. roi = 0
    BY <1>3, <2>1
  <2>3. -roi = 0
    BY <2>2
  <2>4. Analytics!WorseOf(r.drawdown, -roi) = 0
    BY <2>1, <2>3 DEF Analytics!WorseOf
  <2>5. QED BY <1>3, <2>2, <2>4
<1>4. QED BY <1>2, <1>3

LEMMA SeedIsTold ==
  ASSUME NEW price \in AnlPrices, NEW size \in Sizes, NEW stake \in Stakes, AnlInv,
         Analytics!seed(price, size, stake)
  PROVE  AnlInv'
<1>1. price \in Nat /\ size \in Nat /\ stake \in Nat /\ anl_now \in Nat
  BY AnlInputsTyped DEF AnlInv
<1>2. PICK r : r = [entry |-> price, current |-> price, size |-> size, stake |-> stake, pnl |-> 0, roi |-> 0,
                    drawdown |-> 0, sum |-> 0, squares |-> 0, samples |-> 0, sharpe |-> 0, days |-> 0,
                    updated |-> anl_now]
  OBVIOUS
<1>3. anl' = r /\ lowest' = price /\ anl_now' = anl_now
  BY <1>2 DEF Analytics!seed
<1>4. r \in AnlRecords
  BY <1>1, <1>2 DEF AnlRecords
<1>5. r.stake > 0 => ReturnAt(r, price) = 0
  <2>1. PICK u \in Nat \ {0} : u = PRICE_UNIT
    BY AnlInputsTyped
  <2>2. ASSUME stake > 0 PROVE ReturnAt(r, price) = 0
    <3>1. \A n \in Nat \ {0} : Analytics!Truncated(0, n) = 0
      <4>1. ASSUME NEW n \in Nat \ {0} PROVE Analytics!Truncated(0, n) = 0
        <5>1. PICK q \in Nat : q = 0 \div n /\ q * n <= 0
          BY QuotientBounds
        <5>2. q = 0
          BY <5>1
        <5>3. QED BY <5>1, <5>2 DEF Analytics!Truncated
      <4>2. QED BY <4>1
    <3>2. (price - price) * size = 0 /\ 0 * 10000 = 0
      BY <1>1
    <3>3. Analytics!Truncated(Analytics!Truncated((price - price) * size, u) * 10000, stake) = 0
      BY <1>1, <2>2, <3>1, <3>2
    <3>4. QED BY <1>2, <2>1, <3>3 DEF ReturnAt
  <2>3. r.stake = stake
    BY <1>2
  <2>4. QED BY <2>2, <2>3
<1>6. Tells(r, price)
  <2>1. r.stake > 0 => Analytics!WorseOf(0, -ReturnAt(r, price)) = 0
    BY <1>5 DEF Analytics!WorseOf
  <2>2. r.drawdown = 0 /\ r.roi = 0 /\ r.sum = 0 /\ r.squares = 0 /\ r.samples = 0
    BY <1>2
  <2>3. QED BY <2>1, <2>2 DEF Tells
<1>7. QED BY <1>1, <1>3, <1>4, <1>6 DEF AnlInv

\* A return counts when the price moved, and was not zero.
Sampled(r, price) == r.current > 0 /\ r.current # price

LEMMA SharpeIsInt ==
  ASSUME NEW s \in Int, NEW q \in Nat, NEW n \in Nat \ {0}, anl \in AnlRecords
  PROVE  Analytics!Sharpe(s, q, n) \in Int
<1>1. CASE n >= 2 /\ Analytics!Variance(s, q, n) > 0
  <2>1. PICK t \in Int, k \in Nat : t = Analytics!Truncated(s, n) /\ k = q \div n
    BY TruncatedIs, QuotientBounds
  <2>2. PICK v \in Int : v = Analytics!Variance(s, q, n) /\ v = k - t * t
    BY <2>1 DEF Analytics!Variance
  <2>3. PICK w \in Nat \ {0} : w = v
    BY <1>1, <2>2
  <2>4. PICK root \in Nat : root = Analytics!isqrt(w) /\ w < (root + 1) * (root + 1)
    BY RootIs
  <2>5. root # 0
    BY <2>3, <2>4
  <2>6. PICK a \in Int : a = t * 10000
    OBVIOUS
  <2>7. Analytics!Truncated(a, root) \in Int
    BY <2>5, TruncatedIs
  <2>8. Analytics!Sharpe(s, q, n) = Analytics!Truncated(a, root)
    BY <1>1, <2>1, <2>2, <2>3, <2>4, <2>6 DEF Analytics!Sharpe
  <2>9. QED BY <2>7, <2>8
<1>2. CASE ~(n >= 2 /\ Analytics!Variance(s, q, n) > 0)
  <2>1. anl.sharpe \in Int
    BY DEF AnlRecords
  <2>2. QED BY <1>2, <2>1 DEF Analytics!Sharpe
<1>3. QED BY <1>1, <1>2

LEMMA UpdateIsTold ==
  ASSUME NEW price \in AnlPrices, AnlInv, Analytics!update_analytics(price)
  PROVE  AnlInv'
<1>1. /\ anl \in AnlRecords /\ lowest \in Nat /\ Tells(anl, lowest) /\ anl_now \in Nat /\ price \in Nat
      /\ anl_now' = anl_now
  BY AnlInputsTyped DEF AnlInv, Analytics!update_analytics
<1>3. PICK return : return = Analytics!Truncated((price - anl.current) * 10000, anl.current)
  OBVIOUS
<1>4. Sampled(anl, price) => return \in Int
  <2>1. PICK c \in Nat : c = anl.current
    BY <1>1 DEF AnlRecords
  <2>2. PICK x \in Int : x = (price - c) * 10000
    BY <1>1
  <2>3. Sampled(anl, price) => c # 0
    BY <2>1 DEF Sampled
  <2>4. c # 0 => Analytics!Truncated(x, c) \in Int
    BY TruncatedIs
  <2>5. QED BY <1>3, <2>1, <2>2, <2>3, <2>4
<1>5. PICK pnl \in Int : pnl = Analytics!Pnl(price)
  <2>1. PICK x \in Int : x = (price - anl.entry) * anl.size
    BY <1>1 DEF AnlRecords
  <2>2. Analytics!Truncated(x, PRICE_UNIT) \in Int
    BY AnlInputsTyped, TruncatedIs
  <2>3. QED BY <2>1, <2>2 DEF Analytics!Pnl
<1>6. PICK roi \in Int : roi = Analytics!Roi(price) /\ roi = IF anl.stake > 0 THEN ReturnAt(anl, price) ELSE anl.roi
  <2>1. Analytics!Roi(price) = IF anl.stake > 0 THEN ReturnAt(anl, price) ELSE anl.roi
    BY DEF Analytics!Roi, Analytics!Pnl, ReturnAt
  <2>2. anl.stake > 0 => ReturnAt(anl, price) \in Int
    BY <1>1, ReturnGrows
  <2>3. anl.roi \in Int
    BY <1>1 DEF AnlRecords
  <2>4. QED BY <2>1, <2>2, <2>3
<1>7. PICK least \in Nat : least = IF price < lowest THEN price ELSE lowest
  BY <1>1
<1>8. PICK d \in Int : /\ d = Analytics!WorseOf(anl.drawdown, -roi) /\ roi >= -d
                       /\ d = IF anl.stake > 0 THEN Analytics!WorseOf(0, -ReturnAt(anl, least)) ELSE 0
  BY <1>1, <1>6, <1>7, WorstStays
<1>9. PICK s \in Int, q \in Nat, n \in Nat :
        /\ s = IF Sampled(anl, price) THEN anl.sum + return ELSE anl.sum
        /\ q = IF Sampled(anl, price) THEN anl.squares + return * return ELSE anl.squares
        /\ n = IF Sampled(anl, price) THEN anl.samples + 1 ELSE anl.samples
        /\ s * s <= n * q
  <2>1. PICK a \in Int, b \in Nat, m \in Nat : a = anl.sum /\ b = anl.squares /\ m = anl.samples /\ a * a <= m * b
    BY <1>1 DEF AnlRecords, Tells
  <2>2. CASE Sampled(anl, price)
    <3>1. return \in Int
      BY <1>4, <2>2
    <3>2. (a + return) * (a + return) <= (m + 1) * (b + return * return)
      BY <2>1, <3>1, SquaresMakeUp
    <3>3. PICK z \in Nat : z = return * return
      <4>1. \A i \in Int : i * i \in Nat
        OBVIOUS
      <4>2. QED BY <3>1, <4>1
    <3>4. PICK s \in Int, q \in Nat, n \in Nat : s = a + return /\ q = b + z /\ n = m + 1
      BY <3>1
    <3>5. s * s <= n * q
      BY <3>2, <3>3, <3>4
    <3>6. QED BY <2>1, <2>2, <3>3, <3>4, <3>5
  <2>3. CASE ~Sampled(anl, price)
    BY <2>1, <2>3
  <2>4. QED BY <2>2, <2>3
<1>10. PICK h \in Int : h = IF Sampled(anl, price) THEN Analytics!Sharpe(s, q, n) ELSE anl.sharpe
  <2>1. anl.sharpe \in Int /\ anl.samples \in Nat
    BY <1>1 DEF AnlRecords
  <2>2. Sampled(anl, price) => n \in Nat \ {0}
    BY <1>9, <2>1
  <2>3. Sampled(anl, price) => Analytics!Sharpe(s, q, n) \in Int
    BY <1>1, <2>2, SharpeIsInt
  <2>4. QED BY <2>1, <2>3
<1>11. PICK y \in Int : y = (anl_now - anl.updated) \div AnlDay
  <2>1. PICK z \in Int, k \in Nat \ {0} : z = anl_now - anl.updated /\ k = AnlDay
    BY <1>1, AnlInputsTyped DEF AnlRecords
  <2>2. z \div k \in Int
    OBVIOUS
  <2>3. QED BY <2>1, <2>2
<1>12. PICK r : r = [anl EXCEPT !.pnl = pnl, !.roi = roi, !.drawdown = d, !.sum = s, !.squares = q, !.samples = n,
                                !.sharpe = h, !.current = price, !.days = y, !.updated = anl_now]
  OBVIOUS
<1>13. anl' = r
  <2>1. anl' = [anl EXCEPT !.pnl = Analytics!Pnl(price), !.roi = Analytics!Roi(price),
                  !.drawdown = Analytics!WorseOf(anl.drawdown, -Analytics!Roi(price)),
                  !.sum = IF Sampled(anl, price) THEN anl.sum + return ELSE anl.sum,
                  !.squares = IF Sampled(anl, price) THEN anl.squares + return * return ELSE anl.squares,
                  !.samples = IF Sampled(anl, price) THEN anl.samples + 1 ELSE anl.samples,
                  !.sharpe = IF Sampled(anl, price) THEN Analytics!Sharpe(anl.sum + return, anl.squares + return * return,
                                                               anl.samples + 1) ELSE anl.sharpe,
                  !.current = price, !.days = (anl_now - anl.updated) \div AnlDay, !.updated = anl_now]
    BY <1>3 DEF Analytics!update_analytics, Sampled
  <2>2. Sampled(anl, price) => Analytics!Sharpe(anl.sum + return, anl.squares + return * return, anl.samples + 1)
                     = Analytics!Sharpe(s, q, n)
    BY <1>9
  <2>3. QED BY <1>5, <1>6, <1>8, <1>9, <1>10, <1>11, <1>12, <2>1, <2>2
<1>14. r \in AnlRecords
  BY <1>1, <1>12 DEF AnlRecords
<1>15. /\ r.drawdown = d /\ r.roi = roi /\ r.sum = s /\ r.squares = q /\ r.samples = n
       /\ r.entry = anl.entry /\ r.size = anl.size /\ r.stake = anl.stake
  BY <1>1, <1>12 DEF AnlRecords
<1>16. ReturnAt(r, least) = ReturnAt(anl, least)
  BY <1>15, ReturnSame
<1>17. r.stake = 0 => roi = 0
  BY <1>1, <1>6, <1>15 DEF Tells
<1>18. Tells(r, least)
  BY <1>8, <1>9, <1>15, <1>16, <1>17 DEF Tells
<1>19. lowest' = least
  BY <1>7 DEF Analytics!update_analytics
<1>20. QED BY <1>1, <1>13, <1>14, <1>18, <1>19 DEF AnlInv

LEMMA AnlStep ==
  ASSUME AnlInv, Analytics!AnlNext
  PROVE  AnlInv'
<1>1. ASSUME NEW price \in AnlPrices, NEW size \in Sizes, NEW stake \in Stakes,
             Analytics!seed(price, size, stake)
      PROVE  AnlInv'
  BY <1>1, SeedIsTold
<1>2. ASSUME NEW price \in AnlPrices, Analytics!update_analytics(price) PROVE AnlInv'
  BY <1>2, UpdateIsTold
<1>3. ASSUME Analytics!finalise PROVE AnlInv'
  <2>1. anl \in AnlRecords /\ lowest \in Nat /\ Tells(anl, lowest) /\ anl_now \in Nat
    BY <1>3 DEF AnlInv, Analytics!finalise
  <2>2. PICK y \in Int : y = (anl_now - anl.updated) \div AnlDay
    <3>1. PICK z \in Int, k \in Nat \ {0} : z = anl_now - anl.updated /\ k = AnlDay
      BY <2>1, AnlInputsTyped DEF AnlRecords
    <3>2. z \div k \in Int
      OBVIOUS
    <3>3. QED BY <3>1, <3>2
  <2>3. PICK r : r = [anl EXCEPT !.days = y, !.updated = anl_now]
    OBVIOUS
  <2>4. anl' = r /\ lowest' = lowest /\ anl_now' = anl_now
    BY <1>3, <2>2, <2>3 DEF Analytics!finalise
  <2>5. r \in AnlRecords
    BY <2>1, <2>2, <2>3 DEF AnlRecords
  <2>6. /\ r.drawdown = anl.drawdown /\ r.roi = anl.roi /\ r.sum = anl.sum /\ r.squares = anl.squares
        /\ r.samples = anl.samples /\ r.entry = anl.entry /\ r.size = anl.size /\ r.stake = anl.stake
    BY <2>1, <2>3 DEF AnlRecords
  <2>7. Tells(r, lowest)
    BY <2>1, <2>6, ReturnSame DEF Tells
  <2>8. QED BY <2>1, <2>4, <2>5, <2>7 DEF AnlInv
<1>4. ASSUME Analytics!AnlElapse PROVE AnlInv'
  BY <1>4 DEF AnlInv, Analytics!AnlElapse, Tells, ReturnAt
<1>5. QED BY <1>1, <1>2, <1>3, <1>4 DEF Analytics!AnlNext

LEMMA AnlInitial == Analytics!AnlInit => AnlInv
BY DEF Analytics!AnlInit, AnlInv

LEMMA DrawdownIsTold == AnlInv => Analytics!DrawdownIsWorst
<1> SUFFICES ASSUME AnlInv, anl # Analytics!NoRecord PROVE Analytics!DrawdownIsWorst
  BY DEF Analytics!DrawdownIsWorst
<1>1. anl \in AnlRecords /\ lowest \in Nat /\ Tells(anl, lowest)
  BY DEF AnlInv
<1>2. anl.drawdown = IF anl.stake > 0 THEN Analytics!WorseOf(0, -ReturnAt(anl, lowest)) ELSE 0
  BY <1>1 DEF Tells
<1>3. anl.roi >= -anl.drawdown
  BY <1>1 DEF Tells
<1>4. PICK v : v = Analytics!Variance(anl.sum, anl.squares, anl.samples)
  OBVIOUS
<1>5. anl.samples > 0 => v \in Nat
  <2>1. PICK s \in Int, q \in Nat, n \in Nat : s = anl.sum /\ q = anl.squares /\ n = anl.samples /\ s * s <= n * q
    BY <1>1 DEF AnlRecords, Tells
  <2>2. n # 0 => Analytics!Variance(s, q, n) \in Nat
    BY <2>1, VarianceIs
  <2>3. QED BY <1>4, <2>1, <2>2
<1>6. PICK root : root = Analytics!isqrt(v)
  OBVIOUS
<1>7. anl.samples > 0 => v >= 0 /\ root * root <= v /\ v < (root + 1) * (root + 1)
  BY <1>5, <1>6, RootIs
<1>8. QED BY <1>2, <1>3, <1>4, <1>6, <1>7 DEF Analytics!DrawdownIsWorst, ReturnAt

LEMMA AnlInvariance == Spec => []AnlInv
<1>1. Init => AnlInv
  BY StartsOfEach, AnlInitial
<1>2. AnlInv /\ [Next]_vars => AnlInv'
  <2>1. ASSUME AnlInv, UNCHANGED anlVars PROVE AnlInv'
    BY <2>1 DEF AnlInv, anlVars, Tells, ReturnAt
  <2>2. QED BY <2>1, StepsOfEach, AnlStep
<1>3. QED BY <1>1, <1>2, PTL DEF Spec

(* Alerts of one kind are spaced as configured, and the analytics of a        *)
(* position tell the truth: its maximum drawdown is the loss at the lowest    *)
(* price there ever was, whatever prices came in since, the variance of its   *)
(* returns is never negative, and Newton's method ends at the root of it.     *)
THEOREM PositionsStayWatched == Spec => []PositionsAreWatched
<1>1. PmInv /\ AnlInv => PositionsAreWatched
  BY AlertsAreSpaced, DrawdownIsTold DEF PositionsAreWatched
<1>2. QED BY <1>1, PmInvariance, AnlInvariance, PTL
=============================================================================
