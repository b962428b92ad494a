----------------------------- MODULE SumLemmas -----------------------------
(***************************************************************************)
(* What the totals of Sums obey. The library's induction theorems take an  *)
(* operator, so each induction here is made with a set of counterexamples  *)
(* that has a least element (WFMin).                                       *)
(***************************************************************************)
EXTENDS Maps, Functions, TLAPS, WellFoundedInduction, FiniteSetTheorems, SequenceTheorems

(* Every non-empty set of naturals has a least element. *)
LEMMA LeastElement ==
  \A T \in SUBSET Nat : T # {} => \E m \in T : \A y \in T : m <= y
<1> TAKE T \in SUBSET Nat
<1> HAVE T # {}
<1>1. IsWellFoundedOn(OpToRel(<, Nat), Nat)
  BY NatLessThanWellFounded
<1>2. PICK m \in T : \A y \in T : ~(<<y, m>> \in OpToRel(<, Nat))
  BY <1>1, WFMin, Zenon
<1>3. \A y \in T : ~(y < m)
  BY <1>2 DEF OpToRel
<1>4. QED
  BY <1>3

IsPartialSums(acc, f, n) ==
  /\ acc \in [0..n -> Int]
  /\ acc[0] = 0
  /\ \A i \in 1..n : acc[i] = acc[i - 1] + f[i]

(* Some function satisfies the recursion, for every length. *)
LEMMA PartialSumsExist ==
  ASSUME NEW n \in Nat, NEW f \in [1..n -> Int]
  PROVE  \E acc : IsPartialSums(acc, f, n)
<1> DEFINE Bad == {m \in 0..n : ~ \E acc : IsPartialSums(acc, f, m)}
<1>1. SUFFICES ASSUME Bad # {} PROVE FALSE
  <2>1. n \notin Bad => \E acc : IsPartialSums(acc, f, n)
    OBVIOUS
  <2>2. QED BY <2>1
<1>2. PICK m \in Bad : \A y \in Bad : m <= y
  <2>1. Bad \in SUBSET Nat
    OBVIOUS
  <2> HIDE DEF Bad
  <2>2. QED BY <1>1, <2>1, LeastElement
<1>3. CASE m = 0
  <2>1. IsPartialSums([i \in 0..0 |-> 0], f, 0)
    BY DEF IsPartialSums
  <2>2. QED BY <1>3, <2>1
<1>4. CASE m # 0
  <2>1. m \in 1..n /\ m - 1 \in 0..n /\ m - 1 \notin Bad
    BY <1>2, <1>4
  <2>2. PICK acc : IsPartialSums(acc, f, m - 1)
    BY <2>1
  <2> DEFINE next == [i \in 0..m |-> IF i = m THEN acc[m - 1] + f[m] ELSE acc[i]]
  <2>3. IsPartialSums(next, f, m)
    BY <2>1, <2>2 DEF IsPartialSums
  <2>4. QED BY <2>3
<1>5. QED BY <1>3, <1>4

LEMMA PartialSumsUnique ==
  ASSUME NEW n \in Nat, NEW f, NEW a, NEW b,
         IsPartialSums(a, f, n), IsPartialSums(b, f, n)
  PROVE  a = b
<1> DEFINE Bad == {m \in 0..n : a[m] # b[m]}
<1>1. ASSUME Bad # {} PROVE FALSE
  <2>1. PICK m \in Bad : \A y \in Bad : m <= y
    <3>1. Bad \in SUBSET Nat
      OBVIOUS
    <3> HIDE DEF Bad
    <3>2. QED BY <1>1, <3>1, LeastElement
  <2>2. m # 0
    BY DEF IsPartialSums
  <2>3. m - 1 \in 0..n /\ m - 1 \notin Bad /\ m \in 1..n
    BY <2>1, <2>2
  <2>4. QED BY <2>3 DEF IsPartialSums
<1>2. \A m \in 0..n : a[m] = b[m]
  BY <1>1
<1>3. QED BY <1>2 DEF IsPartialSums

LEMMA PartialSumsDef ==
  ASSUME NEW n \in Nat, NEW f \in [1..n -> Int]
  PROVE  IsPartialSums(PartialSums(f, n), f, n)
<1> DEFINE Rec(g) == [i \in 0..n |-> IF i = 0 THEN 0 ELSE g[i - 1] + f[i]]
<1>1. PICK acc : IsPartialSums(acc, f, n)
  BY PartialSumsExist
<1>2. acc = Rec(acc)
  BY <1>1 DEF IsPartialSums
<1> DEFINE p == CHOOSE g : g = Rec(g)
<1>3. p = Rec(p)
  BY <1>2
<1>4. PartialSums(f, n) = p
  BY DEF PartialSums
<1>5. p \in [0..n -> Int]
  <2> DEFINE Bad == {m \in 0..n : p[m] \notin Int}
  <2> HIDE DEF p
  <2>1. ASSUME Bad # {} PROVE FALSE
    <3>1. PICK m \in Bad : \A y \in Bad : m <= y
      <4>1. Bad \in SUBSET Nat
        OBVIOUS
      <4> HIDE DEF Bad
      <4>2. QED BY <2>1, <4>1, LeastElement
    <3>2. m # 0
      BY <1>3
    <3>3. m - 1 \in 0..n /\ m - 1 \notin Bad /\ m \in 1..n
      BY <3>1, <3>2
    <3>4. QED BY <3>3, <1>3
  <2>2. QED BY <2>1, <1>3
<1>6. QED
  <2> HIDE DEF p
  <2>1. QED BY <1>3, <1>4, <1>5 DEF IsPartialSums

(* A total is an integer. *)
LEMMA SumToType ==
  ASSUME NEW n \in Nat, NEW f \in [1..n -> Int]
  PROVE  SumTo(f, n) \in Int
BY PartialSumsDef DEF SumTo, IsPartialSums

(* The total of balances that are all zero is zero. *)
LEMMA SumToZero ==
  ASSUME NEW n \in Nat, NEW f \in [1..n -> Int], \A u \in 1..n : f[u] = 0
  PROVE  SumTo(f, n) = 0
<1>1. IsPartialSums([i \in 0..n |-> 0], f, n)
  BY DEF IsPartialSums
<1>2. PartialSums(f, n) = [i \in 0..n |-> 0]
  BY <1>1, PartialSumsDef, PartialSumsUnique
<1>3. QED BY <1>2 DEF SumTo

(* Changing one balance changes the total by the difference. *)
LEMMA SumToUpdate ==
  ASSUME NEW n \in Nat, NEW f \in [1..n -> Int], NEW u \in 1..n, NEW v \in Int
  PROVE  SumTo([f EXCEPT ![u] = v], n) = SumTo(f, n) - f[u] + v
<1> DEFINE g == [f EXCEPT ![u] = v]
           p == PartialSums(f, n)
           q == [i \in 0..n |-> IF i < u THEN p[i] ELSE p[i] - f[u] + v]
<1>1. IsPartialSums(p, f, n)
  BY PartialSumsDef
<1>2. g \in [1..n -> Int]
  OBVIOUS
<1>3. IsPartialSums(q, g, n)
  <2>1. q \in [0..n -> Int] /\ q[0] = 0
    BY <1>1 DEF IsPartialSums
  <2>2. ASSUME NEW i \in 1..n PROVE q[i] = q[i - 1] + g[i]
    <3>1. /\ i \in 0..n /\ i - 1 \in 0..n
          /\ p[i] = p[i - 1] + f[i] /\ p[i - 1] \in Int /\ p[i] \in Int
          /\ f[i] \in Int /\ f[u] \in Int
      BY <1>1 DEF IsPartialSums
    <3> HIDE DEF p
    <3>2. CASE i < u   BY <3>1, <3>2
    <3>3. CASE i = u   BY <3>1, <3>3
    <3>4. CASE i > u   BY <3>1, <3>4
    <3>5. QED BY <3>2, <3>3, <3>4
  <2>3. QED BY <2>1, <2>2 DEF IsPartialSums
<1>4. PartialSums(g, n) = q
  BY <1>2, <1>3, PartialSumsDef, PartialSumsUnique
<1>5. q[n] = p[n] - f[u] + v
  OBVIOUS
<1>6. QED BY <1>4, <1>5 DEF SumTo

LEMMA ScaledSum ==
  ASSUME NEW x \in Int, NEW y \in Int, NEW u \in Int, NEW v \in Int,
         NEW a \in Int, NEW b \in Int,
         x * b <= y * a, u * b <= v * a
  PROVE  (x + u) * b <= (y + v) * a
<1>1. (x + u) * b = x * b + u * b /\ (y + v) * a = y * a + v * a
  OBVIOUS
<1>2. /\ x * b \in Int /\ u * b \in Int /\ y * a \in Int /\ v * a \in Int
  OBVIOUS
<1>3. QED BY <1>1, <1>2

(* If every g[u] * b is at most f[u] * a, so are the totals. *)
LEMMA SumToScaled ==
  ASSUME NEW n \in Nat, NEW f \in [1..n -> Int], NEW g \in [1..n -> Int],
         NEW a \in Int, NEW b \in Int,
         \A u \in 1..n : g[u] * b <= f[u] * a
  PROVE  SumTo(g, n) * b <= SumTo(f, n) * a
<1> DEFINE p == PartialSums(f, n)
           q == PartialSums(g, n)
           Bad == {m \in 0..n : ~ (q[m] * b <= p[m] * a)}
<1>1. IsPartialSums(p, f, n) /\ IsPartialSums(q, g, n)
  BY PartialSumsDef
<1> HIDE DEF p, q
<1>2. ASSUME Bad # {} PROVE FALSE
  <2>1. PICK m \in Bad : \A y \in Bad : m <= y
    <3>1. Bad \in SUBSET Nat
      OBVIOUS
    <3> HIDE DEF Bad
    <3>2. QED BY <1>2, <3>1, LeastElement
  <2>2. m # 0
    BY <1>1 DEF IsPartialSums
  <2>3. m - 1 \in 0..n /\ m - 1 \notin Bad /\ m \in 1..n
    BY <2>1, <2>2
  <2>4. /\ q[m - 1] * b <= p[m - 1] * a
        /\ q[m] = q[m - 1] + g[m] /\ p[m] = p[m - 1] + f[m]
        /\ q[m - 1] \in Int /\ p[m - 1] \in Int /\ g[m] \in Int /\ f[m] \in Int
        /\ g[m] * b <= f[m] * a
    BY <2>3, <1>1 DEF IsPartialSums
  <2>5. q[m] * b <= p[m] * a
    <3>1. (q[m - 1] + g[m]) * b <= (p[m - 1] + f[m]) * a
      BY <2>4, ScaledSum, Zenon
    <3>2. QED BY <2>4, <3>1
  <2>6. QED BY <2>5
<1>3. q[n] * b <= p[n] * a
  <2>1. n \notin Bad
    BY <1>2
  <2>2. QED BY <2>1
<1>4. QED BY <1>3 DEF SumTo, p, q

(* Non-negative balances have a non-negative total, and none exceeds it. *)
LEMMA SumToBounds ==
  ASSUME NEW n \in Nat, NEW f \in [1..n -> Nat]
  PROVE  SumTo(f, n) \in Nat /\ \A u \in 1..n : f[u] <= SumTo(f, n)
<1> DEFINE p == PartialSums(f, n)
           Bad == {m \in 0..n : ~ (p[m] >= 0 /\ \A u \in 1..m : f[u] <= p[m])}
<1>1. IsPartialSums(p, f, n)
  BY PartialSumsDef
<1> HIDE DEF p
<1>2. ASSUME Bad # {} PROVE FALSE
  <2>1. PICK m \in Bad : \A y \in Bad : m <= y
    <3>1. Bad \in SUBSET Nat
      OBVIOUS
    <3> HIDE DEF Bad
    <3>2. QED BY <1>2, <3>1, LeastElement
  <2>2. m # 0
    BY <1>1 DEF IsPartialSums
  <2>3. m - 1 \in 0..n /\ m - 1 \notin Bad /\ m \in 1..n
    BY <2>1, <2>2
  <2>4. /\ p[m - 1] >= 0 /\ \A u \in 1..(m - 1) : f[u] <= p[m - 1]
        /\ p[m] = p[m - 1] + f[m] /\ f[m] \in Nat /\ p[m - 1] \in Int
    BY <2>3, <1>1 DEF IsPartialSums
  <2>5. p[m] >= 0 /\ \A u \in 1..m : f[u] <= p[m]
    BY <2>4
  <2>6. QED BY <2>5
<1>3. p[n] >= 0 /\ p[n] \in Int /\ \A u \in 1..n : f[u] <= p[n]
  <2>1. n \notin Bad
    BY <1>2
  <2>2. QED BY <2>1, <1>1 DEF IsPartialSums
<1>4. QED BY <1>3 DEF SumTo, p

-----------------------------------------------------------------------------
(* Sums over a finite set, as SumFunction of the community modules takes them: *)
(* one element after another. They exist and are ordered like their terms, by  *)
(* the least size of a set for which they would not be.                        *)

\* The element a sum over the set s takes first.
First(s) == CHOOSE x \in s : TRUE

\* acc holds the sum of f over every set of F that is reached from it by taking
\* one element after another.
IsSums(acc, f, F) ==
  /\ acc \in [F -> Int]
  /\ \A s \in F : acc[s] = IF s = {} THEN 0 ELSE f[First(s)] + acc[s \ {First(s)}]

LEMMA FirstIsMember ==
  ASSUME NEW s, s # {}
  PROVE  First(s) \in s
BY DEF First

LEMMA WithoutFirst ==
  ASSUME NEW s, IsFiniteSet(s), s # {}
  PROVE  /\ IsFiniteSet(s \ {First(s)})
         /\ Cardinality(s) \in Nat
         /\ Cardinality(s \ {First(s)}) = Cardinality(s) - 1
         /\ Cardinality(s) # 0
BY FirstIsMember, FS_RemoveElement, FS_CardinalityType, FS_EmptySet

LEMMA SumsExist ==
  ASSUME NEW S, IsFiniteSet(S), NEW f, \A x \in S : f[x] \in Int
  PROVE  \E acc : IsSums(acc, f, SUBSET S)
<1> DEFINE Small(n) == {s \in SUBSET S : Cardinality(s) <= n}
           Bad == {n \in Nat : ~ \E acc : IsSums(acc, f, Small(n))}
<1>0. \A s \in SUBSET S : IsFiniteSet(s) /\ Cardinality(s) \in Nat
  BY FS_Subset, FS_CardinalityType
<1>1. ASSUME Bad # {} PROVE FALSE
  <2>1. PICK m \in Bad : \A y \in Bad : m <= y
    <3>1. Bad \in SUBSET Nat
      OBVIOUS
    <3> HIDE DEF Bad
    <3>2. QED BY <1>1, <3>1, LeastElement
  <2>2. CASE m = 0
    <3>1. Small(0) = {{}}
      BY <1>0, FS_EmptySet
    <3>2. IsSums([s \in {{}} |-> 0], f, {{}})
      BY DEF IsSums
    <3> HIDE DEF Small
    <3>3. \E acc : IsSums(acc, f, Small(0))
      BY <3>1, <3>2
    <3>4. QED BY <2>1, <2>2, <3>3
  <2>3. CASE m # 0
    <3>0. m \in Nat /\ \A y \in Bad : m <= y
      BY <2>1
    <3>1. m - 1 \in Nat /\ m - 1 \notin Bad
      <4> HIDE DEF Bad
      <4>1. QED BY <2>3, <3>0
    <3>2. PICK acc : IsSums(acc, f, Small(m - 1))
      <4> HIDE DEF Small
      <4>1. QED BY <3>1
    <3> DEFINE next == [s \in Small(m) |->
                          IF s = {} THEN 0 ELSE f[First(s)] + acc[s \ {First(s)}]]
    <3>3. ASSUME NEW s \in Small(m), s # {}
          PROVE  /\ s \ {First(s)} \in Small(m - 1)
                 /\ First(s) \in S
      <4>1. s \in SUBSET S /\ Cardinality(s) \in Nat /\ Cardinality(s) <= m
        BY <1>0
      <4>2. Cardinality(s \ {First(s)}) = Cardinality(s) - 1
        BY <1>0, <3>3, <4>1, WithoutFirst
      <4>3. QED BY <3>0, <3>1, <3>3, <4>1, <4>2, FirstIsMember
    <3>4. \A s \in Small(m - 1) : s \in Small(m) /\ next[s] = acc[s]
      <4>1. TAKE s \in Small(m - 1)
      <4>2. s \in Small(m)
        BY <1>0, <3>0, <3>1
      <4>3. QED BY <3>2, <4>2 DEF IsSums
    <3>5. IsSums(next, f, Small(m))
      <4>1. next \in [Small(m) -> Int]
        <5>1. ASSUME NEW s \in Small(m), s # {}
              PROVE  f[First(s)] + acc[s \ {First(s)}] \in Int
          BY <3>2, <3>3, <5>1 DEF IsSums
        <5>2. ASSUME NEW s \in Small(m) PROVE next[s] \in Int
          <6>1. next[s] = IF s = {} THEN 0 ELSE f[First(s)] + acc[s \ {First(s)}]
            BY DEF Small
          <6> HIDE DEF next, Small
          <6>2. QED BY <5>1, <6>1
        <5> HIDE DEF Small
        <5>3. \A s \in Small(m) : next[s] \in Int
          BY <5>2
        <5>4. next = [s \in Small(m) |-> next[s]]
          OBVIOUS
        <5> HIDE DEF next
        <5>5. QED BY <5>3, <5>4
      <4>2. ASSUME NEW s \in Small(m), s # {}
            PROVE  next[s \ {First(s)}] = acc[s \ {First(s)}]
        BY <3>3, <3>4, <4>2
      <4>3. ASSUME NEW s \in Small(m)
            PROVE  next[s] = IF s = {} THEN 0 ELSE f[First(s)] + next[s \ {First(s)}]
        <5> HIDE DEF Small
        <5>1. QED BY <4>2
      <4> HIDE DEF Small, next
      <4>4. QED BY <4>1, <4>3 DEF IsSums
    <3> HIDE DEF next
    <3>6. QED BY <2>1, <3>5
  <2>4. QED BY <2>2, <2>3
<1>2. Cardinality(S) \in Nat /\ Small(Cardinality(S)) = SUBSET S
  BY <1>0, FS_CardinalityType, FS_Subset
<1>3. \E acc : IsSums(acc, f, Small(Cardinality(S)))
  BY <1>1, <1>2
<1> HIDE DEF Small
<1>4. QED BY <1>2, <1>3

LEMMA SumsDef ==
  ASSUME NEW S, IsFiniteSet(S), NEW f, \A x \in S : f[x] \in Int
  PROVE  \E acc : IsSums(acc, f, SUBSET S) /\ SumFunctionOnSet(f, S) = acc[S]
<1> DEFINE Rec(g) == [s \in SUBSET S |->
                        IF s = {} THEN 0 ELSE f[First(s)] + g[s \ {First(s)}]]
           p == CHOOSE g : g = Rec(g)
<1>1. PICK acc : IsSums(acc, f, SUBSET S)
  BY SumsExist
<1>2. acc = Rec(acc)
  BY <1>1 DEF IsSums
<1>3. p = Rec(p)
  BY <1>2
<1>4. SumFunctionOnSet(f, S) = p[S]
  BY DEF SumFunctionOnSet, FoldFunctionOnSet, MapThenFoldSet, First
<1>5. IsSums(p, f, SUBSET S)
  <2>1. p = Rec(p)
    BY <1>3
  <2> HIDE DEF p
  <2>2. \A s \in SUBSET S : p[s] = acc[s]
    <3> DEFINE Bad == {n \in Nat : \E s \in SUBSET S : Cardinality(s) = n /\ p[s] # acc[s]}
    <3>1. \A s \in SUBSET S : IsFiniteSet(s) /\ Cardinality(s) \in Nat
      BY FS_Subset, FS_CardinalityType
    <3>2. ASSUME Bad # {} PROVE FALSE
      <4>1. PICK m \in Bad : \A y \in Bad : m <= y
        <5>1. Bad \in SUBSET Nat
          OBVIOUS
        <5> HIDE DEF Bad
        <5>2. QED BY <3>2, <5>1, LeastElement
      <4>2. PICK s \in SUBSET S : Cardinality(s) = m /\ p[s] # acc[s]
        BY <4>1
      <4>3. s # {}
        BY <1>1, <2>1, <4>2 DEF IsSums
      <4> DEFINE less == s \ {First(s)}
      <4>4. less \in SUBSET S /\ Cardinality(less) = m - 1
        BY <3>1, <4>2, <4>3, WithoutFirst
      <4>5. m - 1 \in Nat /\ m - 1 \notin Bad
        BY <3>1, <4>1, <4>4
      <4>6. p[less] = acc[less]
        BY <4>4, <4>5
      <4>7. QED BY <1>1, <2>1, <4>2, <4>3, <4>6 DEF IsSums
    <3>3. QED BY <3>1, <3>2
  <2>3. p = [s \in SUBSET S |-> p[s]] /\ acc = [s \in SUBSET S |-> acc[s]]
    BY <1>2, <2>1
  <2>4. p = acc
    BY <2>2, <2>3
  <2>5. QED BY <1>1, <2>4
<1>6. QED BY <1>4, <1>5

(* The recursion has one solution. *)
LEMMA SumsUnique ==
  ASSUME NEW S, IsFiniteSet(S), NEW f, NEW p, NEW q,
         IsSums(p, f, SUBSET S), IsSums(q, f, SUBSET S)
  PROVE  p[S] = q[S]
<1> DEFINE Bad == {n \in Nat : \E s \in SUBSET S : Cardinality(s) = n /\ p[s] # q[s]}
<1>1. \A s \in SUBSET S : IsFiniteSet(s) /\ Cardinality(s) \in Nat
  BY FS_Subset, FS_CardinalityType
<1>2. ASSUME Bad # {} PROVE FALSE
  <2>1. PICK m \in Bad : \A y \in Bad : m <= y
    <3>1. Bad \in SUBSET Nat
      OBVIOUS
    <3> HIDE DEF Bad
    <3>2. QED BY <1>2, <3>1, LeastElement
  <2>2. PICK s \in SUBSET S : Cardinality(s) = m /\ p[s] # q[s]
    BY <2>1
  <2>3. s # {}
    BY <2>2 DEF IsSums
  <2> DEFINE less == s \ {First(s)}
  <2>4. less \in SUBSET S /\ Cardinality(less) = m - 1
    BY <1>1, <2>2, <2>3, WithoutFirst
  <2>5. m - 1 \in Nat /\ m - 1 \notin Bad
    BY <1>1, <2>1, <2>4
  <2>6. p[less] = q[less]
    BY <2>4, <2>5
  <2>7. QED BY <2>2, <2>3, <2>6 DEF IsSums
<1>3. QED BY <1>1, <1>2

(* A sum is an integer, and larger terms make a larger sum. *)
LEMMA SumOnSetMonotone ==
  ASSUME NEW S, IsFiniteSet(S), NEW f, NEW g,
         \A x \in S : f[x] \in Int /\ g[x] \in Int /\ f[x] <= g[x]
  PROVE  /\ SumFunctionOnSet(f, S) \in Int /\ SumFunctionOnSet(g, S) \in Int
         /\ SumFunctionOnSet(f, S) <= SumFunctionOnSet(g, S)
<1>1. PICK p : IsSums(p, f, SUBSET S) /\ SumFunctionOnSet(f, S) = p[S]
  BY SumsDef
<1>2. PICK q : IsSums(q, g, SUBSET S) /\ SumFunctionOnSet(g, S) = q[S]
  BY SumsDef
<1> DEFINE Bad == {n \in Nat : \E s \in SUBSET S : Cardinality(s) = n /\ ~(p[s] <= q[s])}
<1>3. \A s \in SUBSET S : IsFiniteSet(s) /\ Cardinality(s) \in Nat
  BY FS_Subset, FS_CardinalityType
<1>4. ASSUME Bad # {} PROVE FALSE
  <2>1. PICK m \in Bad : \A y \in Bad : m <= y
    <3>1. Bad \in SUBSET Nat
      OBVIOUS
    <3> HIDE DEF Bad
    <3>2. QED BY <1>4, <3>1, LeastElement
  <2>2. PICK s \in SUBSET S : Cardinality(s) = m /\ ~(p[s] <= q[s])
    BY <2>1
  <2>3. s # {}
    <3>1. p[{}] = 0 /\ q[{}] = 0
      BY <1>1, <1>2 DEF IsSums
    <3>2. QED BY <2>2, <3>1
  <2> DEFINE less == s \ {First(s)}
  <2>4. less \in SUBSET S /\ Cardinality(less) = m - 1 /\ First(s) \in S
    BY <1>3, <2>2, <2>3, WithoutFirst, FirstIsMember
  <2>5. m - 1 \in Nat /\ m - 1 \notin Bad
    BY <1>3, <2>1, <2>4
  <2>6. p[less] <= q[less]
    BY <2>4, <2>5
  <2>7. /\ p[s] = f[First(s)] + p[less] /\ q[s] = g[First(s)] + q[less]
        /\ p[less] \in Int /\ q[less] \in Int
    BY <1>1, <1>2, <2>3, <2>4 DEF IsSums
  <2>8. f[First(s)] <= g[First(s)] /\ f[First(s)] \in Int /\ g[First(s)] \in Int
    BY <2>4
  <2> HIDE DEF less
  <2>9. QED BY <2>2, <2>6, <2>7, <2>8
<1>5. p[S] <= q[S]
  BY <1>3, <1>4
<1>6. p[S] \in Int /\ q[S] \in Int
  BY <1>1, <1>2 DEF IsSums
<1>7. QED BY <1>1, <1>2, <1>5, <1>6

LEMMA SumFunctionMonotone ==
  ASSUME NEW S, IsFiniteSet(S), NEW f \in [S -> Int], NEW g \in [S -> Int],
         \A x \in S : f[x] <= g[x]
  PROVE  /\ SumFunction(f) \in Int /\ SumFunction(g) \in Int
         /\ SumFunction(f) <= SumFunction(g)
BY SumOnSetMonotone DEF SumFunction

(* A sum depends on its own terms only. *)
LEMMA SumOnSetAgree ==
  ASSUME NEW S, IsFiniteSet(S), NEW f, NEW g,
         \A x \in S : f[x] \in Int /\ f[x] = g[x]
  PROVE  SumFunctionOnSet(f, S) = SumFunctionOnSet(g, S)
<1>1. \A x \in S : f[x] \in Int /\ g[x] \in Int /\ f[x] <= g[x] /\ g[x] <= f[x]
  OBVIOUS
<1>2. PICK a, b : a = SumFunctionOnSet(f, S) /\ b = SumFunctionOnSet(g, S)
  OBVIOUS
<1>3. a \in Int /\ b \in Int /\ a <= b
  BY <1>1, <1>2, SumOnSetMonotone
<1>4. b <= a
  BY <1>1, <1>2, SumOnSetMonotone
<1>5. QED BY <1>2, <1>3, <1>4

AnyOrder(acc, f, F) == \A s \in F : \A x \in s : acc[s] = f[x] + acc[s \ {x}]

(* The order in which a sum is taken does not matter: any term may come first. *)
LEMMA AnyTermFirst ==
  ASSUME NEW S, IsFiniteSet(S), NEW f, \A x \in S : f[x] \in Int,
         NEW acc, IsSums(acc, f, SUBSET S)
  PROVE  AnyOrder(acc, f, SUBSET S)
<1> DEFINE Good(s) == \A x \in s : acc[s] = f[x] + acc[s \ {x}]
           Bad == {n \in Nat : \E s \in SUBSET S : Cardinality(s) = n /\ ~Good(s)}
<1>1. \A s \in SUBSET S : IsFiniteSet(s) /\ Cardinality(s) \in Nat
  BY FS_Subset, FS_CardinalityType
<1>2. \A s \in SUBSET S : acc[s] \in Int /\ (s # {} => acc[s] = f[First(s)] + acc[s \ {First(s)}])
  BY DEF IsSums
<1>3. ASSUME Bad # {} PROVE FALSE
  <2>1. PICK m \in Bad : \A y \in Bad : m <= y
    <3>1. Bad \in SUBSET Nat
      OBVIOUS
    <3> HIDE DEF Bad
    <3>2. QED BY <1>3, <3>1, LeastElement
  <2>2. PICK s \in SUBSET S : Cardinality(s) = m /\ ~Good(s)
    BY <2>1
  <2>3. PICK x \in s : ~(acc[s] = f[x] + acc[s \ {x}])
    BY <2>2
  <2>4. PICK y \in s : y = First(s)
    BY <2>3, FirstIsMember
  <2>5. acc[s] = f[y] + acc[s \ {y}]
    BY <1>2, <2>3, <2>4
  <2>6. x # y
    BY <2>3, <2>5
  <2>7. \A z \in s : s \ {z} \in SUBSET S /\ Good(s \ {z})
    <3>1. TAKE z \in s
    <3>2. s \ {z} \in SUBSET S /\ Cardinality(s \ {z}) = Cardinality(s) - 1
      BY <1>1, FS_RemoveElement
    <3>3. Cardinality(s \ {z}) = m - 1 /\ m - 1 \in Nat
      BY <1>1, <2>2, <3>2
    <3>4. m - 1 \notin Bad
      BY <2>1, <3>3
    <3> HIDE DEF Good
    <3>5. QED BY <3>2, <3>3, <3>4
  <2>8. acc[s \ {y}] = f[x] + acc[(s \ {y}) \ {x}]
    BY <2>6, <2>7
  <2>9. acc[s \ {x}] = f[y] + acc[(s \ {x}) \ {y}]
    BY <2>6, <2>7
  <2>10. (s \ {x}) \ {y} = (s \ {y}) \ {x}
    OBVIOUS
  <2>11. PICK r : r = acc[(s \ {y}) \ {x}]
    OBVIOUS
  <2>12. r \in Int /\ f[x] \in Int /\ f[y] \in Int
    BY <1>2, <2>11
  <2>13. acc[s] = f[y] + (f[x] + r) /\ acc[s \ {x}] = f[y] + r
    BY <2>5, <2>8, <2>9, <2>10, <2>11
  <2>14. f[y] + (f[x] + r) = f[x] + (f[y] + r)
    BY <2>12
  <2>15. QED BY <2>3, <2>13, <2>14
<1>4. \A s \in SUBSET S : Good(s)
  <2> HIDE DEF Good
  <2>1. QED BY <1>1, <1>3
<1>5. QED BY <1>4 DEF AnyOrder

(* A new term adds its value, an empty sum is zero. *)
LEMMA SumOnSetAdd ==
  ASSUME NEW S, IsFiniteSet(S), NEW x, x \notin S, NEW f, \A y \in S \cup {x} : f[y] \in Int
  PROVE  SumFunctionOnSet(f, S \cup {x}) = SumFunctionOnSet(f, S) + f[x]
<1>0. PICK T : T = S \cup {x}
  OBVIOUS
<1>1. IsFiniteSet(T) /\ \A y \in T : f[y] \in Int
  BY <1>0, FS_AddElement
<1>2. PICK p : IsSums(p, f, SUBSET T) /\ SumFunctionOnSet(f, T) = p[T]
  BY <1>1, SumsDef
<1>3. PICK q : IsSums(q, f, SUBSET S) /\ SumFunctionOnSet(f, S) = q[S]
  BY SumsDef
<1>4. AnyOrder(p, f, SUBSET T)
  BY <1>1, <1>2, AnyTermFirst
<1>5. x \in T /\ T \ {x} = S /\ S \in SUBSET T
  BY <1>0
<1>6. p[S] = q[S]
  <2> DEFINE r == [s \in SUBSET S |-> p[s]]
  <2>1. IsSums(r, f, SUBSET S)
    <3>1. r \in [SUBSET S -> Int]
      BY <1>2, <1>5 DEF IsSums
    <3>2. ASSUME NEW s \in SUBSET S
          PROVE  r[s] = IF s = {} THEN 0 ELSE f[First(s)] + r[s \ {First(s)}]
      BY <1>2, <1>5, FirstIsMember DEF IsSums
    <3> HIDE DEF r
    <3>3. QED BY <3>1, <3>2 DEF IsSums
  <2>2. r[S] = q[S]
    <3> HIDE DEF r
    <3>1. QED BY <1>3, <2>1, SumsUnique
  <2>3. QED BY <2>2
<1>7. p[S] \in Int /\ f[x] \in Int
  BY <1>2, <1>5 DEF IsSums
<1>8. p[T] = f[x] + p[S]
  BY <1>4, <1>5 DEF AnyOrder
<1>9. p[T] = q[S] + f[x]
  BY <1>6, <1>7, <1>8
<1>10. QED BY <1>0, <1>2, <1>3, <1>9

LEMMA SumOnEmpty ==
  ASSUME NEW f
  PROVE  SumFunctionOnSet(f, {}) = 0
<1>1. IsFiniteSet({})
  BY FS_EmptySet
<1>2. PICK p : IsSums(p, f, SUBSET {}) /\ SumFunctionOnSet(f, {}) = p[{}]
  BY <1>1, SumsDef
<1>3. QED BY <1>2 DEF IsSums

LEMMA SumOnSetIsInt ==
  ASSUME NEW S, IsFiniteSet(S), NEW f, \A x \in S : f[x] \in Int
  PROVE  SumFunctionOnSet(f, S) \in Int
<1>1. \A x \in S : f[x] \in Int /\ f[x] <= f[x]
  OBVIOUS
<1>2. QED BY <1>1, SumOnSetMonotone

(* A sum of naturals is one, and no less than each of them.                 *)
LEMMA SumOfNats ==
  ASSUME NEW S, IsFiniteSet(S), NEW f, \A x \in S : f[x] \in Nat
  PROVE  SumFunctionOnSet(f, S) \in Nat
<1> DEFINE zero == [x \in S |-> 0]
           Bad == {n \in Nat : \E s \in SUBSET S : Cardinality(s) = n /\ SumFunctionOnSet(zero, s) # 0}
<1>1. \A s \in SUBSET S : IsFiniteSet(s) /\ Cardinality(s) \in Nat
  BY FS_Subset, FS_CardinalityType
<1>2. ASSUME Bad # {} PROVE FALSE
  <2>1. PICK m \in Bad : \A y \in Bad : m <= y
    <3>1. Bad \in SUBSET Nat
      OBVIOUS
    <3> HIDE DEF Bad
    <3>2. QED BY <1>2, <3>1, LeastElement
  <2>2. PICK s \in SUBSET S : Cardinality(s) = m /\ SumFunctionOnSet(zero, s) # 0
    BY <2>1
  <2>3. CASE s = {}
    BY <2>2, <2>3, SumOnEmpty
  <2>4. CASE s # {}
    <3>1. PICK x \in s : TRUE
      BY <2>4
    <3>2. PICK t \in SUBSET S : t = s \ {x}
      BY <2>2
    <3>3. Cardinality(t) \in Nat /\ Cardinality(t) < m
      <4>1. Cardinality(t) = Cardinality(s) - 1
        BY <1>1, <3>1, <3>2, FS_RemoveElement
      <4>2. QED BY <1>1, <2>2, <4>1
    <3>4. SumFunctionOnSet(zero, t) = 0
      <4>1. Cardinality(t) \notin Bad
        BY <2>1, <3>3
      <4>2. QED BY <3>3, <4>1
    <3>5. s = t \cup {x} /\ x \notin t /\ \A y \in t \cup {x} : zero[y] \in Int
      BY <3>1, <3>2
    <3>6. SumFunctionOnSet(zero, s) = SumFunctionOnSet(zero, t) + zero[x]
      BY <1>1, <3>5, SumOnSetAdd
    <3>7. zero[x] = 0
      BY <3>1
    <3>8. QED BY <2>2, <3>4, <3>6, <3>7
  <2>5. QED BY <2>3, <2>4
<1>3. SumFunctionOnSet(zero, S) = 0
  <2>1. Cardinality(S) \notin Bad
    BY <1>2
  <2>2. QED BY <1>1, <2>1
<1>4. \A x \in S : zero[x] \in Int /\ f[x] \in Int /\ zero[x] <= f[x]
  OBVIOUS
<1>5. SumFunctionOnSet(f, S) \in Int /\ SumFunctionOnSet(zero, S) <= SumFunctionOnSet(f, S)
  BY <1>4, SumOnSetMonotone
<1>6. QED BY <1>3, <1>5

LEMMA SumOnSetWithout ==
  ASSUME NEW S, IsFiniteSet(S), NEW x \in S, NEW f, \A y \in S : f[y] \in Int
  PROVE  SumFunctionOnSet(f, S) = SumFunctionOnSet(f, S \ {x}) + f[x]
<1>1. PICK T : T = S \ {x}
  OBVIOUS
<1>2. IsFiniteSet(T) /\ x \notin T /\ S = T \cup {x}
  BY <1>1, FS_Subset
<1>3. QED BY <1>1, <1>2, SumOnSetAdd

(* The totals of a map that an entry is put into, or removed from.          *)
LEMMA SumDrop ==
  ASSUME NEW m, IsFiniteSet(DOMAIN m), \A x \in DOMAIN m : m[x] \in Int, NEW k \in DOMAIN m
  PROVE  SumFunction(Drop(m, k)) = SumFunction(m) - m[k]
<1>1. PICK n : n = Drop(m, k)
  OBVIOUS
<1>2. DOMAIN n = DOMAIN m \ {k} /\ \A x \in DOMAIN n : n[x] = m[x] /\ m[x] \in Int
  BY <1>1 DEF Drop
<1>3. IsFiniteSet(DOMAIN n)
  BY <1>2, FS_Subset
<1>4. SumFunctionOnSet(n, DOMAIN n) = SumFunctionOnSet(m, DOMAIN n)
  BY <1>2, <1>3, SumOnSetAgree
<1>5. SumFunctionOnSet(m, DOMAIN m) = SumFunctionOnSet(m, DOMAIN n) + m[k]
  BY <1>2, SumOnSetWithout
<1>6. SumFunctionOnSet(m, DOMAIN n) \in Int /\ m[k] \in Int
  BY <1>2, <1>3, SumOnSetIsInt
<1>7. QED BY <1>1, <1>4, <1>5, <1>6 DEF SumFunction

LEMMA SumPut ==
  ASSUME NEW m, IsFiniteSet(DOMAIN m), \A x \in DOMAIN m : m[x] \in Int, NEW k, NEW v \in Int
  PROVE  SumFunction(Put(m, k, v)) = SumFunction(m) - GetOr(m, k, 0) + v
<1>1. PICK n : n = Put(m, k, v)
  OBVIOUS
<1>2. PICK rest : rest = DOMAIN m \ {k}
  OBVIOUS
<1>3. /\ DOMAIN n = rest \cup {k} /\ k \notin rest /\ n[k] = v
      /\ \A x \in rest : n[x] = m[x] /\ m[x] \in Int
  BY <1>1, <1>2 DEF Put
<1>4. IsFiniteSet(rest)
  BY <1>2, FS_Subset
<1>5. SumFunctionOnSet(n, rest) = SumFunctionOnSet(m, rest)
  BY <1>3, <1>4, SumOnSetAgree
<1>6. SumFunctionOnSet(m, rest) \in Int
  BY <1>3, <1>4, SumOnSetIsInt
<1>7. SumFunctionOnSet(n, DOMAIN n) = SumFunctionOnSet(n, rest) + v
  BY <1>3, <1>4, SumOnSetAdd
<1>8. CASE k \in DOMAIN m
  <2>1. SumFunctionOnSet(m, DOMAIN m) = SumFunctionOnSet(m, rest) + m[k] /\ m[k] \in Int
    BY <1>2, <1>8, SumOnSetWithout
  <2>2. GetOr(m, k, 0) = m[k]
    BY <1>8 DEF GetOr
  <2>3. QED BY <1>1, <1>5, <1>6, <1>7, <2>1, <2>2 DEF SumFunction
<1>9. CASE k \notin DOMAIN m
  <2>1. rest = DOMAIN m /\ GetOr(m, k, 0) = 0
    BY <1>2, <1>9 DEF GetOr
  <2>2. QED BY <1>1, <1>5, <1>6, <1>7, <2>1 DEF SumFunction
<1>10. QED BY <1>8, <1>9

LEMMA SumOfMapIsNat ==
  ASSUME NEW m, IsFiniteSet(DOMAIN m), \A x \in DOMAIN m : m[x] \in Nat
  PROVE  SumFunction(m) \in Nat
BY SumOfNats DEF SumFunction

LEMMA SumOfNothing ==
  ASSUME NEW m, DOMAIN m = {}
  PROVE  SumFunction(m) = 0
BY SumOnEmpty DEF SumFunction

-----------------------------------------------------------------------------
(* Steps that are taken one after the other.                                *)

\* acc[i] is what base has become after the steps 1..i.
StepsFrom(acc, n, S, base, step) ==
  acc \in [0 .. n -> S] /\ acc[0] = base /\ \A i \in 1 .. n : acc[i] = step[<<i, acc[i - 1]>>]

(* Some function takes n steps within S, when each step stays in it.        *)
LEMMA StepsExist ==
  ASSUME NEW n \in Nat, NEW S, NEW base \in S, NEW step \in [(1 .. n) \X S -> S]
  PROVE  \E acc : StepsFrom(acc, n, S, base, step)
<1> DEFINE Steps(acc, m) == /\ acc \in [0 .. m -> S] /\ acc[0] = base
                            /\ \A i \in 1 .. m : acc[i] = step[<<i, acc[i - 1]>>]
           Bad == {m \in 0 .. n : ~ \E acc : Steps(acc, m)}
<1>1. SUFFICES ASSUME Bad # {} PROVE FALSE
  <2>1. n \notin Bad => \E acc : Steps(acc, n)
    OBVIOUS
  <2>2. QED BY <2>1 DEF StepsFrom
<1>2. PICK m \in Bad : \A y \in Bad : m <= y
  <2>1. Bad \in SUBSET Nat
    OBVIOUS
  <2> HIDE DEF Bad
  <2>2. QED BY <1>1, <2>1, LeastElement
<1>3. CASE m = 0
  <2>1. Steps([i \in 0 .. 0 |-> base], 0)
    OBVIOUS
  <2>2. QED BY <1>3, <2>1
<1>4. CASE m # 0
  <2>1. m \in 1 .. n /\ m - 1 \in 0 .. n /\ m - 1 \notin Bad
    BY <1>2, <1>4
  <2>2. PICK acc : Steps(acc, m - 1)
    BY <2>1
  <2>3. acc[m - 1] \in S /\ step[<<m, acc[m - 1]>>] \in S
    BY <2>1, <2>2
  <2> DEFINE next == [i \in 0 .. m |-> IF i = m THEN step[<<m, acc[m - 1]>>] ELSE acc[i]]
  <2>4. next \in [0 .. m -> S] /\ next[0] = base
    BY <2>1, <2>2, <2>3
  <2>5. ASSUME NEW i \in 1 .. m PROVE next[i] = step[<<i, next[i - 1]>>]
    <3>1. CASE i = m
      <4>1. next[m] = step[<<m, acc[m - 1]>>] /\ next[m - 1] = acc[m - 1]
        BY <2>1
      <4>2. QED BY <3>1, <4>1
    <3>2. CASE i # m
      BY <2>1, <2>2, <3>2
    <3>3. QED BY <3>1, <3>2
  <2>6. QED BY <2>4, <2>5
<1>5. QED BY <1>3, <1>4

(* What holds at first, and is kept by every step, holds after any of them. *)
LEMMA StepsStay ==
  ASSUME NEW n \in Nat, NEW S, NEW p, p[0] \in S,
         \A i \in 1 .. n : p[i - 1] \in S => p[i] \in S
  PROVE  \A i \in 0 .. n : p[i] \in S
<1> DEFINE Bad == {m \in 0 .. n : p[m] \notin S}
<1>1. SUFFICES ASSUME Bad # {} PROVE FALSE
  OBVIOUS
<1>2. PICK m \in Bad : \A y \in Bad : m <= y
  <2>1. Bad \in SUBSET Nat
    OBVIOUS
  <2> HIDE DEF Bad
  <2>2. QED BY <1>1, <2>1, LeastElement
<1>3. m # 0 /\ m \in 1 .. n /\ m - 1 \in 0 .. n /\ m - 1 \notin Bad
  BY <1>2
<1>4. QED BY <1>2, <1>3

(* A filter keeps members of the sequence only. *)
LEMMA KeptAtType ==
  ASSUME NEW S, NEW seq \in Seq(S), NEW I
  PROVE  KeptAt(seq, I) \in Seq(S)
<1>0. PICK T : T = Seq(S)
  OBVIOUS
<1>b. ASSUME NEW m \in Nat, NEW e \in T, NEW f \in [(1 .. m) \X T -> T]
      PROVE  \E a : StepsFrom(a, m, T, e, f)
  BY StepsExist
<1> DEFINE n == Len(seq)
           Rec(g) == [i \in 0 .. n |-> IF i = 0 THEN <<>>
                                       ELSE IF i \in I THEN Append(g[i - 1], seq[i]) ELSE g[i - 1]]
           p == CHOOSE g : g = Rec(g)
           step == [x \in (1 .. n) \X T |-> IF x[1] \in I THEN Append(x[2], seq[x[1]]) ELSE x[2]]
<1>1. n \in Nat /\ <<>> \in T /\ \A i \in 1 .. n : seq[i] \in S
  BY <1>0
<1>a. \A t \in T, e \in S : Append(t, e) \in T
  BY <1>0, AppendProperties
<1>2. step \in [(1 .. n) \X T -> T]
  BY <1>1, <1>a
<1>3. PICK acc \in [0 .. n -> T] : acc[0] = <<>> /\ \A i \in 1 .. n : acc[i] = step[<<i, acc[i - 1]>>]
  <2>1. PICK e, m, f : e = <<>> /\ m = n /\ f = step
    OBVIOUS
  <2>2. e \in T /\ m \in Nat /\ f \in [(1 .. m) \X T -> T]
    BY <1>1, <1>2, <2>1
  <2>3. PICK a : StepsFrom(a, m, T, e, f)
    BY <2>2, <1>b
  <2>4. QED BY <2>1, <2>3 DEF StepsFrom
<1>4. ASSUME NEW i \in 1 .. n
      PROVE  acc[i] = IF i \in I THEN Append(acc[i - 1], seq[i]) ELSE acc[i - 1]
  <2>1. i - 1 \in 0 .. n /\ acc[i - 1] \in T
    BY <1>1, <1>3
  <2>2. <<i, acc[i - 1]>> \in (1 .. n) \X T
    BY <2>1
  <2>3. step[<<i, acc[i - 1]>>] = IF i \in I THEN Append(acc[i - 1], seq[i]) ELSE acc[i - 1]
    BY <2>2
  <2>4. QED BY <1>3, <2>3
<1>5. acc = Rec(acc)
  <2>1. \A i \in 0 .. n : acc[i] = Rec(acc)[i]
    <3>1. ASSUME NEW i \in 0 .. n PROVE acc[i] = Rec(acc)[i]
      <4>1. CASE i = 0
        BY <1>3, <4>1
      <4>2. CASE i # 0
        <5>1. i \in 1 .. n
          BY <1>1, <4>2
        <5>2. QED BY <1>4, <4>2, <5>1
      <4>3. QED BY <4>1, <4>2
    <3>2. QED BY <3>1
  <2>2. QED BY <1>3, <2>1
<1>6. p = Rec(p)
  BY <1>5
<1>7. KeptAt(seq, I) = p[n]
  BY DEF KeptAt
<1>8. p[0] = <<>> /\ \A i \in 1 .. n : p[i] = IF i \in I THEN Append(p[i - 1], seq[i]) ELSE p[i - 1]
  <2> HIDE DEF p
  <2>1. ASSUME NEW i \in 0 .. n PROVE p[i] = Rec(p)[i]
    BY <1>6
  <2>2. QED BY <1>1, <2>1
<1>9. \A i \in 0 .. n : p[i] \in T
  <2> HIDE DEF p, n
  <2>1. \A i \in 1 .. n : p[i - 1] \in T => p[i] \in T
    BY <1>1, <1>8, <1>a
  <2>2. QED BY <1>1, <1>8, <2>1, StepsStay
<1>10. n \in 0 .. n
  BY <1>1
<1>11. p[n] \in T
  <2> HIDE DEF p, n
  <2>1. QED BY <1>9, <1>10
<1>12. QED BY <1>0, <1>7, <1>11
=============================================================================
