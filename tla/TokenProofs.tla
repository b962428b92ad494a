---------------------------- MODULE TokenProofs ----------------------------
(***************************************************************************)
(* Theorems about Token, for any width of the amounts, any addresses,      *)
(* permits, batches, airdrops and snapshots; and about the two other token *)
(* contracts, which MCTokens sets beside it.                               *)
(***************************************************************************)
EXTENDS MCTokens, SumLemmas, FiniteSetTheorems, SequenceTheorems

-----------------------------------------------------------------------------
(* Sums of amounts *)

(* Partial sums of naturals never fall. *)
LEMMA PartialSumsRise ==
  ASSUME NEW n \in Nat, NEW f \in [1..n -> Nat], NEW m \in 0..n
  PROVE  PartialSums(f, n)[m] <= PartialSums(f, n)[n]
<1> DEFINE p == PartialSums(f, n)
           Bad == {k \in Nat : k <= n /\ ~ (p[n - k] <= p[n])}
<1>1. IsPartialSums(p, f, n)
  BY PartialSumsDef
<1> HIDE DEF p
<1>2. ASSUME Bad # {} PROVE FALSE
  <2>1. PICK k \in Bad : \A y \in Bad : k <= y
    <3>1. Bad \in SUBSET Nat
      OBVIOUS
    <3> HIDE DEF Bad
    <3>2. QED BY <1>2, <3>1, LeastElement
  <2>2. k # 0
    BY <1>1 DEF IsPartialSums
  <2>3. k \in Nat /\ k <= n /\ ~ (p[n - k] <= p[n])
    OBVIOUS
  <2>4. k - 1 \in Nat /\ k - 1 <= n /\ ~ (k <= k - 1)
    BY <2>2, <2>3
  <2>5. k - 1 \notin Bad
    <3> HIDE DEF Bad
    <3>1. QED BY <2>1, <2>4
  <2> DEFINE i == n - (k - 1)
  <2>6. i \in 1..n /\ n - k = i - 1 /\ i \in 0..n /\ i - 1 \in 0..n
    BY <2>2, <2>3
  <2>7. p[i] <= p[n]
    BY <2>4, <2>5
  <2>8. p[i] = p[i - 1] + f[i] /\ p[i - 1] \in Int /\ p[n] \in Int /\ f[i] \in Nat
    BY <2>6, <1>1 DEF IsPartialSums
  <2> HIDE DEF i
  <2>9. p[i] \in Int /\ p[i - 1] <= p[n]
    BY <2>7, <2>8
  <2>10. QED BY <2>3, <2>6, <2>9
<1>3. n - m \in Nat /\ n - m <= n /\ n - (n - m) = m
  OBVIOUS
<1>4. p[n - (n - m)] <= p[n]
  BY <1>2, <1>3
<1>5. QED BY <1>3, <1>4 DEF p

(* Two different balances do not exceed the total. *)
LEMMA TwoBalances ==
  ASSUME NEW n \in Nat, NEW f \in [1..n -> Nat], NEW a \in 1..n, NEW b \in 1..n, a # b
  PROVE  f[a] + f[b] <= SumTo(f, n)
<1> DEFINE g == [f EXCEPT ![a] = 0]
<1>1. g \in [1..n -> Nat] /\ g[b] = f[b]
  OBVIOUS
<1>2. SumTo(g, n) = SumTo(f, n) - f[a] + 0
  <2>1. f \in [1..n -> Int] /\ 0 \in Int
    OBVIOUS
  <2>2. \A v \in Int : SumTo([f EXCEPT ![a] = v], n) = SumTo(f, n) - f[a] + v
    BY <2>1, SumToUpdate
  <2>3. QED BY <2>1, <2>2, Zenon
<1> HIDE DEF g
<1>3. g[b] <= SumTo(g, n) /\ SumTo(f, n) \in Nat
  BY <1>1, SumToBounds
<1>4. f[a] \in Nat /\ f[b] \in Nat
  OBVIOUS
<1>5. QED BY <1>1, <1>2, <1>3, <1>4

-----------------------------------------------------------------------------
(* Batches: what the recursive Credited does *)

Transfer == [to : Addresses, amount : Amounts]
Credit == [balances : Balances, credited : Nat, ok : BOOLEAN]
NoCredit(b) == [balances |-> b, credited |-> 0, ok |-> TRUE]

LEMMA Numbers ==
  /\ NumAddresses \in Nat /\ U64 \in Nat /\ U64 > 0
  /\ Addresses = 1 .. NumAddresses
  /\ U64s \subseteq Nat
  /\ \A x \in U64s : x \in Nat /\ x < U64
  /\ \A x \in Nat : x < U64 => x \in U64s
  /\ \A x \in Amounts : x \in U64s /\ x > 0
BY TokenAssumption DEF Addresses, U64s

LEMMA BalanceTypes ==
  ASSUME NEW b \in Balances
  PROVE  /\ b \in [1 .. NumAddresses -> Nat] /\ b \in [1 .. NumAddresses -> Int]
         /\ \A a \in Addresses : b[a] \in Nat /\ b[a] \in U64s
<1>1. \A a \in Addresses : b[a] \in U64s
  BY DEF Balances
<1>2. \A a \in Addresses : b[a] \in Nat
  BY <1>1, Numbers
<1>3. b = [a \in 1 .. NumAddresses |-> b[a]]
  BY Numbers DEF Balances
<1>4. \A a \in 1 .. NumAddresses : b[a] \in Nat /\ b[a] \in Int
  BY <1>2 DEF Addresses
<1>5. b \in [1 .. NumAddresses -> Nat] /\ b \in [1 .. NumAddresses -> Int]
  BY <1>3, <1>4
<1>6. QED BY <1>1, <1>2, <1>5

(* Crediting one balance. *)
LEMMA CreditOne ==
  ASSUME NEW b \in Balances, NEW a \in Addresses, NEW x \in Int, b[a] + x \in U64s
  PROVE  /\ [b EXCEPT ![a] = @ + x] \in Balances
         /\ SumTo([b EXCEPT ![a] = @ + x], NumAddresses) = SumTo(b, NumAddresses) + x
<1>1. /\ b \in [1 .. NumAddresses -> Int] /\ b[a] \in Int /\ NumAddresses \in Nat
      /\ a \in 1 .. NumAddresses /\ b[a] + x \in Int
  BY BalanceTypes, Numbers
<1>2. SumTo([b EXCEPT ![a] = b[a] + x], NumAddresses) = SumTo(b, NumAddresses) - b[a] + (b[a] + x)
  BY <1>1, SumToUpdate
<1>3. SumTo(b, NumAddresses) \in Int
  BY <1>1, Numbers, SumToType
<1>4. SumTo([b EXCEPT ![a] = b[a] + x], NumAddresses) = SumTo(b, NumAddresses) + x
  BY <1>1, <1>2, <1>3
<1>5. QED BY <1>4 DEF Balances

LEMMA BalanceWithinTotal ==
  ASSUME NEW b \in Balances
  PROVE  /\ SumTo(b, NumAddresses) \in Nat
         /\ \A a \in Addresses : b[a] \in Nat /\ b[a] <= SumTo(b, NumAddresses)
<1>1. b \in [1 .. NumAddresses -> Nat] /\ NumAddresses \in Nat
  BY BalanceTypes, Numbers
<1>2. SumTo(b, NumAddresses) \in Nat /\ \A a \in 1 .. NumAddresses : b[a] <= SumTo(b, NumAddresses)
  BY <1>1, SumToBounds
<1>3. QED BY <1>2, BalanceTypes DEF Addresses

(* One payment: what it credits appears in the balances, and it fails only   *)
(* where the total leaves no room.                                           *)
LEMMA PayLemma ==
  ASSUME NEW r \in Credit, NEW t \in Transfer
  PROVE  /\ Pay(r, t) \in Credit
         /\ Pay(r, t).credited \in {r.credited, r.credited + t.amount}
         /\ SumTo(Pay(r, t).balances, NumAddresses) - Pay(r, t).credited
              = SumTo(r.balances, NumAddresses) - r.credited
         /\ r.ok /\ SumTo(r.balances, NumAddresses) + t.amount < U64
              => Pay(r, t).ok /\ Pay(r, t).credited = r.credited + t.amount
<1> DEFINE q == Pay(r, t)
           b == r.balances
<1>1. /\ b \in Balances /\ r.credited \in Nat /\ t.to \in Addresses /\ t.amount \in Nat
      /\ b[t.to] \in Nat
  BY Numbers DEF Credit, Transfer, Balances
<1>2. SumTo(b, NumAddresses) \in Nat /\ b[t.to] <= SumTo(b, NumAddresses)
  BY <1>1, BalanceWithinTotal
<1>3. CASE r.ok /\ Fits(b, t.to, t.amount)
  <2>1. b[t.to] + t.amount \in U64s
    BY <1>1, <1>3, Numbers DEF Fits
  <2>2. /\ [b EXCEPT ![t.to] = @ + t.amount] \in Balances
        /\ SumTo([b EXCEPT ![t.to] = @ + t.amount], NumAddresses) = SumTo(b, NumAddresses) + t.amount
    BY <1>1, <2>1, CreditOne
  <2>3. /\ q.balances = [b EXCEPT ![t.to] = @ + t.amount]
        /\ q.credited = r.credited + t.amount
        /\ q.ok = TRUE
        /\ q = [balances |-> q.balances, credited |-> q.credited, ok |-> q.ok]
    BY <1>3 DEF Pay, Credit
  <2> HIDE DEF q, b
  <2>4. q \in Credit
    <3>1. q.balances \in Balances
      BY <2>2, <2>3, Zenon
    <3>2. q.credited \in Nat
      BY <1>1, <2>3
    <3>3. q.ok \in BOOLEAN
      BY <2>3, Zenon
    <3>4. [balances |-> q.balances, credited |-> q.credited, ok |-> q.ok] \in Credit
      BY <3>1, <3>2, <3>3 DEF Credit
    <3>5. QED BY <2>3, <3>4, Zenon
  <2>5. SumTo(q.balances, NumAddresses) - q.credited = SumTo(b, NumAddresses) - r.credited
    BY <1>1, <1>2, <2>2, <2>3
  <2>6. QED BY <2>3, <2>4, <2>5 DEF q, b
<1>4. CASE ~(r.ok /\ Fits(b, t.to, t.amount))
  <2>1. q = [r EXCEPT !.ok = FALSE]
    BY <1>4 DEF Pay
  <2>2. q \in Credit /\ q.balances = b /\ q.credited = r.credited
    BY <2>1 DEF Credit
  <2>3. ~(r.ok /\ SumTo(b, NumAddresses) + t.amount < U64)
    BY <1>1, <1>2, <1>4, Numbers DEF Fits
  <2>4. QED BY <2>2, <2>3 DEF q, b
<1>5. QED BY <1>3, <1>4

IsCredits(acc, b, transfers, n) ==
  /\ acc \in [0..n -> Credit]
  /\ acc[0] = NoCredit(b)
  /\ \A i \in 1..n : acc[i] = Pay(acc[i - 1], transfers[i])

LEMMA CreditsExist ==
  ASSUME NEW b \in Balances, NEW n \in Nat, NEW transfers \in [1..n -> Transfer]
  PROVE  \E acc : IsCredits(acc, b, transfers, n)
<1> DEFINE Bad == {m \in 0..n : ~ \E acc : IsCredits(acc, b, transfers, m)}
<1>1. SUFFICES ASSUME Bad # {} PROVE FALSE
  <2>1. n \notin Bad => \E acc : IsCredits(acc, b, transfers, n)
    OBVIOUS
  <2>2. QED BY <2>1
<1>2. PICK m \in Bad : \A y \in Bad : m <= y
  <2>1. Bad \in SUBSET Nat
    OBVIOUS
  <2> HIDE DEF Bad
  <2>2. QED BY <1>1, <2>1, LeastElement
<1>3. CASE m = 0
  <2>1. IsCredits([i \in 0..0 |-> NoCredit(b)], b, transfers, 0)
    BY DEF IsCredits, NoCredit, Credit
  <2>2. QED BY <1>3, <2>1
<1>4. CASE m # 0
  <2>1. m \in 1..n /\ m - 1 \in 0..n /\ m - 1 \notin Bad
    BY <1>2, <1>4
  <2>2. PICK acc : IsCredits(acc, b, transfers, m - 1)
    BY <2>1
  <2>3. acc[m - 1] \in Credit /\ transfers[m] \in Transfer
    BY <2>1, <2>2 DEF IsCredits
  <2>4. Pay(acc[m - 1], transfers[m]) \in Credit
    BY <2>3, PayLemma
  <2> DEFINE last == Pay(acc[m - 1], transfers[m])
             next == [i \in 0..m |-> IF i = m THEN last ELSE acc[i]]
  <2>5. next \in [0..m -> Credit] /\ next[0] = NoCredit(b)
    BY <2>1, <2>2, <2>4 DEF IsCredits
  <2>6. ASSUME NEW i \in 1..m PROVE next[i] = Pay(next[i - 1], transfers[i])
    <3> HIDE DEF last
    <3>1. CASE i = m   BY <2>1, <3>1 DEF last
    <3>2. CASE i # m   BY <2>1, <2>2, <3>2 DEF IsCredits
    <3>3. QED BY <3>1, <3>2
  <2>7. IsCredits(next, b, transfers, m)
    BY <2>5, <2>6 DEF IsCredits
  <2>8. QED BY <2>7
<1>5. QED BY <1>3, <1>4

(* What a batch credits: it appears in the balances, it is at most the total *)
(* of the batch, and all of it where the total of the balances leaves room.  *)
LEMMA CreditedLemma ==
  ASSUME NEW b \in Balances, NEW transfers \in Seq(Transfer)
  PROVE  LET end == Credited(b, transfers) IN
         /\ end.balances \in Balances
         /\ end.credited \in Nat /\ end.credited <= Total(transfers)
         /\ SumTo(end.balances, NumAddresses) = SumTo(b, NumAddresses) + end.credited
         /\ SumTo(b, NumAddresses) + Total(transfers) < U64 => end.credited = Total(transfers)
<1> DEFINE n == Len(transfers)
           amounts == [i \in 1..n |-> transfers[i].amount]
           s == PartialSums(amounts, n)
           Rec(g) == [i \in 0..n |-> IF i = 0 THEN NoCredit(b) ELSE Pay(g[i - 1], transfers[i])]
           p == CHOOSE g : g = Rec(g)
<1>1. n \in Nat /\ transfers \in [1..n -> Transfer] /\ \A i \in 1..n : transfers[i] \in Transfer
  OBVIOUS
<1>2. amounts \in [1..n -> Nat]
  BY <1>1, Numbers DEF Transfer
<1>3. IsPartialSums(s, amounts, n) /\ Total(transfers) = s[n]
  <2>1. amounts \in [1..n -> Int]
    BY <1>2
  <2>2. IsPartialSums(s, amounts, n)
    BY <1>1, <2>1, PartialSumsDef
  <2>3. QED BY <2>2 DEF Total, SumTo
<1>4. \A m \in 0..n : s[m] <= s[n]
  BY <1>1, <1>2, PartialSumsRise
<1> HIDE DEF n, amounts, s
<1>5. PICK acc : IsCredits(acc, b, transfers, n)
  BY <1>1, CreditsExist
<1>6. acc = Rec(acc)
  BY <1>5 DEF IsCredits
<1>7. p = Rec(p)
  BY <1>6
<1>8. Credited(b, transfers) = p[n]
  BY DEF Credited, NoCredit, n
<1> HIDE DEF p
<1> DEFINE Fair(m) ==
      /\ p[m] \in Credit
      /\ p[m].credited <= s[m]
      /\ SumTo(p[m].balances, NumAddresses) = SumTo(b, NumAddresses) + p[m].credited
      /\ SumTo(b, NumAddresses) + s[n] < U64 => p[m].ok /\ p[m].credited = s[m]
           Bad == {m \in 0..n : ~Fair(m)}
<1>9. SumTo(b, NumAddresses) \in Nat
  BY BalanceWithinTotal
<1>10. ASSUME Bad # {} PROVE FALSE
  <2>1. PICK m \in Bad : \A y \in Bad : m <= y
    <3>1. Bad \in SUBSET Nat
      BY <1>1
    <3> HIDE DEF Bad
    <3>2. QED BY <1>10, <3>1, LeastElement
  <2>2. m \in 0..n /\ ~Fair(m)
    OBVIOUS
  <2>3. Fair(0)
    <3>1. p[0] = NoCredit(b) /\ s[0] = 0
      BY <1>1, <1>3, <1>7 DEF IsPartialSums
    <3>2. NoCredit(b) \in Credit
      BY DEF NoCredit, Credit
    <3>3. QED BY <1>9, <3>1, <3>2 DEF NoCredit
  <2>4. m # 0
    BY <2>2, <2>3
  <2>5. m \in 1..n /\ m - 1 \in 0..n /\ m - 1 \notin Bad
    BY <1>1, <2>1, <2>2, <2>4
  <2>6. Fair(m - 1)
    BY <2>5
  <2> DEFINE r == p[m - 1]
             t == transfers[m]
  <2>7. p[m] = Pay(r, t) /\ t \in Transfer /\ r \in Credit
    BY <1>1, <1>7, <2>4, <2>5, <2>6
  <2> HIDE DEF r, t
  <2>8. /\ p[m] \in Credit
        /\ p[m].credited \in {r.credited, r.credited + t.amount}
        /\ SumTo(p[m].balances, NumAddresses) - p[m].credited = SumTo(r.balances, NumAddresses) - r.credited
        /\ r.ok /\ SumTo(r.balances, NumAddresses) + t.amount < U64
              => p[m].ok /\ p[m].credited = r.credited + t.amount
    <3>1. /\ Pay(r, t) \in Credit
          /\ Pay(r, t).credited \in {r.credited, r.credited + t.amount}
          /\ SumTo(Pay(r, t).balances, NumAddresses) - Pay(r, t).credited
               = SumTo(r.balances, NumAddresses) - r.credited
          /\ r.ok /\ SumTo(r.balances, NumAddresses) + t.amount < U64
               => Pay(r, t).ok /\ Pay(r, t).credited = r.credited + t.amount
      BY <2>7, PayLemma
    <3>2. QED BY <2>7, <3>1, Zenon
  <2>9. /\ s[m] = s[m - 1] + t.amount /\ s[m] \in Int /\ s[m - 1] \in Int /\ s[n] \in Int
        /\ s[m] <= s[n] /\ t.amount \in Nat
    <3>1. amounts[m] = t.amount /\ m \in 0..n /\ n \in 0..n
      BY <1>1, <2>5 DEF amounts, t
    <3>2. t.amount \in Nat
      BY <2>7, Numbers DEF Transfer
    <3>3. QED BY <1>3, <1>4, <2>5, <3>1, <3>2 DEF IsPartialSums
  <2>10. /\ r.credited \in Nat /\ p[m].credited \in Nat
         /\ SumTo(r.balances, NumAddresses) \in Int /\ SumTo(p[m].balances, NumAddresses) \in Int
    <3>1. r.balances \in Balances /\ p[m].balances \in Balances /\ r.credited \in Nat /\ p[m].credited \in Nat
      BY <2>7, <2>8 DEF Credit
    <3>2. QED BY <3>1, BalanceWithinTotal
  <2>11. r.credited <= s[m - 1] /\ SumTo(r.balances, NumAddresses) = SumTo(b, NumAddresses) + r.credited
    BY <2>6 DEF r
  <2>12. p[m].credited <= s[m]
    <3>1. p[m].credited = r.credited \/ p[m].credited = r.credited + t.amount
      BY <2>8
    <3>2. r.credited <= s[m - 1] /\ s[m] = s[m - 1] + t.amount
      BY <2>9, <2>11
    <3>3. /\ r.credited \in Int /\ p[m].credited \in Int /\ t.amount \in Nat
          /\ s[m] \in Int /\ s[m - 1] \in Int
      BY <2>9, <2>10
    <3>4. QED BY <3>1, <3>2, <3>3
  <2>13. SumTo(p[m].balances, NumAddresses) = SumTo(b, NumAddresses) + p[m].credited
    <3>1. /\ SumTo(p[m].balances, NumAddresses) - p[m].credited = SumTo(r.balances, NumAddresses) - r.credited
          /\ SumTo(r.balances, NumAddresses) = SumTo(b, NumAddresses) + r.credited
      BY <2>8, <2>11
    <3>2. QED BY <1>9, <2>10, <3>1
  <2>14. ASSUME SumTo(b, NumAddresses) + s[n] < U64
         PROVE  p[m].ok /\ p[m].credited = s[m]
    <3>1. r.ok /\ r.credited = s[m - 1]
      BY <2>6, <2>14 DEF r
    <3>2. SumTo(r.balances, NumAddresses) + t.amount < U64
      <4>1. SumTo(r.balances, NumAddresses) + t.amount = SumTo(b, NumAddresses) + s[m]
        BY <1>9, <2>9, <2>10, <2>11, <3>1
      <4>2. U64 \in Int
        BY Numbers
      <4>3. SumTo(b, NumAddresses) + s[m] < U64
        BY <1>9, <2>9, <2>14, <4>2
      <4>4. QED BY <4>1, <4>3
    <3>3. p[m].ok /\ p[m].credited = r.credited + t.amount
      BY <2>8, <3>1, <3>2
    <3>4. QED BY <2>9, <3>1, <3>3
  <2>15. QED BY <2>2, <2>8, <2>12, <2>13, <2>14
<1>11. Fair(n)
  <2>1. n \in 0..n /\ n \notin Bad
    BY <1>1, <1>10
  <2>2. QED BY <2>1
<1>12. p[n].balances \in Balances /\ p[n].credited \in Nat
  BY <1>11 DEF Credit
<1>13. QED BY <1>3, <1>8, <1>11, <1>12

-----------------------------------------------------------------------------
(* The accounts *)

AccountsOK ==
  /\ total_supply \in U64s
  /\ balances \in Balances
  /\ uncredited \in Int /\ airdropped \in Nat /\ lost \in Nat

(* Inductive: NothingLost rests on the books, which leave no balance room to *)
(* overflow as long as the supply accounts for all of them.                  *)
AccountInv == AccountsOK /\ Books /\ NothingLost

AccountStep ==
  \/ UNCHANGED <<accountVars, ledgerVars>>
  \/ \E a \in Addresses, x \in Amounts : mint(a, x)
  \/ \E a \in Addresses, x \in Amounts : burn(a, x)
  \/ \E a, to \in Addresses, x \in Amounts, success \in BOOLEAN : Moved(a, to, x, success)
  \/ \E a \in Addresses, transfers \in Batches : batch_transfer(a, transfers)
  \/ \E s \in Snapshots : import_migration_state(s)
  \/ \E id \in DOMAIN airdrops, a \in Addresses, x \in Amounts : claim_airdrop(id, a, x)

LEMMA StepsOfAccounts == [Next]_vars => AccountStep
<1> SUFFICES ASSUME [Next]_vars PROVE AccountStep
  OBVIOUS
<1>1. CASE UNCHANGED vars
  BY <1>1 DEF vars, AccountStep
<1>2. ASSUME NEW a \in Addresses, NEW x \in Amounts,
             \/ mint(a, x) \/ burn(a, x)
             \/ \E to \in Addresses :
                  \/ transfer(a, to, x)
                  \/ approve(a, to, x)
                  \/ \E spender \in Addresses : transfer_from(spender, a, to, x)
             \/ \E id \in DOMAIN airdrops : claim_airdrop(id, a, x)
      PROVE  AccountStep
  BY <1>2 DEF AccountStep, transfer, approve, transfer_from
<1>3. ASSUME NEW a \in Addresses,
             \/ \E transfers \in Batches : batch_transfer(a, transfers)
             \/ set_admin(a)
             \/ \E b \in BOOLEAN : SetPaused(a, b)
             \/ \E drop \in Drops : create_airdrop(a, drop)
             \/ \E id \in DOMAIN airdrops : return_unclaimed_airdrop(a, id)
      PROVE  AccountStep
  BY <1>3 DEF AccountStep, set_admin, SetPaused, create_airdrop, return_unclaimed_airdrop
<1>4. ASSUME \/ \E p \in Permits, t \in 0 .. MaxLedger : permit(p, t)
             \/ \E s \in Snapshots : import_migration_state(s)
             \/ \E h \in Hooks :
                  \/ register_before_transfer_hook(h)
                  \/ unregister_before_transfer_hook(h)
                  \/ \E b \in BOOLEAN : set_before_hook_blocks(h, b)
             \/ Tick
      PROVE  AccountStep
  BY <1>4 DEF AccountStep, permit, register_before_transfer_hook, unregister_before_transfer_hook,
              set_before_hook_blocks, Tick
<1>5. QED BY <1>1, <1>2, <1>3, <1>4 DEF Next

(* The accounts as numbers: what the step lemmas below calculate with.       *)
LEMMA AccountNumbers ==
  ASSUME AccountInv
  PROVE  /\ total_supply \in Nat /\ total_supply < U64 /\ U64 \in Nat
         /\ balances \in Balances /\ Held \in Nat
         /\ \A a \in Addresses : balances[a] \in Nat /\ balances[a] <= Held /\ balances[a] < U64
         /\ uncredited \in Int /\ airdropped \in Nat /\ lost \in Nat
         /\ Held + lost + uncredited = total_supply + airdropped
         /\ airdropped = 0 /\ uncredited >= 0 => lost = 0
<1>1. /\ total_supply \in Nat /\ total_supply < U64 /\ U64 \in Nat /\ balances \in Balances
      /\ uncredited \in Int /\ airdropped \in Nat /\ lost \in Nat
  BY Numbers DEF AccountInv, AccountsOK
<1>2. Held \in Nat /\ \A a \in Addresses : balances[a] \in Nat /\ balances[a] <= Held
  BY <1>1, BalanceWithinTotal DEF Held
<1>3. \A a \in Addresses : balances[a] < U64
  BY <1>1, BalanceTypes, Numbers
<1>4. QED BY <1>1, <1>2, <1>3 DEF AccountInv, Books, NothingLost

LEMMA MintStep ==
  ASSUME AccountInv, NEW a \in Addresses, NEW x \in Amounts, mint(a, x)
  PROVE  AccountInv'
<1>1. x \in Nat /\ x > 0
  BY Numbers
<1>2. /\ total_supply' = total_supply + x /\ total_supply' \in U64s
      /\ uncredited' = uncredited /\ airdropped' = airdropped
  BY <1>1, AccountNumbers, Numbers DEF mint
<1>3. CASE Fits(balances, a, x)
  <2>1. balances' = [balances EXCEPT ![a] = @ + x] /\ lost' = lost
    BY <1>3 DEF mint
  <2>2. balances[a] + x \in U64s
    BY <1>1, <1>3, AccountNumbers, Numbers DEF Fits
  <2>3. balances' \in Balances /\ Held' = Held + x
    <3>1. balances \in Balances /\ x \in Int
      BY <1>1, AccountNumbers
    <3>2. /\ [balances EXCEPT ![a] = @ + x] \in Balances
          /\ SumTo([balances EXCEPT ![a] = @ + x], NumAddresses) = SumTo(balances, NumAddresses) + x
      BY <2>2, <3>1, CreditOne
    <3>3. QED BY <2>1, <3>2 DEF Held
  <2>4. Held' + lost' + uncredited' = total_supply' + airdropped'
    BY <1>1, <1>2, <2>1, <2>3, AccountNumbers
  <2>5. QED BY <1>2, <2>1, <2>3, <2>4, AccountNumbers DEF AccountInv, AccountsOK, Books, NothingLost
<1>4. CASE ~Fits(balances, a, x)
  <2>1. balances' = balances /\ lost' = lost + x
    BY <1>4 DEF mint
  <2>2. Held' = Held /\ lost' \in Nat
    BY <1>1, <2>1, AccountNumbers DEF Held
  <2>3. Held' + lost' + uncredited' = total_supply' + airdropped'
    BY <1>1, <1>2, <2>1, <2>2, AccountNumbers
  <2>4. ~(airdropped = 0 /\ uncredited >= 0)
    <3>1. balances[a] + x >= U64
      BY <1>1, <1>4, AccountNumbers DEF Fits
    <3>2. total_supply + x < U64
      BY DEF mint
    <3>3. QED BY <1>1, <3>1, <3>2, AccountNumbers
  <2>5. QED BY <1>2, <2>1, <2>2, <2>3, <2>4, AccountNumbers DEF AccountInv, AccountsOK, Books, NothingLost
<1>5. QED BY <1>3, <1>4

LEMMA BurnStep ==
  ASSUME AccountInv, NEW a \in Addresses, NEW x \in Amounts, burn(a, x)
  PROVE  AccountInv'
<1>1. /\ x \in Nat /\ x > 0 /\ x <= total_supply /\ x <= balances[a]
      /\ total_supply' = total_supply - x
      /\ balances' = [balances EXCEPT ![a] = @ - x]
      /\ uncredited' = uncredited /\ airdropped' = airdropped /\ lost' = lost
  BY Numbers DEF burn, ledgerVars
<1>2. total_supply' \in U64s
  BY <1>1, AccountNumbers, Numbers
<1>3. balances' \in Balances /\ Held' = Held + (-x)
  <2>1. balances[a] + (-x) \in U64s /\ balances[a] + (-x) = balances[a] - x /\ -x \in Int
    BY <1>1, AccountNumbers, Numbers
  <2>2. /\ [balances EXCEPT ![a] = balances[a] + (-x)] \in Balances
        /\ SumTo([balances EXCEPT ![a] = balances[a] + (-x)], NumAddresses) = Held + (-x)
    BY <2>1, AccountNumbers, CreditOne DEF Held
  <2>3. balances' = [balances EXCEPT ![a] = balances[a] + (-x)]
    BY <1>1, <2>1
  <2>4. QED BY <2>2, <2>3 DEF Held
<1>4. Held' + lost' + uncredited' = total_supply' + airdropped'
  BY <1>1, <1>3, AccountNumbers
<1>5. QED BY <1>1, <1>2, <1>3, <1>4, AccountNumbers DEF AccountInv, AccountsOK, Books, NothingLost

LEMMA MovedStep ==
  ASSUME AccountInv, NEW a \in Addresses, NEW to \in Addresses, NEW x \in Amounts,
         NEW success \in BOOLEAN, Moved(a, to, x, success)
  PROVE  AccountInv'
<1> DEFINE debited == [balances EXCEPT ![a] = @ + (-x)]
<1>1. /\ x \in Nat /\ x > 0 /\ -x \in Int /\ a # to /\ x <= balances[a]
      /\ total_supply' = total_supply /\ uncredited' = uncredited /\ airdropped' = airdropped
  <2>1. x \in Nat /\ x > 0
    BY Numbers
  <2>2. -x \in Int
    BY <2>1
  <2>3. /\ a # to /\ x <= balances[a]
        /\ total_supply' = total_supply /\ uncredited' = uncredited /\ airdropped' = airdropped
    BY DEF Moved
  <2>4. QED BY <2>1, <2>2, <2>3
<1>2. debited \in Balances /\ SumTo(debited, NumAddresses) = Held + (-x)
  <2>1. balances[a] + (-x) \in U64s
    BY <1>1, AccountNumbers, Numbers
  <2>2. balances \in Balances
    BY AccountNumbers
  <2> HIDE DEF debited
  <2>3. /\ [balances EXCEPT ![a] = @ + (-x)] \in Balances
        /\ SumTo([balances EXCEPT ![a] = @ + (-x)], NumAddresses) = SumTo(balances, NumAddresses) + (-x)
    BY <1>1, <2>1, <2>2, CreditOne
  <2>4. QED BY <2>3 DEF debited, Held
<1>3. debited[to] = balances[to] /\ debited = [balances EXCEPT ![a] = @ - x]
  <2>1. balances \in [Addresses -> U64s] /\ balances[a] + (-x) = balances[a] - x
    BY <1>1, AccountNumbers DEF Balances
  <2>2. QED BY <1>1, <2>1
<1> HIDE DEF debited
<1>4. CASE Fits(balances, to, x)
  <2>1. /\ balances' = [balances EXCEPT ![a] = @ - x, ![to] = @ + x] /\ lost' = lost
    BY <1>4 DEF Moved
  <2>2. debited[to] + x \in U64s
    BY <1>1, <1>3, <1>4, AccountNumbers, Numbers DEF Fits
  <2>3. /\ [debited EXCEPT ![to] = @ + x] \in Balances
        /\ SumTo([debited EXCEPT ![to] = @ + x], NumAddresses) = SumTo(debited, NumAddresses) + x
    <3>1. x \in Int
      BY <1>1
    <3>2. QED BY <1>2, <2>2, <3>1, CreditOne
  <2>4. balances' = [debited EXCEPT ![to] = @ + x]
    BY <1>3, <2>1
  <2>5. balances' \in Balances /\ Held' = Held
    BY <1>1, <1>2, <2>3, <2>4, AccountNumbers DEF Held
  <2>6. QED BY <1>1, <2>1, <2>5, AccountNumbers DEF AccountInv, AccountsOK, Books, NothingLost
<1>5. CASE ~Fits(balances, to, x)
  <2>1. balances' = debited /\ lost' = lost + x
    BY <1>3, <1>5 DEF Moved
  <2>2. balances' \in Balances /\ Held' = Held + (-x) /\ lost' \in Nat
    BY <1>1, <1>2, <2>1, AccountNumbers DEF Held
  <2>3. Held' + lost' + uncredited' = total_supply' + airdropped'
    BY <1>1, <2>1, <2>2, AccountNumbers
  <2>4. ~(airdropped = 0 /\ uncredited >= 0)
    <3>1. balances[to] + x >= U64
      BY <1>1, <1>5, AccountNumbers DEF Fits
    <3>2. balances[a] + balances[to] <= Held
      <4>1. balances \in [1 .. NumAddresses -> Nat] /\ NumAddresses \in Nat
        BY AccountNumbers, BalanceTypes, Numbers
      <4>2. QED BY <1>1, <4>1, TwoBalances DEF Held, Addresses
    <3>3. x <= balances[a] /\ balances[a] \in Nat /\ balances[to] \in Nat
      BY <1>1, AccountNumbers
    <3>4. Held >= U64
      BY <1>1, <3>1, <3>2, <3>3, AccountNumbers
    <3>5. QED BY <3>4, AccountNumbers
  <2>5. QED BY <1>1, <2>1, <2>2, <2>3, <2>4, AccountNumbers DEF AccountInv, AccountsOK, Books, NothingLost
<1>6. QED BY <1>4, <1>5

LEMMA BatchStep ==
  ASSUME AccountInv, NEW a \in Addresses, NEW transfers \in Batches, batch_transfer(a, transfers)
  PROVE  AccountInv' /\ lost' >= lost
<1> DEFINE total == Total(transfers)
           debited == [balances EXCEPT ![a] = @ + (-total)]
           end == Credited(debited, transfers)
<1>1. transfers \in Seq(Transfer)
  BY TokenAssumption DEF Transfer
<1>2. total \in Nat
  <2> DEFINE amounts == [i \in 1 .. Len(transfers) |-> transfers[i].amount]
  <2>1. amounts \in [1 .. Len(transfers) -> Nat] /\ Len(transfers) \in Nat
    <3>1. Len(transfers) \in Nat /\ \A i \in 1 .. Len(transfers) : transfers[i] \in Transfer
      BY <1>1
    <3>2. \A i \in 1 .. Len(transfers) : transfers[i].amount \in Nat
      BY <3>1, Numbers DEF Transfer
    <3>3. QED BY <3>1, <3>2
  <2>2. total = SumTo(amounts, Len(transfers))
    BY DEF Total
  <2> HIDE DEF amounts, total
  <2>3. QED BY <2>1, <2>2, SumToBounds
<1> HIDE DEF total
<1>3. /\ total <= balances[a] /\ total_supply' = total_supply
      /\ uncredited' = uncredited /\ airdropped' = airdropped
  BY DEF batch_transfer, total
<1>4. debited \in Balances /\ SumTo(debited, NumAddresses) = Held + (-total)
  <2>1. balances[a] + (-total) \in U64s /\ -total \in Int
    BY <1>2, <1>3, AccountNumbers, Numbers
  <2>2. balances \in Balances
    BY AccountNumbers
  <2> HIDE DEF debited
  <2>3. /\ [balances EXCEPT ![a] = @ + (-total)] \in Balances
        /\ SumTo([balances EXCEPT ![a] = @ + (-total)], NumAddresses) = SumTo(balances, NumAddresses) + (-total)
    BY <2>1, <2>2, CreditOne
  <2>4. QED BY <2>3 DEF debited, Held
<1>5. balances' = end.balances /\ lost' = lost + (total - end.credited)
  <2>1. debited = [balances EXCEPT ![a] = @ - total]
    BY <1>2, AccountNumbers
  <2>2. QED BY <2>1 DEF batch_transfer, total
<1> HIDE DEF debited
<1>6. /\ end.balances \in Balances
      /\ end.credited \in Nat /\ end.credited <= total
      /\ SumTo(end.balances, NumAddresses) = SumTo(debited, NumAddresses) + end.credited
      /\ SumTo(debited, NumAddresses) + total < U64 => end.credited = total
  BY <1>1, <1>4, CreditedLemma DEF total
<1> HIDE DEF end
<1>7. balances' \in Balances /\ Held' = Held - total + end.credited /\ lost' \in Nat /\ lost' >= lost
  <2>1. Held' = SumTo(end.balances, NumAddresses)
    BY <1>5 DEF Held
  <2>2. QED BY <1>2, <1>4, <1>5, <1>6, <2>1, AccountNumbers
<1>8. Held' + lost' + uncredited' = total_supply' + airdropped'
  BY <1>2, <1>3, <1>5, <1>6, <1>7, AccountNumbers
<1>9. airdropped = 0 /\ uncredited >= 0 => lost' = 0
  <2>1. SUFFICES ASSUME airdropped = 0, uncredited >= 0 PROVE lost' = 0
    OBVIOUS
  <2>2. lost = 0 /\ Held < U64
    BY <2>1, AccountNumbers
  <2>3. SumTo(debited, NumAddresses) + total < U64
    BY <1>2, <1>4, <2>2, AccountNumbers
  <2>4. QED BY <1>2, <1>5, <1>6, <2>2, <2>3
<1>10. QED BY <1>3, <1>7, <1>8, <1>9, AccountNumbers DEF AccountInv, AccountsOK, Books, NothingLost

LEMMA ImportStep ==
  ASSUME AccountInv, NEW s \in Snapshots, import_migration_state(s)
  PROVE  AccountInv'
<1>1. /\ s.balances \in Balances /\ s.expected_total_supply \in U64s
      /\ total_supply' = s.expected_total_supply /\ balances' = s.balances
      /\ uncredited' = s.expected_total_supply - SumTo(s.balances, NumAddresses)
      /\ airdropped' = 0 /\ lost' = 0
  BY TokenAssumption DEF import_migration_state
<1>2. Held' = SumTo(s.balances, NumAddresses) /\ Held' \in Nat /\ s.expected_total_supply \in Nat
  BY <1>1, BalanceWithinTotal, Numbers DEF Held
<1>3. uncredited' \in Int /\ Held' + lost' + uncredited' = total_supply' + airdropped'
  BY <1>1, <1>2
<1>4. QED BY <1>1, <1>2, <1>3 DEF AccountInv, AccountsOK, Books, NothingLost

(* Adding in a width: the sum, or the sum less the width. *)
LEMMA WrappedSum ==
  ASSUME NEW w \in Nat, NEW x \in Nat, NEW y \in Nat, x < w, y < w
  PROVE  /\ x + y < w => (x + y) % w = x + y
         /\ ~(x + y < w) => (x + y) % w = x + y - w
<1>1. w > 0 /\ x + y \in Nat
  OBVIOUS
<1>2. /\ (x + y) % w \in 0 .. w - 1
      /\ x + y = w * ((x + y) \div w) + ((x + y) % w)
      /\ (x + y) \div w \in Int
  <2>1. SUFFICES ASSUME NEW z \in Nat
                 PROVE  z % w \in 0 .. w - 1 /\ z = w * (z \div w) + (z % w) /\ z \div w \in Int
    BY <1>1
  <2>2. z % w \in 0 .. w - 1
    BY <1>1
  <2>3. z = w * (z \div w) + (z % w)
    BY <1>1
  <2>4. z \div w \in Int
    BY <1>1
  <2>5. QED BY <2>2, <2>3, <2>4
<1> DEFINE q == (x + y) \div w
           r == (x + y) % w
<1> HIDE DEF q, r
<1>3. r \in Int /\ 0 <= r /\ r < w /\ x + y = w * q + r /\ q \in Int
  BY <1>2 DEF q, r
<1>4. q = 0 \/ q = 1
  <2>1. CASE q < 0
    <3>1. w * q <= w * (-1)
      BY <1>1, <1>3, <2>1
    <3>2. QED BY <1>1, <1>3, <3>1
  <2>2. CASE q > 1
    <3>1. w * q >= w * 2
      BY <1>1, <1>3, <2>2
    <3>2. QED BY <1>1, <1>3, <3>1
  <2>3. QED BY <1>3, <2>1, <2>2
<1>5. CASE q = 0
  BY <1>3, <1>5 DEF r
<1>6. CASE q = 1
  BY <1>3, <1>6 DEF r
<1>7. QED BY <1>4, <1>5, <1>6

LEMMA ClaimStep ==
  ASSUME AccountInv, NEW id \in DOMAIN airdrops, NEW a \in Addresses, NEW x \in Amounts,
         claim_airdrop(id, a, x)
  PROVE  AccountInv' /\ lost' >= lost
<1> DEFINE b == (balances[a] + x) % U64
           gain == b - balances[a]
<1>1. /\ x \in Nat /\ x > 0 /\ x < U64 /\ airdropped' = airdropped + x
      /\ total_supply' = total_supply /\ uncredited' = uncredited
      /\ balances' = [balances EXCEPT ![a] = b]
      /\ lost' = IF Fits(balances, a, x) THEN lost ELSE lost + U64
  BY Numbers DEF claim_airdrop
<1>2. /\ Fits(balances, a, x) => b = balances[a] + x
      /\ ~Fits(balances, a, x) => b = balances[a] + x - U64
  <2>1. balances[a] \in Nat /\ balances[a] < U64 /\ U64 \in Nat
    BY AccountNumbers, Numbers
  <2>2. /\ balances[a] + x < U64 => b = balances[a] + x
        /\ ~(balances[a] + x < U64) => b = balances[a] + x - U64
    BY <1>1, <2>1, WrappedSum
  <2> HIDE DEF b
  <2>3. Fits(balances, a, x) <=> balances[a] + x < U64
    BY <1>1, <2>1 DEF Fits
  <2>4. QED BY <2>2, <2>3
<1> HIDE DEF b
<1>3. b \in U64s /\ gain \in Int /\ balances[a] + gain = b
  <2>1. balances[a] \in Nat /\ balances[a] < U64 /\ U64 \in Nat
    BY AccountNumbers, Numbers
  <2>2. Fits(balances, a, x) <=> balances[a] + x < U64
    BY <1>1, <2>1 DEF Fits
  <2>3. b \in Nat /\ b < U64
    BY <1>1, <1>2, <2>1, <2>2
  <2>4. gain \in Int /\ balances[a] + gain = b
    BY <2>1, <2>3
  <2>5. QED BY <2>3, <2>4, Numbers
<1> HIDE DEF gain
<1>4. balances' \in Balances /\ Held' = Held + gain
  <2>1. balances \in Balances
    BY AccountNumbers
  <2>2. /\ [balances EXCEPT ![a] = balances[a] + gain] \in Balances
        /\ SumTo([balances EXCEPT ![a] = balances[a] + gain], NumAddresses) = SumTo(balances, NumAddresses) + gain
    BY <1>3, <2>1, CreditOne
  <2>3. QED BY <1>1, <1>3, <2>2 DEF Held
<1>5. Held' + lost' = Held + lost + x /\ lost' \in Nat /\ lost' >= lost
  BY <1>1, <1>2, <1>4, AccountNumbers DEF gain
<1>6. airdropped' \in Nat /\ airdropped' # 0
  BY <1>1, AccountNumbers
<1>7. Held' + lost' + uncredited' = total_supply' + airdropped'
  <2>1. Held' \in Int
    BY <1>3, <1>4, AccountNumbers
  <2>2. QED BY <1>1, <1>5, <2>1, AccountNumbers
<1>8. QED BY <1>1, <1>4, <1>5, <1>6, <1>7, AccountNumbers DEF AccountInv, AccountsOK, Books, NothingLost

LEMMA AccountInvStep == AccountInv /\ [Next]_vars => AccountInv'
<1> SUFFICES ASSUME AccountInv, [Next]_vars PROVE AccountInv'
  OBVIOUS
<1>1. CASE UNCHANGED <<accountVars, ledgerVars>>
  BY <1>1 DEF accountVars, ledgerVars, AccountInv, AccountsOK, Books, NothingLost, Held
<1>2. AccountStep
  BY StepsOfAccounts
<1>3. QED BY <1>1, <1>2, MintStep, BurnStep, MovedStep, BatchStep, ImportStep, ClaimStep DEF AccountStep

LEMMA AccountInvInit == Init => AccountInv
<1> SUFFICES ASSUME Init PROVE AccountInv
  OBVIOUS
<1>1. /\ total_supply \in U64s /\ total_supply \in Nat
      /\ balances = Nobody /\ uncredited = total_supply /\ airdropped = 0 /\ lost = 0
  BY Numbers, TokenAssumption DEF Init
<1>2. 0 \in U64s
  BY Numbers
<1>3. balances \in Balances /\ balances \in [1 .. NumAddresses -> Int] /\ \A a \in 1 .. NumAddresses : balances[a] = 0
  BY <1>1, <1>2 DEF Nobody, Balances, Addresses
<1>4. Held = 0
  BY <1>3, Numbers, SumToZero DEF Held
<1>5. QED BY <1>1, <1>3, <1>4 DEF AccountInv, AccountsOK, Books, NothingLost

(* The books of the token close in every reachable state, through calls that *)
(* failed halfway, sums that wrapped, batches and imports.                   *)
THEOREM BooksClose == Spec => []Books
<1>1. AccountInv => Books
  BY DEF AccountInv
<1> QED BY <1>1, AccountInvInit, AccountInvStep, PTL DEF Spec

(* As long as no airdrop was claimed and no wrapped snapshot imported, no    *)
(* call fails halfway: nothing is ever lost.                                 *)
THEOREM NothingIsLost == Spec => []NothingLost
<1>1. AccountInv => NothingLost
  BY DEF AccountInv
<1> QED BY <1>1, AccountInvInit, AccountInvStep, PTL DEF Spec

-----------------------------------------------------------------------------
(* Allowances *)

AllowanceInv ==
  /\ allowances \in Allowances /\ granted \in Allowances
  /\ spent \in [Addresses -> [Addresses -> Nat]]
  /\ AllowancesHold

(* What a step may do to the allowances. *)
AllowanceStep ==
  \/ UNCHANGED allowanceVars /\ lost' >= lost
  \/ \E owner, spender \in Addresses, v \in U64s : Granted(owner, spender, v) /\ lost' = lost
  \/ \E s \in Snapshots : import_migration_state(s)
  \/ \E a, to, spender \in Addresses, x \in Amounts : transfer_from(spender, a, to, x)

LEMMA AllowanceSteps ==
  ASSUME AccountInv, [Next]_vars
  PROVE  AllowanceStep
<1>1. lost \in Nat
  BY AccountNumbers
<1>2. CASE UNCHANGED vars
  BY <1>1, <1>2 DEF vars, ledgerVars, AllowanceStep
<1>3. ASSUME NEW a \in Addresses, NEW x \in Amounts,
             \/ mint(a, x) \/ burn(a, x)
             \/ \E to \in Addresses :
                  \/ transfer(a, to, x)
                  \/ approve(a, to, x)
                  \/ \E spender \in Addresses : transfer_from(spender, a, to, x)
             \/ \E id \in DOMAIN airdrops : claim_airdrop(id, a, x)
      PROVE  AllowanceStep
  <2>1. x \in Nat /\ x \in U64s
    BY Numbers
  <2>2. CASE mint(a, x)
    <3>1. UNCHANGED allowanceVars /\ (lost' = lost \/ lost' = lost + x)
      BY <2>2 DEF mint
    <3>2. QED BY <1>1, <2>1, <3>1 DEF AllowanceStep
  <2>3. CASE burn(a, x)
    BY <1>1, <2>3 DEF burn, ledgerVars, AllowanceStep
  <2>4. ASSUME NEW to \in Addresses, transfer(a, to, x) PROVE AllowanceStep
    <3>1. UNCHANGED allowanceVars /\ (lost' = lost \/ lost' = lost + x)
      BY <2>4 DEF transfer, Moved
    <3>2. QED BY <1>1, <2>1, <3>1 DEF AllowanceStep
  <2>5. ASSUME NEW to \in Addresses, approve(a, to, x) PROVE AllowanceStep
    BY <2>1, <2>5 DEF approve, ledgerVars, AllowanceStep
  <2>6. ASSUME NEW id \in DOMAIN airdrops, claim_airdrop(id, a, x) PROVE AllowanceStep
    <3>1. lost' >= lost
      BY <2>6, ClaimStep
    <3>2. QED BY <2>6, <3>1 DEF claim_airdrop, AllowanceStep
  <2>7. ASSUME NEW to \in Addresses, NEW spender \in Addresses, transfer_from(spender, a, to, x)
        PROVE  AllowanceStep
    BY <2>7 DEF AllowanceStep
  <2>8. QED BY <1>3, <2>2, <2>3, <2>4, <2>5, <2>6, <2>7
<1>4. ASSUME NEW a \in Addresses,
             \/ \E transfers \in Batches : batch_transfer(a, transfers)
             \/ set_admin(a)
             \/ \E b \in BOOLEAN : SetPaused(a, b)
             \/ \E drop \in Drops : create_airdrop(a, drop)
             \/ \E id \in DOMAIN airdrops : return_unclaimed_airdrop(a, id)
      PROVE  AllowanceStep
  <2>1. ASSUME NEW transfers \in Batches, batch_transfer(a, transfers) PROVE AllowanceStep
    <3>1. lost' >= lost
      BY <2>1, BatchStep
    <3>2. QED BY <2>1, <3>1 DEF batch_transfer, AllowanceStep
  <2>2. CASE \/ set_admin(a)
             \/ \E b \in BOOLEAN : SetPaused(a, b)
             \/ \E drop \in Drops : create_airdrop(a, drop)
             \/ \E id \in DOMAIN airdrops : return_unclaimed_airdrop(a, id)
    <3>1. UNCHANGED allowanceVars /\ lost' = lost
      BY <2>2 DEF set_admin, SetPaused, create_airdrop, return_unclaimed_airdrop, ledgerVars
    <3>2. QED BY <1>1, <3>1 DEF AllowanceStep
  <2>3. QED BY <1>4, <2>1, <2>2
<1>5. ASSUME NEW p \in Permits, NEW t \in 0 .. MaxLedger, permit(p, t) PROVE AllowanceStep
  <2>1. p.owner \in Addresses /\ p.spender \in Addresses /\ p.value \in U64s
    BY TokenAssumption DEF PermitType
  <2>2. QED BY <1>5, <2>1 DEF permit, ledgerVars, AllowanceStep
<1>6. CASE \/ \E h \in Hooks :
                \/ register_before_transfer_hook(h)
                \/ unregister_before_transfer_hook(h)
                \/ \E b \in BOOLEAN : set_before_hook_blocks(h, b)
           \/ Tick
  <2>1. UNCHANGED allowanceVars /\ lost' = lost
    BY <1>6 DEF register_before_transfer_hook, unregister_before_transfer_hook,
                set_before_hook_blocks, Tick, ledgerVars
  <2>2. QED BY <1>1, <2>1 DEF AllowanceStep
<1>7. CASE \E s \in Snapshots : import_migration_state(s)
  BY <1>7 DEF AllowanceStep
<1>8. QED BY <1>2, <1>3, <1>4, <1>5, <1>6, <1>7 DEF Next

LEMMA GrantedStep ==
  ASSUME AccountInv, AllowanceInv, NEW owner \in Addresses, NEW spender \in Addresses, NEW v \in U64s,
         Granted(owner, spender, v), lost' = lost
  PROVE  AllowanceInv'
<1>1. /\ allowances \in [Addresses -> [Addresses -> U64s]] /\ granted \in [Addresses -> [Addresses -> U64s]]
      /\ spent \in [Addresses -> [Addresses -> Nat]]
  BY DEF AllowanceInv, Allowances, Balances
<1>2. /\ allowances' = [allowances EXCEPT ![owner][spender] = v]
      /\ granted' = [granted EXCEPT ![owner][spender] = v]
      /\ spent' = [spent EXCEPT ![owner][spender] = 0]
  BY DEF Granted
<1>3. /\ allowances' \in [Addresses -> [Addresses -> U64s]] /\ granted' \in [Addresses -> [Addresses -> U64s]]
      /\ spent' \in [Addresses -> [Addresses -> Nat]]
      /\ \A p, q \in Addresses :
           /\ allowances'[p][q] = IF p = owner /\ q = spender THEN v ELSE allowances[p][q]
           /\ granted'[p][q] = IF p = owner /\ q = spender THEN v ELSE granted[p][q]
           /\ spent'[p][q] = IF p = owner /\ q = spender THEN 0 ELSE spent[p][q]
  <2>1. /\ [allowances EXCEPT ![owner][spender] = v] \in [Addresses -> [Addresses -> U64s]]
        /\ \A p, q \in Addresses :
             [allowances EXCEPT ![owner][spender] = v][p][q] = IF p = owner /\ q = spender THEN v ELSE allowances[p][q]
    BY <1>1
  <2>2. /\ [granted EXCEPT ![owner][spender] = v] \in [Addresses -> [Addresses -> U64s]]
        /\ \A p, q \in Addresses :
             [granted EXCEPT ![owner][spender] = v][p][q] = IF p = owner /\ q = spender THEN v ELSE granted[p][q]
    BY <1>1
  <2>3. /\ [spent EXCEPT ![owner][spender] = 0] \in [Addresses -> [Addresses -> Nat]]
        /\ \A p, q \in Addresses :
             [spent EXCEPT ![owner][spender] = 0][p][q] = IF p = owner /\ q = spender THEN 0 ELSE spent[p][q]
    BY <1>1
  <2>4. QED BY <1>2, <2>1, <2>2, <2>3
<1>4. v \in Nat
  BY Numbers
<1>5. AllowancesHold'
  <2>1. SUFFICES ASSUME NEW p \in Addresses, NEW q \in Addresses
                 PROVE  spent'[p][q] + allowances'[p][q] = granted'[p][q] \/ lost' > 0
    BY DEF AllowancesHold
  <2>2. CASE p = owner /\ q = spender
    BY <1>3, <1>4, <2>2
  <2>3. CASE ~(p = owner /\ q = spender)
    BY <1>3, <2>3 DEF AllowanceInv, AllowancesHold
  <2>4. QED BY <2>2, <2>3
<1>6. QED BY <1>3, <1>5 DEF AllowanceInv, Allowances, Balances

LEMMA SpentStep ==
  ASSUME AccountInv, AllowanceInv, NEW a \in Addresses, NEW to \in Addresses,
         NEW spender \in Addresses, NEW x \in Amounts, transfer_from(spender, a, to, x)
  PROVE  AllowanceInv'
<1>1. /\ allowances \in [Addresses -> [Addresses -> U64s]] /\ granted \in [Addresses -> [Addresses -> U64s]]
      /\ spent \in [Addresses -> [Addresses -> Nat]]
  BY DEF AllowanceInv, Allowances, Balances
<1>2. x \in Nat /\ x > 0 /\ lost \in Nat /\ spent[a][spender] \in Nat
  BY <1>1, Numbers, AccountNumbers
<1>3. /\ spent' = [spent EXCEPT ![a][spender] = spent[a][spender] + x]
      /\ granted' = granted /\ x <= allowances[a][spender]
  BY DEF transfer_from
<1>4. /\ spent' \in [Addresses -> [Addresses -> Nat]]
      /\ \A p, q \in Addresses :
           spent'[p][q] = IF p = a /\ q = spender THEN spent[a][spender] + x ELSE spent[p][q]
  <2>1. spent[a][spender] + x \in Nat
    BY <1>2
  <2>2. /\ [spent EXCEPT ![a][spender] = spent[a][spender] + x] \in [Addresses -> [Addresses -> Nat]]
        /\ \A p, q \in Addresses :
             [spent EXCEPT ![a][spender] = spent[a][spender] + x][p][q] = IF p = a /\ q = spender THEN spent[a][spender] + x ELSE spent[p][q]
    BY <1>1, <2>1
  <2>3. QED BY <1>3, <2>2
<1>5. \/ allowances' = allowances /\ lost' = lost + x
      \/ allowances' = [allowances EXCEPT ![a][spender] = allowances[a][spender] - x] /\ lost' = lost
  BY DEF transfer_from, Moved
<1>6. CASE allowances' = allowances /\ lost' = lost + x
  <2>1. lost' > 0
    BY <1>2, <1>6
  <2>2. QED BY <1>1, <1>3, <1>4, <1>6, <2>1 DEF AllowanceInv, Allowances, Balances, AllowancesHold
<1>7. CASE allowances' = [allowances EXCEPT ![a][spender] = allowances[a][spender] - x] /\ lost' = lost
  <2>1. /\ allowances[a][spender] \in Nat /\ allowances[a][spender] - x \in U64s
        /\ allowances[a][spender] - x \in Nat
    <3>1. allowances[a][spender] \in U64s /\ U64 \in Nat
      BY <1>1, Numbers
    <3>2. allowances[a][spender] \in Nat /\ allowances[a][spender] < U64
      BY <3>1, Numbers
    <3>3. allowances[a][spender] - x \in Nat /\ allowances[a][spender] - x < U64
      BY <1>2, <1>3, <3>1, <3>2
    <3>4. QED BY <3>2, <3>3, Numbers
  <2>2. /\ allowances' \in [Addresses -> [Addresses -> U64s]]
        /\ \A p, q \in Addresses :
             allowances'[p][q] = IF p = a /\ q = spender THEN allowances[a][spender] - x ELSE allowances[p][q]
    <3>1. /\ [allowances EXCEPT ![a][spender] = allowances[a][spender] - x] \in [Addresses -> [Addresses -> U64s]]
          /\ \A p, q \in Addresses :
               [allowances EXCEPT ![a][spender] = allowances[a][spender] - x][p][q] = IF p = a /\ q = spender THEN allowances[a][spender] - x ELSE allowances[p][q]
      BY <1>1, <2>1
    <3>2. QED BY <1>7, <3>1
  <2>3. AllowancesHold'
    <3>1. SUFFICES ASSUME NEW p \in Addresses, NEW q \in Addresses
                   PROVE  spent'[p][q] + allowances'[p][q] = granted'[p][q] \/ lost' > 0
      BY DEF AllowancesHold
    <3>2. spent[p][q] + allowances[p][q] = granted[p][q] \/ lost > 0
      BY DEF AllowanceInv, AllowancesHold
    <3>3. CASE p = a /\ q = spender
      BY <1>2, <1>3, <1>4, <1>7, <2>1, <2>2, <3>2, <3>3
    <3>4. CASE ~(p = a /\ q = spender)
      BY <1>3, <1>4, <1>7, <2>2, <3>2, <3>4
    <3>5. QED BY <3>3, <3>4
  <2>4. QED BY <1>1, <1>3, <1>4, <2>2, <2>3 DEF AllowanceInv, Allowances, Balances
<1>8. QED BY <1>5, <1>6, <1>7

LEMMA ImportedAllowances ==
  ASSUME NEW s \in Snapshots, import_migration_state(s)
  PROVE  AllowanceInv'
<1>1. /\ s.allowances \in [Addresses -> [Addresses -> U64s]]
      /\ allowances' = s.allowances /\ granted' = s.allowances /\ spent' = NoAllowances
  BY TokenAssumption DEF import_migration_state, Allowances, Balances
<1>2. /\ NoAllowances \in [Addresses -> [Addresses -> Nat]]
      /\ \A p, q \in Addresses : NoAllowances[p][q] = 0
  BY DEF NoAllowances, Nobody
<1>3. \A p, q \in Addresses : s.allowances[p][q] \in Nat
  BY <1>1, Numbers
<1>4. QED BY <1>1, <1>2, <1>3 DEF AllowanceInv, AllowancesHold, Allowances, Balances

LEMMA AllowanceInvStep == AccountInv /\ AllowanceInv /\ [Next]_vars => AllowanceInv'
<1> SUFFICES ASSUME AccountInv, AllowanceInv, [Next]_vars PROVE AllowanceInv'
  OBVIOUS
<1>1. CASE UNCHANGED allowanceVars /\ lost' >= lost
  <2>1. allowances' = allowances /\ granted' = granted /\ spent' = spent
    BY <1>1 DEF allowanceVars
  <2>2. lost > 0 => lost' > 0
    <3>1. lost \in Nat /\ lost' \in Nat
      BY AccountNumbers, AccountInvStep DEF AccountInv, AccountsOK
    <3>2. QED BY <1>1, <3>1
  <2>3. QED BY <2>1, <2>2 DEF AllowanceInv, AllowancesHold
<1>2. AllowanceStep
  BY AllowanceSteps
<1>3. QED BY <1>1, <1>2, GrantedStep, SpentStep, ImportedAllowances DEF AllowanceStep

LEMMA AllowanceInvInit == Init => AllowanceInv
<1> SUFFICES ASSUME Init PROVE AllowanceInv
  OBVIOUS
<1>1. /\ NoAllowances \in [Addresses -> [Addresses -> Nat]]
      /\ \A p, q \in Addresses : NoAllowances[p][q] = 0
  BY DEF NoAllowances, Nobody
<1>2. NoAllowances \in [Addresses -> [Addresses -> U64s]]
  <2>1. 0 \in U64s
    BY Numbers
  <2>2. QED BY <2>1 DEF NoAllowances, Nobody
<1>3. QED BY <1>1, <1>2 DEF Init, AllowanceInv, AllowancesHold, Allowances, Balances

(* What was moved on an allowance and what is left of it are what was last   *)
(* granted, unless a transfer failed halfway.                                *)
THEOREM AllowancesAreKept == Spec => []AllowancesHold
<1>1. AllowanceInv => AllowancesHold
  BY DEF AllowanceInv
<1> QED BY <1>1, AccountInvInit, AccountInvStep, AllowanceInvInit, AllowanceInvStep, PTL DEF Spec

-----------------------------------------------------------------------------
(* Permits *)

(* Inductive: a permit that was accepted has a nonce below its owner's, so   *)
(* that the one accepted next is another one.                                *)
PermitInv ==
  /\ permit_nonces \in [Addresses -> Nat]
  /\ used \subseteq Permits /\ IsFiniteSet(used)
  /\ \A p \in used : p.nonce < permit_nonces[p.owner]
  /\ PermitsOnce

LEMMA PermitStep ==
  ASSUME PermitInv, NEW p \in Permits, NEW t, permit(p, t)
  PROVE  PermitInv'
<1>1. /\ p.nonce = permit_nonces[p.owner] /\ p.owner \in Addresses /\ p.nonce \in Nat
      /\ permit_nonces' = [permit_nonces EXCEPT ![p.owner] = @ + 1]
      /\ used' = used \cup {p}
  BY TokenAssumption DEF permit, SignatureValid, PermitType
<1>2. /\ permit_nonces \in [Addresses -> Nat] /\ used \subseteq Permits /\ IsFiniteSet(used)
      /\ \A q \in used : q.nonce < permit_nonces[q.owner] /\ q.owner \in Addresses /\ q.nonce \in Nat
  BY TokenAssumption DEF PermitInv, PermitType
<1>3. p \notin used
  BY <1>1, <1>2
<1>4. permit_nonces' \in [Addresses -> Nat]
  BY <1>1, <1>2
<1>5. /\ permit_nonces'[p.owner] = permit_nonces[p.owner] + 1
      /\ \A a \in Addresses : a # p.owner => permit_nonces'[a] = permit_nonces[a]
  BY <1>1, <1>2
<1>6. used' \subseteq Permits /\ IsFiniteSet(used')
  BY <1>1, <1>2, FS_AddElement
<1>7. \A q \in used' : q.nonce < permit_nonces'[q.owner]
  BY <1>1, <1>2, <1>5
<1>8. PermitsOnce'
  <2>1. SUFFICES ASSUME NEW a \in Addresses
                 PROVE  permit_nonces'[a] = Cardinality({q \in used' : q.owner = a})
    BY DEF PermitsOnce
  <2>2. permit_nonces[a] = Cardinality({q \in used : q.owner = a})
    BY DEF PermitInv, PermitsOnce
  <2>3. CASE a = p.owner
    <3>1. {q \in used' : q.owner = a} = {q \in used : q.owner = a} \cup {p}
      BY <1>1, <2>3
    <3>2. p \notin {q \in used : q.owner = a} /\ IsFiniteSet({q \in used : q.owner = a})
      BY <1>2, <1>3, FS_Subset
    <3>3. Cardinality({q \in used : q.owner = a} \cup {p}) = Cardinality({q \in used : q.owner = a}) + 1
      BY <3>2, FS_AddElement
    <3>4. QED BY <1>5, <2>2, <2>3, <3>1, <3>3
  <2>4. CASE a # p.owner
    <3>1. {q \in used' : q.owner = a} = {q \in used : q.owner = a}
      BY <1>1, <2>4
    <3>2. QED BY <1>5, <2>2, <2>4, <3>1
  <2>5. QED BY <2>3, <2>4
<1>9. QED BY <1>4, <1>6, <1>7, <1>8 DEF PermitInv

LEMMA PermitInvStep == PermitInv /\ [Next]_vars => PermitInv'
<1> SUFFICES ASSUME PermitInv, [Next]_vars PROVE PermitInv'
  OBVIOUS
<1>1. CASE UNCHANGED permitVars
  BY <1>1 DEF permitVars, PermitInv, PermitsOnce
<1>2. UNCHANGED permitVars \/ \E p \in Permits, t \in 0 .. MaxLedger : permit(p, t)
  <2>1. CASE UNCHANGED vars
    BY <2>1 DEF vars
  <2>2. CASE \E a \in Addresses, x \in Amounts :
               \/ mint(a, x) \/ burn(a, x)
               \/ \E to \in Addresses :
                    \/ transfer(a, to, x)
                    \/ approve(a, to, x)
                    \/ \E spender \in Addresses : transfer_from(spender, a, to, x)
               \/ \E id \in DOMAIN airdrops : claim_airdrop(id, a, x)
    <3>1. PICK a \in Addresses, x \in Amounts :
               \/ mint(a, x) \/ burn(a, x)
               \/ \E to \in Addresses :
                    \/ transfer(a, to, x)
                    \/ approve(a, to, x)
                    \/ \E spender \in Addresses : transfer_from(spender, a, to, x)
               \/ \E id \in DOMAIN airdrops : claim_airdrop(id, a, x)
      BY <2>2
    <3>2. CASE mint(a, x) \/ burn(a, x)
      BY <3>2 DEF mint, burn
    <3>3. CASE \E to \in Addresses :
                 \/ transfer(a, to, x)
                 \/ approve(a, to, x)
                 \/ \E spender \in Addresses : transfer_from(spender, a, to, x)
      BY <3>3 DEF transfer, approve, transfer_from
    <3>4. CASE \E id \in DOMAIN airdrops : claim_airdrop(id, a, x)
      BY <3>4 DEF claim_airdrop
    <3>5. QED BY <3>1, <3>2, <3>3, <3>4
  <2>3. CASE \E a \in Addresses :
               \/ \E transfers \in Batches : batch_transfer(a, transfers)
               \/ set_admin(a)
               \/ \E b \in BOOLEAN : SetPaused(a, b)
               \/ \E drop \in Drops : create_airdrop(a, drop)
               \/ \E id \in DOMAIN airdrops : return_unclaimed_airdrop(a, id)
    BY <2>3 DEF batch_transfer, set_admin, SetPaused, create_airdrop, return_unclaimed_airdrop
  <2>4. CASE \/ \E s \in Snapshots : import_migration_state(s)
             \/ \E h \in Hooks :
                  \/ register_before_transfer_hook(h)
                  \/ unregister_before_transfer_hook(h)
                  \/ \E b \in BOOLEAN : set_before_hook_blocks(h, b)
             \/ Tick
    BY <2>4 DEF import_migration_state, register_before_transfer_hook,
                unregister_before_transfer_hook, set_before_hook_blocks, Tick
  <2>5. QED BY <2>1, <2>2, <2>3, <2>4 DEF Next
<1>3. QED BY <1>1, <1>2, PermitStep

LEMMA PermitInvInit == Init => PermitInv
<1> SUFFICES ASSUME Init PROVE PermitInv
  OBVIOUS
<1>1. permit_nonces \in [Addresses -> Nat] /\ used = {} /\ \A a \in Addresses : permit_nonces[a] = 0
  BY DEF Init, Nobody
<1>2. IsFiniteSet(used) /\ \A a \in Addresses : Cardinality({p \in used : p.owner = a}) = 0
  <2>1. \A a \in Addresses : {p \in used : p.owner = a} = {}
    BY <1>1
  <2>2. QED BY <1>1, <2>1, FS_EmptySet
<1>3. QED BY <1>1, <1>2 DEF PermitInv, PermitsOnce

-----------------------------------------------------------------------------
(* Airdrops *)

(* A remainder is the only one. *)
LEMMA Remainder ==
  ASSUME NEW w \in Nat, NEW z \in Nat, NEW q \in Int, NEW e \in Nat, e < w, z = w * q + e
  PROVE  z % w = e
<1>1. w > 0
  OBVIOUS
<1>2. z % w \in 0 .. w - 1
  BY <1>1
<1>3. z = w * (z \div w) + (z % w)
  BY <1>1
<1>4. z \div w \in Int
  BY <1>1
<1> DEFINE p == z \div w
           r == z % w
           d == q - p
<1> HIDE DEF p, r
<1>5. p \in Int /\ r \in Int /\ 0 <= r /\ r < w /\ w * q + e = w * p + r /\ d \in Int
  BY <1>2, <1>3, <1>4 DEF p, r
<1>6. w * d = w * q - w * p
  <2>1. w \in Int /\ q \in Int /\ p \in Int
    BY <1>5
  <2>2. QED BY <2>1
<1> HIDE DEF d
<1>7. w * d \in Int /\ w * d = r - e
  <2>1. w * q \in Int /\ w * p \in Int /\ w * d \in Int
    BY <1>5
  <2>2. QED BY <1>5, <1>6, <2>1
<1>8. d = 0
  <2>1. CASE d > 0
    <3>1. w * d >= w * 1
      BY <1>1, <1>5, <2>1
    <3>2. QED BY <1>5, <1>7, <3>1
  <2>2. CASE d < 0
    <3>1. w * d <= w * (-1)
      BY <1>1, <1>5, <2>2
    <3>2. QED BY <1>5, <1>7, <3>1
  <2>3. QED BY <1>5, <2>1, <2>2
<1>9. QED BY <1>5, <1>7, <1>8 DEF r

(* Adding in a width to what was added in it before. *)
LEMMA AddedInWidth ==
  ASSUME NEW w \in Nat, NEW s \in Nat, NEW x \in Nat, x < w
  PROVE  ((s % w) + x) % w = (s + x) % w
<1>1. w > 0
  OBVIOUS
<1>2. s % w \in 0 .. w - 1
  BY <1>1
<1>3. s = w * (s \div w) + (s % w)
  BY <1>1
<1>4. s \div w \in Int
  BY <1>1
<1> DEFINE q == s \div w
           r == s % w
<1> HIDE DEF q, r
<1>5. q \in Int /\ r \in Nat /\ r < w /\ s = w * q + r
  BY <1>2, <1>3, <1>4 DEF q, r
<1>6. /\ r + x < w => (r + x) % w = r + x
      /\ ~(r + x < w) => (r + x) % w = r + x - w
  BY <1>5, WrappedSum
<1>7. CASE r + x < w
  <2>1. r + x \in Nat /\ s + x \in Nat /\ s + x = w * q + (r + x)
    <3>1. w * q \in Int
      BY <1>5
    <3>2. QED BY <1>5, <3>1
  <2>2. (s + x) % w = r + x
    BY <1>5, <1>7, <2>1, Remainder
  <2>3. QED BY <1>6, <1>7, <2>2 DEF r
<1>8. CASE ~(r + x < w)
  <2>1. w * (q + 1) = w * q + w /\ w * q \in Int
    BY <1>5
  <2>2. r + x - w \in Nat /\ r + x - w < w /\ s + x \in Nat /\ q + 1 \in Int
    BY <1>5, <1>8
  <2>3. s + x = w * (q + 1) + (r + x - w)
    BY <1>5, <2>1
  <2>4. (s + x) % w = r + x - w
    BY <2>2, <2>3, Remainder
  <2>5. QED BY <1>6, <1>8, <2>4 DEF r
<1>9. QED BY <1>7, <1>8

ClaimsOf(c, id) == [a \in Addresses |-> GetOr(c, <<id, a>>, 0)]

AirdropInv ==
  /\ airdrops \in Seq(MerkleAirdrop)
  /\ IsMap(airdrop_claims, (DOMAIN airdrops) \X Addresses, U64s)
  /\ sequence \in Nat
  /\ ClaimsOnce

(* What a step may do to the airdrops. *)
AirdropStep ==
  \/ UNCHANGED <<airdrops, airdrop_claims>> /\ (sequence' = sequence \/ sequence' = sequence + 1)
  \/ \E a \in Addresses, drop \in Drops : create_airdrop(a, drop)
  \/ \E id \in DOMAIN airdrops, a \in Addresses : return_unclaimed_airdrop(a, id)
  \/ \E id \in DOMAIN airdrops, a \in Addresses, x \in Amounts : claim_airdrop(id, a, x)

LEMMA AirdropSteps == [Next]_vars => AirdropStep
<1> SUFFICES ASSUME [Next]_vars PROVE AirdropStep
  OBVIOUS
<1>1. CASE UNCHANGED airdropVars
  BY <1>1 DEF airdropVars, AirdropStep
<1>2. CASE UNCHANGED vars
  BY <1>1, <1>2 DEF vars
<1>3. ASSUME NEW a \in Addresses, NEW x \in Amounts,
             \/ mint(a, x) \/ burn(a, x)
             \/ \E to \in Addresses :
                  \/ transfer(a, to, x)
                  \/ approve(a, to, x)
                  \/ \E spender \in Addresses : transfer_from(spender, a, to, x)
             \/ \E id \in DOMAIN airdrops : claim_airdrop(id, a, x)
      PROVE  AirdropStep
  <2>1. CASE mint(a, x) \/ burn(a, x)
    BY <1>1, <2>1 DEF mint, burn
  <2>2. CASE \E to \in Addresses :
               \/ transfer(a, to, x)
               \/ approve(a, to, x)
               \/ \E spender \in Addresses : transfer_from(spender, a, to, x)
    BY <1>1, <2>2 DEF transfer, approve, transfer_from
  <2>3. CASE \E id \in DOMAIN airdrops : claim_airdrop(id, a, x)
    BY <2>3 DEF AirdropStep
  <2>4. QED BY <1>3, <2>1, <2>2, <2>3
<1>4. ASSUME NEW a \in Addresses,
             \/ \E transfers \in Batches : batch_transfer(a, transfers)
             \/ set_admin(a)
             \/ \E b \in BOOLEAN : SetPaused(a, b)
             \/ \E drop \in Drops : create_airdrop(a, drop)
             \/ \E id \in DOMAIN airdrops : return_unclaimed_airdrop(a, id)
      PROVE  AirdropStep
  <2>1. CASE \/ \E transfers \in Batches : batch_transfer(a, transfers)
             \/ set_admin(a)
             \/ \E b \in BOOLEAN : SetPaused(a, b)
    BY <1>1, <2>1 DEF batch_transfer, set_admin, SetPaused
  <2>2. CASE \/ \E drop \in Drops : create_airdrop(a, drop)
             \/ \E id \in DOMAIN airdrops : return_unclaimed_airdrop(a, id)
    BY <2>2 DEF AirdropStep
  <2>3. QED BY <1>4, <2>1, <2>2
<1>5. CASE \/ \E p \in Permits, t \in 0 .. MaxLedger : permit(p, t)
           \/ \E s \in Snapshots : import_migration_state(s)
           \/ \E h \in Hooks :
                \/ register_before_transfer_hook(h)
                \/ unregister_before_transfer_hook(h)
                \/ \E b \in BOOLEAN : set_before_hook_blocks(h, b)
  BY <1>1, <1>5 DEF permit, import_migration_state, register_before_transfer_hook,
                    unregister_before_transfer_hook, set_before_hook_blocks
<1>6. CASE Tick
  BY <1>6 DEF Tick, AirdropStep
<1>7. QED BY <1>2, <1>3, <1>4, <1>5, <1>6 DEF Next

LEMMA ClaimsOfType ==
  ASSUME NEW K, NEW c, IsMap(c, K, U64s), NEW id
  PROVE  ClaimsOf(c, id) \in [1 .. NumAddresses -> Nat] /\ ClaimsOf(c, id) \in [1 .. NumAddresses -> Int]
<1>1. \A k \in DOMAIN c : c[k] \in Nat
  BY Numbers DEF IsMap
<1>2. \A k : GetOr(c, k, 0) \in Nat
  BY <1>1 DEF GetOr
<1>3. \A a \in Addresses : GetOr(c, <<id, a>>, 0) \in Nat /\ GetOr(c, <<id, a>>, 0) \in Int
  BY <1>2
<1>4. QED BY <1>3 DEF ClaimsOf, Addresses

(* Replacing one airdrop. *)
LEMMA AirdropReplaced ==
  ASSUME airdrops \in Seq(MerkleAirdrop), NEW id \in DOMAIN airdrops, NEW e \in MerkleAirdrop,
         airdrops' = [airdrops EXCEPT ![id] = e]
  PROVE  /\ airdrops' \in Seq(MerkleAirdrop) /\ DOMAIN airdrops' = DOMAIN airdrops
         /\ airdrops'[id] = e
         /\ \A j \in DOMAIN airdrops : j # id => airdrops'[j] = airdrops[j]
<1>1. id \in 1 .. Len(airdrops) /\ DOMAIN airdrops = 1 .. Len(airdrops)
  OBVIOUS
<1>2. [airdrops EXCEPT ![id] = e] \in Seq(MerkleAirdrop)
  BY <1>1, ExceptSeq
<1>3. QED BY <1>1, <1>2

LEMMA AirdropType ==
  ASSUME airdrops \in Seq(MerkleAirdrop), NEW id \in DOMAIN airdrops
  PROVE  airdrops[id] \in MerkleAirdrop
<1>1. id \in 1 .. Len(airdrops)
  OBVIOUS
<1>2. QED BY <1>1, ElementOfSeq

LEMMA CreatedStep ==
  ASSUME AirdropInv, NEW a \in Addresses, NEW drop \in Drops, create_airdrop(a, drop)
  PROVE  AirdropInv'
<1> DEFINE new == [drop |-> drop, claimed_amount |-> 0, is_active |-> TRUE]
           n == Len(airdrops) + 1
<1>1. /\ airdrops' = Append(airdrops, new) /\ airdrop_claims' = airdrop_claims /\ sequence' = sequence
      /\ airdrops \in Seq(MerkleAirdrop) /\ sequence \in Nat
  BY DEF create_airdrop, AirdropInv
<1>2. new \in MerkleAirdrop
  <2>1. 0 \in U64s
    BY Numbers
  <2>2. QED BY <2>1 DEF MerkleAirdrop
<1>3. new.claimed_amount = 0
  OBVIOUS
<1> HIDE DEF new
<1>4. /\ airdrops' \in Seq(MerkleAirdrop) /\ DOMAIN airdrops' = DOMAIN airdrops \cup {n} /\ n \notin DOMAIN airdrops
      /\ airdrops'[n] = new /\ \A id \in DOMAIN airdrops : airdrops'[id] = airdrops[id]
  BY <1>1, <1>2
<1> HIDE DEF n
<1>5. IsMap(airdrop_claims, (DOMAIN airdrops) \X Addresses, U64s)
  BY DEF AirdropInv
<1>6. IsMap(airdrop_claims', (DOMAIN airdrops') \X Addresses, U64s)
  BY <1>1, <1>4, <1>5 DEF IsMap
<1>7. SumTo(ClaimsOf(airdrop_claims, n), NumAddresses) = 0
  <2>1. \A b \in 1 .. NumAddresses : ClaimsOf(airdrop_claims, n)[b] = 0
    BY <1>4, <1>5 DEF ClaimsOf, GetOr, IsMap, Addresses
  <2>2. ClaimsOf(airdrop_claims, n) \in [1 .. NumAddresses -> Int] /\ NumAddresses \in Nat
    BY <1>5, ClaimsOfType, Numbers
  <2>3. QED BY <2>1, <2>2, SumToZero
<1>8. 0 % U64 = 0
  BY TokenAssumption
<1>9. ClaimsOnce'
  <2>1. SUFFICES ASSUME NEW id \in DOMAIN airdrops'
                 PROVE  airdrops'[id].claimed_amount
                          = SumTo(ClaimsOf(airdrop_claims', id), NumAddresses) % U64
    BY DEF ClaimsOnce, ClaimsOf
  <2>2. CASE id = n
    BY <1>1, <1>3, <1>4, <1>7, <1>8, <2>2
  <2>3. CASE id \in DOMAIN airdrops
    BY <1>1, <1>4, <2>3 DEF AirdropInv, ClaimsOnce, ClaimsOf
  <2>4. QED BY <1>4, <2>2, <2>3
<1>10. QED BY <1>1, <1>4, <1>6, <1>9 DEF AirdropInv

LEMMA ReturnedStep ==
  ASSUME AirdropInv, NEW id \in DOMAIN airdrops, NEW a \in Addresses, return_unclaimed_airdrop(a, id)
  PROVE  AirdropInv'
<1>1. /\ airdrops \in Seq(MerkleAirdrop) /\ airdrop_claims' = airdrop_claims /\ sequence' = sequence
      /\ airdrops' = [airdrops EXCEPT ![id].is_active = FALSE]
  BY DEF return_unclaimed_airdrop, airdropVars, AirdropInv
<1> DEFINE e == [airdrops[id] EXCEPT !.is_active = FALSE]
<1>2. e \in MerkleAirdrop /\ e.claimed_amount = airdrops[id].claimed_amount
  <2>1. airdrops[id] \in MerkleAirdrop
    BY <1>1, AirdropType
  <2>2. QED BY <2>1 DEF MerkleAirdrop
<1>3. airdrops' = [airdrops EXCEPT ![id] = e]
  BY <1>1
<1> HIDE DEF e
<1>4. /\ airdrops' \in Seq(MerkleAirdrop) /\ DOMAIN airdrops' = DOMAIN airdrops
      /\ \A j \in DOMAIN airdrops : airdrops'[j].claimed_amount = airdrops[j].claimed_amount
  BY <1>1, <1>2, <1>3, AirdropReplaced
<1>5. ClaimsOnce'
  BY <1>1, <1>4 DEF AirdropInv, ClaimsOnce
<1>6. QED BY <1>1, <1>4, <1>5 DEF AirdropInv

LEMMA ClaimedStep ==
  ASSUME AirdropInv, NEW id \in DOMAIN airdrops, NEW a \in Addresses, NEW x \in Amounts,
         claim_airdrop(id, a, x)
  PROVE  AirdropInv'
<1>1. /\ airdrops \in Seq(MerkleAirdrop) /\ sequence' = sequence /\ sequence \in Nat
      /\ <<id, a>> \notin DOMAIN airdrop_claims
      /\ airdrop_claims' = Put(airdrop_claims, <<id, a>>, x)
      /\ airdrops' = [airdrops EXCEPT ![id].claimed_amount = (@ + x) % U64]
  BY DEF claim_airdrop, NotClaimed, AirdropInv
<1>2. x \in U64s /\ x \in Nat /\ x < U64 /\ U64 \in Nat /\ U64 > 0
  BY Numbers
<1>3. IsMap(airdrop_claims, (DOMAIN airdrops) \X Addresses, U64s)
  BY DEF AirdropInv
<1>4. DOMAIN airdrops' = DOMAIN airdrops
  BY <1>1
<1>5. /\ DOMAIN airdrop_claims' = DOMAIN airdrop_claims \cup {<<id, a>>}
      /\ \A k \in DOMAIN airdrop_claims' :
           airdrop_claims'[k] = IF k = <<id, a>> THEN x ELSE airdrop_claims[k]
      /\ airdrop_claims' = [k \in DOMAIN airdrop_claims' |-> airdrop_claims'[k]]
  BY <1>1 DEF Put
<1>6. IsMap(airdrop_claims', (DOMAIN airdrops') \X Addresses, U64s)
  <2>1. DOMAIN airdrop_claims' \subseteq (DOMAIN airdrops') \X Addresses
    BY <1>3, <1>4, <1>5 DEF IsMap
  <2>2. \A k \in DOMAIN airdrop_claims' : airdrop_claims'[k] \in U64s
    BY <1>2, <1>3, <1>5 DEF IsMap
  <2>3. QED BY <1>5, <2>1, <2>2 DEF IsMap
<1> DEFINE claimed == (airdrops[id].claimed_amount + x) % U64
           e == [airdrops[id] EXCEPT !.claimed_amount = claimed]
<1>7. claimed \in U64s /\ airdrops[id] \in MerkleAirdrop
  <2>1. airdrops[id] \in MerkleAirdrop
    BY <1>1, AirdropType
  <2>2. airdrops[id].claimed_amount \in Nat
    BY <2>1, Numbers DEF MerkleAirdrop
  <2>3. ASSUME NEW z \in Nat PROVE z % U64 \in 0 .. U64 - 1
    BY <1>2
  <2>4. airdrops[id].claimed_amount + x \in Nat
    BY <1>2, <2>2
  <2>5. QED BY <2>1, <2>3, <2>4 DEF U64s
<1>8. /\ airdrops' \in Seq(MerkleAirdrop)
      /\ airdrops'[id].claimed_amount = (airdrops[id].claimed_amount + x) % U64
      /\ \A j \in DOMAIN airdrops : j # id => airdrops'[j] = airdrops[j]
  <2>1. airdrops' = [airdrops EXCEPT ![id] = e]
    BY <1>1
  <2> HIDE DEF claimed
  <2>2. e \in MerkleAirdrop /\ e.claimed_amount = claimed
    BY <1>7 DEF MerkleAirdrop
  <2> HIDE DEF e
  <2>3. QED BY <1>1, <2>1, <2>2, AirdropReplaced DEF claimed
<1> HIDE DEF e, claimed
<1> DEFINE old == ClaimsOf(airdrop_claims, id)
<1>9. ClaimsOf(airdrop_claims', id) = [old EXCEPT ![a] = x] /\ old[a] = 0
  BY <1>1, <1>5 DEF ClaimsOf, GetOr
<1>10. \A j \in DOMAIN airdrops : j # id => ClaimsOf(airdrop_claims', j) = ClaimsOf(airdrop_claims, j)
  <2>1. SUFFICES ASSUME NEW j \in DOMAIN airdrops, j # id, NEW b \in Addresses
                 PROVE  GetOr(airdrop_claims', <<j, b>>, 0) = GetOr(airdrop_claims, <<j, b>>, 0)
    BY DEF ClaimsOf
  <2>2. <<j, b>> # <<id, a>>
    BY <2>1
  <2>3. QED BY <1>5, <2>2 DEF GetOr
<1>11. SumTo(ClaimsOf(airdrop_claims', id), NumAddresses) = SumTo(old, NumAddresses) + x
       /\ SumTo(old, NumAddresses) \in Nat
  <2>1. /\ old \in [1 .. NumAddresses -> Nat] /\ old \in [1 .. NumAddresses -> Int]
        /\ NumAddresses \in Nat /\ a \in 1 .. NumAddresses
    BY <1>3, ClaimsOfType, Numbers
  <2> HIDE DEF old
  <2>2. SumTo(old, NumAddresses) \in Nat
    BY <2>1, SumToBounds
  <2>3. x \in Int
    BY <1>2
  <2>4. SumTo([old EXCEPT ![a] = x], NumAddresses) = SumTo(old, NumAddresses) - old[a] + x
    BY <2>1, <2>3, SumToUpdate
  <2>5. QED BY <1>2, <1>9, <2>2, <2>4
<1> HIDE DEF old
<1>12. ClaimsOnce'
  <2>1. SUFFICES ASSUME NEW j \in DOMAIN airdrops
                 PROVE  airdrops'[j].claimed_amount
                          = SumTo(ClaimsOf(airdrop_claims', j), NumAddresses) % U64
    BY <1>4 DEF ClaimsOnce, ClaimsOf
  <2>2. airdrops[j].claimed_amount = SumTo(ClaimsOf(airdrop_claims, j), NumAddresses) % U64
    BY DEF AirdropInv, ClaimsOnce, ClaimsOf
  <2>3. CASE j # id
    BY <1>8, <1>10, <2>2, <2>3
  <2>4. CASE j = id
    <3>1. airdrops[id].claimed_amount = SumTo(old, NumAddresses) % U64
      BY <2>2, <2>4 DEF old
    <3>2. ((SumTo(old, NumAddresses) % U64) + x) % U64 = (SumTo(old, NumAddresses) + x) % U64
      BY <1>2, <1>11, AddedInWidth
    <3>3. QED BY <1>8, <1>11, <2>4, <3>1, <3>2
  <2>5. QED BY <2>3, <2>4
<1>13. QED BY <1>1, <1>6, <1>8, <1>12 DEF AirdropInv

LEMMA AirdropInvStep == AirdropInv /\ [Next]_vars => AirdropInv'
<1> SUFFICES ASSUME AirdropInv, [Next]_vars PROVE AirdropInv'
  OBVIOUS
<1>1. CASE UNCHANGED <<airdrops, airdrop_claims>> /\ (sequence' = sequence \/ sequence' = sequence + 1)
  BY <1>1 DEF AirdropInv, ClaimsOnce
<1>2. AirdropStep
  BY AirdropSteps
<1>3. QED BY <1>1, <1>2, CreatedStep, ReturnedStep, ClaimedStep DEF AirdropStep

LEMMA AirdropInvInit == Init => AirdropInv
BY DEF Init, AirdropInv, ClaimsOnce, IsMap, EmptyMap

(* Every permit that is accepted is another one, and no airdrop pays a       *)
(* recipient twice: nonces and claimed amounts count what was accepted.      *)
THEOREM AcceptedOnce == Spec => []OnceOnly
<1>1. PermitInv /\ AirdropInv => OnceOnly
  BY DEF PermitInv, AirdropInv, OnceOnly
<1> QED BY <1>1, PermitInvInit, PermitInvStep, AirdropInvInit, AirdropInvStep, PTL DEF Spec

-----------------------------------------------------------------------------
(* Types *)

ControlInv ==
  /\ admin \in Addresses \cup {NoAdmin} /\ paused \in BOOLEAN
  /\ IsMap(before_transfer_hooks, Hooks, BOOLEAN)

LEMMA ControlInvStep == ControlInv /\ [Next]_vars => ControlInv'
<1> SUFFICES ASSUME ControlInv, [Next]_vars PROVE ControlInv'
  OBVIOUS
<1>1. CASE UNCHANGED controlVars
  BY <1>1 DEF controlVars, ControlInv
<1>2. CASE UNCHANGED vars
  BY <1>1, <1>2 DEF vars
<1>3. ASSUME NEW a \in Addresses, NEW x \in Amounts,
             \/ mint(a, x) \/ burn(a, x)
             \/ \E to \in Addresses :
                  \/ transfer(a, to, x)
                  \/ approve(a, to, x)
                  \/ \E spender \in Addresses : transfer_from(spender, a, to, x)
             \/ \E id \in DOMAIN airdrops : claim_airdrop(id, a, x)
      PROVE  ControlInv'
  <2>1. CASE mint(a, x) \/ burn(a, x)
    BY <1>1, <2>1 DEF mint, burn
  <2>2. CASE \E to \in Addresses :
               \/ transfer(a, to, x)
               \/ approve(a, to, x)
               \/ \E spender \in Addresses : transfer_from(spender, a, to, x)
    BY <1>1, <2>2 DEF transfer, approve, transfer_from
  <2>3. CASE \E id \in DOMAIN airdrops : claim_airdrop(id, a, x)
    BY <1>1, <2>3 DEF claim_airdrop
  <2>4. QED BY <1>3, <2>1, <2>2, <2>3
<1>4. ASSUME NEW a \in Addresses,
             \/ \E transfers \in Batches : batch_transfer(a, transfers)
             \/ set_admin(a)
             \/ \E b \in BOOLEAN : SetPaused(a, b)
             \/ \E drop \in Drops : create_airdrop(a, drop)
             \/ \E id \in DOMAIN airdrops : return_unclaimed_airdrop(a, id)
      PROVE  ControlInv'
  <2>1. CASE \/ \E transfers \in Batches : batch_transfer(a, transfers)
             \/ \E drop \in Drops : create_airdrop(a, drop)
             \/ \E id \in DOMAIN airdrops : return_unclaimed_airdrop(a, id)
    BY <1>1, <2>1 DEF batch_transfer, create_airdrop, return_unclaimed_airdrop
  <2>2. CASE set_admin(a)
    BY <2>2 DEF set_admin, ControlInv
  <2>3. CASE \E b \in BOOLEAN : SetPaused(a, b)
    BY <2>3 DEF SetPaused, ControlInv
  <2>4. QED BY <1>4, <2>1, <2>2, <2>3
<1>5. CASE \/ \E p \in Permits, t \in 0 .. MaxLedger : permit(p, t)
           \/ \E s \in Snapshots : import_migration_state(s)
           \/ Tick
  BY <1>1, <1>5 DEF permit, import_migration_state, Tick
<1>6. ASSUME NEW h \in Hooks,
             \/ register_before_transfer_hook(h)
             \/ unregister_before_transfer_hook(h)
             \/ \E b \in BOOLEAN : set_before_hook_blocks(h, b)
      PROVE  ControlInv'
  <2>1. CASE UNCHANGED <<admin, paused>> /\ \E b \in BOOLEAN :
               before_transfer_hooks' = Put(before_transfer_hooks, h, b)
    BY <2>1 DEF ControlInv, IsMap, Put
  <2>2. CASE UNCHANGED <<admin, paused>> /\ before_transfer_hooks' = Drop(before_transfer_hooks, h)
    BY <2>2 DEF ControlInv, IsMap, Drop
  <2>3. QED BY <1>6, <2>1, <2>2 DEF register_before_transfer_hook,
               unregister_before_transfer_hook, set_before_hook_blocks
<1>7. QED BY <1>2, <1>3, <1>4, <1>5, <1>6 DEF Next

(* Balances, allowances, nonces, hooks and airdrops keep their types.        *)
THEOREM TokenTypeCorrect == Spec => []TypeOK
<1>1. Init => ControlInv
  BY DEF Init, ControlInv, IsMap, EmptyMap
<1>2. AccountInv /\ AllowanceInv /\ PermitInv /\ AirdropInv /\ ControlInv => TypeOK
  BY DEF AccountInv, AccountsOK, AllowanceInv, PermitInv, AirdropInv, ControlInv, TypeOK
<1> QED BY <1>1, <1>2, ControlInvStep, AccountInvInit, AccountInvStep, AllowanceInvInit, AllowanceInvStep,
           PermitInvInit, PermitInvStep, AirdropInvInit, AirdropInvStep, PTL DEF Spec

-----------------------------------------------------------------------------
(* The two contracts on the ledger *)

\* The instances add up as the first contract does.
LEMMA SameSums ==
  ASSUME NEW f, NEW n
  PROVE  P!SumTo(f, n) = SumTo(f, n) /\ S!SumTo(f, n) = SumTo(f, n)
BY DEF P!SumTo, S!SumTo, SumTo, P!PartialSums, S!PartialSums, PartialSums

LEMMA SameCardinality == \A set : P!Cardinality(set) = Cardinality(set)
BY DEF P!Cardinality, Cardinality

\* What one holder gives and another, or the same, gets: both balances were
\* read before either was written.
Paid(f, from, to, amount) ==
  [[f EXCEPT ![from] = f[from] - amount] EXCEPT ![to] = f[to] + amount]

LEMMA SumOfPaid ==
  ASSUME NEW n \in Nat, NEW f \in [1..n -> Int], NEW from \in 1..n, NEW to \in 1..n,
         NEW amount \in Int
  PROVE  /\ Paid(f, from, to, amount) \in [1..n -> Int]
         /\ SumTo(Paid(f, from, to, amount), n)
              = SumTo(f, n) + (IF from = to THEN amount ELSE 0)
<1>1. PICK g : g = [f EXCEPT ![from] = f[from] - amount]
  OBVIOUS
<1>2. /\ g \in [1..n -> Int] /\ g[to] = IF from = to THEN f[to] - amount ELSE f[to]
      /\ f[from] \in Int /\ f[to] \in Int
  BY <1>1
<1>3. SumTo(g, n) = SumTo(f, n) - f[from] + (f[from] - amount)
  <2>1. PICK v \in Int : v = f[from] - amount
    BY <1>2
  <2>2. SumTo([f EXCEPT ![from] = v], n) = SumTo(f, n) - f[from] + v
    BY SumToUpdate
  <2>3. QED BY <1>1, <2>1, <2>2
<1>4. Paid(f, from, to, amount) = [g EXCEPT ![to] = f[to] + amount]
  BY <1>1 DEF Paid
<1>5. SumTo([g EXCEPT ![to] = f[to] + amount], n) = SumTo(g, n) - g[to] + (f[to] + amount)
  <2>1. PICK v \in Int : v = f[to] + amount
    BY <1>2
  <2>2. SumTo([g EXCEPT ![to] = v], n) = SumTo(g, n) - g[to] + v
    BY <1>2, SumToUpdate
  <2>3. QED BY <2>1, <2>2
<1>6. SumTo(f, n) \in Int /\ SumTo(g, n) \in Int
  BY <1>2, SumToType
<1>7. Paid(f, from, to, amount) \in [1..n -> Int]
  BY <1>2, <1>4
<1>8. SumTo(g, n) - g[to] + (f[to] + amount) = SumTo(f, n) + (IF from = to THEN amount ELSE 0)
  BY <1>2, <1>3, <1>6
<1>9. QED BY <1>4, <1>5, <1>7, <1>8

\* The pausable token
LEMMA PausableInit == P!Init => P!TypeOK /\ P!MintedBooks
<1> SUFFICES ASSUME P!Init PROVE P!TypeOK /\ P!MintedBooks
  OBVIOUS
<1>1. NumAddresses \in Nat /\ MAX_HOOKS \in Nat
  BY PausableAssumption DEF P!PausableTokenAssumption
<1>2. P!TypeOK
  <2>1. P!IsMap(p_hook_blocks, Hooks, BOOLEAN)
    BY DEF P!Init, P!IsMap, P!EmptyMap
  <2>2. P!Cardinality({}) <= MAX_HOOKS /\ 0 \in Nat
    BY <1>1, FS_EmptySet, SameCardinality
  <2>3. p_balances \in [P!Addresses -> Nat]
    BY DEF P!Init
  <2>4. QED BY <2>1, <2>2, <2>3, Zenon DEF P!Init, P!TypeOK
<1>3. P!MintedBooks
  <2>1. p_balances \in [1..NumAddresses -> Int] /\ \A u \in 1..NumAddresses : p_balances[u] = 0
    BY DEF P!Init, P!Addresses
  <2>2. SumTo(p_balances, NumAddresses) = 0
    BY <1>1, <2>1, SumToZero
  <2>3. QED BY <2>2, SameSums DEF P!MintedBooks, P!Held, P!Init
<1>4. QED BY <1>2, <1>3

\* What each call does to the books.
LEMMA PausableBooks ==
  ASSUME P!TypeOK, P!MintedBooks, [P!Next]_pVars
  PROVE  /\ p_balances' \in [1..NumAddresses -> Nat] /\ P!MintedBooks'
         /\ p_minted' \in Nat /\ p_doubled' \in Nat
<1>1. /\ NumAddresses \in Nat /\ p_balances \in [1..NumAddresses -> Nat]
      /\ p_balances \in [1..NumAddresses -> Int]
      /\ p_minted \in Nat /\ p_doubled \in Nat
      /\ SumTo(p_balances, NumAddresses) = p_minted + p_doubled
      /\ P!Addresses = 1..NumAddresses
  BY PausableAssumption, SameSums
  DEF P!PausableTokenAssumption, P!TypeOK, P!MintedBooks, P!Held, P!Addresses
<1>2. SUFFICES /\ p_balances' \in [1..NumAddresses -> Nat]
               /\ p_minted' \in Nat /\ p_doubled' \in Nat
               /\ SumTo(p_balances', NumAddresses) = p_minted' + p_doubled'
  BY SameSums DEF P!MintedBooks, P!Held
<1>3. CASE p_balances' = p_balances /\ p_minted' = p_minted /\ p_doubled' = p_doubled
  BY <1>1, <1>3
<1>4. ASSUME NEW from \in 1..NumAddresses, NEW to \in 1..NumAddresses, NEW x \in Amounts,
             P!transfer(from, to, x)
      PROVE  /\ p_balances' \in [1..NumAddresses -> Nat]
             /\ p_minted' \in Nat /\ p_doubled' \in Nat
             /\ SumTo(p_balances', NumAddresses) = p_minted' + p_doubled'
  <2>1. x \in Nat /\ x \in Int
    BY PausableAssumption DEF P!PausableTokenAssumption
  <2>2. /\ p_balances' = Paid(p_balances, from, to, x) /\ x <= p_balances[from]
        /\ p_doubled' = (IF from = to THEN p_doubled + x ELSE p_doubled)
        /\ p_minted' = p_minted
    BY <1>4 DEF P!transfer, Paid
  <2>3. /\ Paid(p_balances, from, to, x) \in [1..NumAddresses -> Int]
        /\ SumTo(Paid(p_balances, from, to, x), NumAddresses)
             = SumTo(p_balances, NumAddresses) + (IF from = to THEN x ELSE 0)
    BY <1>1, <2>1, SumOfPaid
  <2>4. p_balances' \in [1..NumAddresses -> Nat]
    <3>1. p_balances[from] - x \in Nat /\ p_balances[to] + x \in Nat
      BY <1>1, <2>1, <2>2
    <3>2. QED BY <1>1, <2>2, <3>1 DEF Paid
  <2>5. p_doubled' \in Nat /\ p_minted' \in Nat
    BY <1>1, <2>1, <2>2
  <2>6. SumTo(p_balances', NumAddresses) = p_minted' + p_doubled'
    BY <1>1, <2>1, <2>2, <2>3
  <2>7. QED BY <2>4, <2>5, <2>6
<1>5. ASSUME NEW a \in 1..NumAddresses, NEW to \in 1..NumAddresses, NEW x \in Amounts,
             P!mint(a, to, x)
      PROVE  /\ p_balances' \in [1..NumAddresses -> Nat]
             /\ p_minted' \in Nat /\ p_doubled' \in Nat
             /\ SumTo(p_balances', NumAddresses) = p_minted' + p_doubled'
  <2>1. x \in Nat /\ x \in Int
    BY PausableAssumption DEF P!PausableTokenAssumption
  <2>2. /\ p_balances' = [p_balances EXCEPT ![to] = p_balances[to] + x]
        /\ p_minted' = p_minted + x /\ p_doubled' = p_doubled
    BY <1>5 DEF P!mint
  <2>3. p_balances[to] \in Nat /\ p_balances[to] + x \in Nat
    BY <1>1, <2>1
  <2>4. SumTo([p_balances EXCEPT ![to] = p_balances[to] + x], NumAddresses)
          = SumTo(p_balances, NumAddresses) - p_balances[to] + (p_balances[to] + x)
    <3>1. PICK v \in Int : v = p_balances[to] + x
      BY <2>3
    <3>2. SumTo([p_balances EXCEPT ![to] = v], NumAddresses)
            = SumTo(p_balances, NumAddresses) - p_balances[to] + v
      BY <1>1, SumToUpdate
    <3>3. QED BY <3>1, <3>2
  <2>5. p_balances' \in [1..NumAddresses -> Nat]
    BY <1>1, <2>2, <2>3
  <2>6. QED BY <1>1, <2>1, <2>2, <2>3, <2>4, <2>5
<1>6. QED
  BY <1>1, <1>3, <1>4, <1>5
  DEF P!Next, P!initialize, P!SetPaused, P!register_before_hook, P!unregister_before_hook,
      P!register_after_hook, P!unregister_after_hook, P!set_before_hook_blocks,
      P!historyVars, pVars

\* Hooks are finitely many, which the code has by its vectors.
HooksFinite == IsFiniteSet(p_before_hooks) /\ IsFiniteSet(p_after_hooks)

PausableControls ==
  /\ p_admin \in P!Addresses \cup {NoAdmin}
  /\ p_paused \in BOOLEAN
  /\ p_before_hooks \subseteq Hooks /\ Cardinality(p_before_hooks) <= MAX_HOOKS
  /\ p_after_hooks \subseteq Hooks /\ Cardinality(p_after_hooks) <= MAX_HOOKS
  /\ P!IsMap(p_hook_blocks, Hooks, BOOLEAN)
  /\ HooksFinite

LEMMA OneMoreHook ==
  ASSUME NEW hooks, NEW h, IsFiniteSet(hooks), h \notin hooks, Cardinality(hooks) < MAX_HOOKS
  PROVE  IsFiniteSet(hooks \cup {h}) /\ Cardinality(hooks \cup {h}) <= MAX_HOOKS
<1>1. MAX_HOOKS \in Nat
  BY PausableAssumption DEF P!PausableTokenAssumption
<1>2. /\ IsFiniteSet(hooks \cup {h}) /\ Cardinality(hooks) \in Nat
      /\ Cardinality(hooks \cup {h}) = Cardinality(hooks) + 1
  BY FS_AddElement, FS_CardinalityType
<1>3. QED BY <1>1, <1>2

LEMMA OneHookLess ==
  ASSUME NEW hooks, NEW h, IsFiniteSet(hooks), Cardinality(hooks) <= MAX_HOOKS
  PROVE  IsFiniteSet(hooks \ {h}) /\ Cardinality(hooks \ {h}) <= MAX_HOOKS
<1>1. MAX_HOOKS \in Nat
  BY PausableAssumption DEF P!PausableTokenAssumption
<1>2. /\ IsFiniteSet(hooks \ {h}) /\ Cardinality(hooks) \in Nat
      /\ Cardinality(hooks \ {h}) \in Nat /\ Cardinality(hooks \ {h}) <= Cardinality(hooks)
  BY FS_Subset, FS_CardinalityType
<1>3. QED BY <1>1, <1>2

\* Maps of flags, with one set or dropped.
LEMMA FlagsSet ==
  ASSUME NEW m, P!IsMap(m, Hooks, BOOLEAN), NEW h \in Hooks, NEW b \in BOOLEAN
  PROVE  /\ P!IsMap(P!Put(m, h, b), Hooks, BOOLEAN)
         /\ P!IsMap(P!Drop(m, h), Hooks, BOOLEAN)
         /\ P!GetOr(P!Put(m, h, b), h, FALSE) = b
<1>1. DOMAIN m \subseteq Hooks /\ m \in [DOMAIN m -> BOOLEAN]
  BY DEF P!IsMap
<1>2. P!IsMap(P!Put(m, h, b), Hooks, BOOLEAN)
  <2>1. DOMAIN P!Put(m, h, b) = DOMAIN m \cup {h}
    BY DEF P!Put
  <2>2. P!Put(m, h, b) \in [DOMAIN m \cup {h} -> BOOLEAN]
    BY <1>1 DEF P!Put
  <2>3. QED BY <1>1, <2>1, <2>2 DEF P!IsMap
<1>3. P!IsMap(P!Drop(m, h), Hooks, BOOLEAN)
  BY <1>1 DEF P!IsMap, P!Drop
<1>4. P!GetOr(P!Put(m, h, b), h, FALSE) = b
  BY DEF P!GetOr, P!Put
<1>5. QED BY <1>2, <1>3, <1>4

LEMMA PausableControlsStep ==
  ASSUME PausableControls, [P!Next]_pVars
  PROVE  PausableControls'
<1>1. MAX_HOOKS \in Nat
  BY PausableAssumption DEF P!PausableTokenAssumption
<1>2. CASE UNCHANGED <<p_admin, p_paused, p_before_hooks, p_after_hooks, p_hook_blocks>>
  BY <1>2 DEF PausableControls, HooksFinite, P!IsMap
<1>3. ASSUME NEW a \in P!Addresses, P!initialize(a)
      PROVE  PausableControls'
  <2>1. P!IsMap(p_hook_blocks', Hooks, BOOLEAN)
    BY <1>3 DEF PausableControls, P!initialize
  <2>2. Cardinality({}) <= MAX_HOOKS /\ IsFiniteSet({})
    BY <1>1, FS_EmptySet
  <2>3. QED
    BY <1>3, <2>1, <2>2, Zenon DEF PausableControls, HooksFinite, P!initialize
<1>4. ASSUME NEW a \in P!Addresses, NEW b \in BOOLEAN, P!SetPaused(a, b)
      PROVE  PausableControls'
  BY <1>4 DEF PausableControls, HooksFinite, P!SetPaused, P!hookVars, P!IsMap
<1>5. ASSUME NEW a \in P!Addresses, NEW h \in Hooks, P!register_before_hook(a, h)
      PROVE  PausableControls'
  <2>1. P!IsMap(p_hook_blocks', Hooks, BOOLEAN)
    BY <1>5, FlagsSet DEF PausableControls, P!register_before_hook
  <2>2. /\ p_before_hooks' \subseteq Hooks /\ Cardinality(p_before_hooks') <= MAX_HOOKS
        /\ IsFiniteSet(p_before_hooks')
    BY <1>5, OneMoreHook, SameCardinality DEF PausableControls, HooksFinite, P!register_before_hook
  <2>3. QED
    BY <1>5, <2>1, <2>2
    DEF PausableControls, HooksFinite, P!register_before_hook, P!controlVars, P!IsMap
<1>6. ASSUME NEW a \in P!Addresses, NEW h \in Hooks, P!unregister_before_hook(a, h)
      PROVE  PausableControls'
  <2>1. P!IsMap(p_hook_blocks', Hooks, BOOLEAN)
    BY <1>6, FlagsSet DEF PausableControls, P!unregister_before_hook
  <2>2. /\ p_before_hooks' \subseteq Hooks /\ Cardinality(p_before_hooks') <= MAX_HOOKS
        /\ IsFiniteSet(p_before_hooks')
    BY <1>6, OneHookLess, SameCardinality DEF PausableControls, HooksFinite, P!unregister_before_hook
  <2>3. QED
    BY <1>6, <2>1, <2>2
    DEF PausableControls, HooksFinite, P!unregister_before_hook, P!controlVars, P!IsMap
<1>7. ASSUME NEW a \in P!Addresses, NEW h \in Hooks,
             P!register_after_hook(a, h) \/ P!unregister_after_hook(a, h)
      PROVE  PausableControls'
  <2>1. /\ p_after_hooks' \subseteq Hooks /\ Cardinality(p_after_hooks') <= MAX_HOOKS
        /\ IsFiniteSet(p_after_hooks')
    BY <1>7, OneMoreHook, OneHookLess, SameCardinality
    DEF PausableControls, HooksFinite, P!register_after_hook, P!unregister_after_hook
  <2>2. QED
    BY <1>7, <2>1
    DEF PausableControls, HooksFinite, P!register_after_hook, P!unregister_after_hook,
        P!controlVars, P!IsMap
<1>8. ASSUME NEW a \in P!Addresses, NEW h \in Hooks, NEW b \in BOOLEAN,
             P!set_before_hook_blocks(a, h, b)
      PROVE  PausableControls'
  <2>1. P!IsMap(p_hook_blocks', Hooks, BOOLEAN)
    BY <1>8, FlagsSet DEF PausableControls, P!set_before_hook_blocks
  <2>2. QED
    BY <1>8, <2>1 DEF PausableControls, HooksFinite, P!set_before_hook_blocks, P!controlVars, P!IsMap
<1>9. QED
  BY <1>2, <1>3, <1>4, <1>5, <1>6, <1>7, <1>8
  DEF P!Next, P!transfer, P!mint, P!controlVars, P!hookVars, pVars

\* The Soroban token
SupplyInv ==
  /\ s_balances \in [S!Addresses -> Int]
  /\ s_total_supply \in Int /\ s_restarted \in Int /\ s_doubled \in Int
  /\ S!SupplyAccounts

LEMMA SupplyInit == S!Init => SupplyInv
<1> SUFFICES ASSUME S!Init PROVE SupplyInv
  OBVIOUS
<1>1. NumAddresses \in Nat /\ S!Addresses = 1..NumAddresses
  BY SorobanAssumption DEF S!SorobanTokenAssumption, S!Addresses
<1>2. s_balances \in [1..NumAddresses -> Int] /\ \A u \in 1..NumAddresses : s_balances[u] = 0
  BY <1>1 DEF S!Init
<1>3. SumTo(s_balances, NumAddresses) = 0
  BY <1>1, <1>2, SumToZero
<1>4. QED BY <1>1, <1>2, <1>3, SameSums DEF SupplyInv, S!Init, S!SupplyAccounts, S!Held

LEMMA SupplyStep == SupplyInv /\ [S!Next]_sVars => SupplyInv'
<1> SUFFICES ASSUME SupplyInv, [S!Next]_sVars PROVE SupplyInv'
  OBVIOUS
<1>1. /\ NumAddresses \in Nat /\ S!Addresses = 1..NumAddresses
      /\ s_balances \in [1..NumAddresses -> Int]
      /\ s_total_supply \in Int /\ s_restarted \in Int /\ s_doubled \in Int
      /\ SumTo(s_balances, NumAddresses) = s_total_supply + s_restarted + s_doubled
      /\ SorobanAmounts \subseteq Int /\ Supplies \subseteq Int
  BY SorobanAssumption, SameSums
  DEF S!SorobanTokenAssumption, S!Addresses, SupplyInv, S!SupplyAccounts, S!Held
<1>2. SUFFICES /\ s_balances' \in [1..NumAddresses -> Int]
               /\ s_total_supply' \in Int /\ s_restarted' \in Int /\ s_doubled' \in Int
               /\ SumTo(s_balances', NumAddresses) = s_total_supply' + s_restarted' + s_doubled'
  BY <1>1, SameSums DEF SupplyInv, S!SupplyAccounts, S!Held, S!Addresses
<1>3. CASE UNCHANGED sVars
  BY <1>1, <1>3 DEF sVars
<1>4. ASSUME NEW a \in 1..NumAddresses, NEW x \in Supplies, S!initialize(a, x)
      PROVE  /\ s_balances' \in [1..NumAddresses -> Int]
             /\ s_total_supply' \in Int /\ s_restarted' \in Int /\ s_doubled' \in Int
             /\ SumTo(s_balances', NumAddresses) = s_total_supply' + s_restarted' + s_doubled'
  <2>1. x \in Int /\ s_balances[a] \in Int
    BY <1>1
  <2>2. /\ s_balances' = [s_balances EXCEPT ![a] = x] /\ s_total_supply' = x
        /\ s_restarted' = SumTo(s_balances, NumAddresses) - s_balances[a] /\ s_doubled' = 0
    BY <1>4, SameSums DEF S!initialize, S!Held
  <2>3. SumTo([s_balances EXCEPT ![a] = x], NumAddresses)
          = SumTo(s_balances, NumAddresses) - s_balances[a] + x
    BY <1>1, <2>1, SumToUpdate
  <2>4. SumTo(s_balances, NumAddresses) \in Int
    BY <1>1, SumToType
  <2>5. s_balances' \in [1..NumAddresses -> Int]
    BY <1>1, <2>1, <2>2
  <2>6. QED BY <2>1, <2>2, <2>3, <2>4, <2>5
<1>5. ASSUME NEW from \in 1..NumAddresses, NEW to \in 1..NumAddresses, NEW x \in SorobanAmounts,
             S!transfer(from, to, x)
      PROVE  /\ s_balances' \in [1..NumAddresses -> Int]
             /\ s_total_supply' \in Int /\ s_restarted' \in Int /\ s_doubled' \in Int
             /\ SumTo(s_balances', NumAddresses) = s_total_supply' + s_restarted' + s_doubled'
  <2>1. x \in Int
    BY <1>1
  <2>2. /\ s_balances' = Paid(s_balances, from, to, x)
        /\ s_total_supply' = s_total_supply /\ s_restarted' = s_restarted
        /\ s_doubled' = (IF from = to THEN s_doubled + x ELSE s_doubled)
    BY <1>5 DEF S!transfer, Paid
  <2>3. /\ Paid(s_balances, from, to, x) \in [1..NumAddresses -> Int]
        /\ SumTo(Paid(s_balances, from, to, x), NumAddresses)
             = SumTo(s_balances, NumAddresses) + (IF from = to THEN x ELSE 0)
    BY <1>1, <2>1, SumOfPaid
  <2>4. QED BY <1>1, <2>1, <2>2, <2>3
<1>6. ASSUME NEW a \in 1..NumAddresses, NEW to \in 1..NumAddresses, NEW x \in SorobanAmounts,
             S!mint(a, to, x)
      PROVE  /\ s_balances' \in [1..NumAddresses -> Int]
             /\ s_total_supply' \in Int /\ s_restarted' \in Int /\ s_doubled' \in Int
             /\ SumTo(s_balances', NumAddresses) = s_total_supply' + s_restarted' + s_doubled'
  <2>1. x \in Int /\ s_balances[to] \in Int /\ s_balances[to] + x \in Int
    BY <1>1
  <2>2. /\ s_balances' = [s_balances EXCEPT ![to] = s_balances[to] + x]
        /\ s_total_supply' = s_total_supply + x /\ s_restarted' = s_restarted
        /\ s_doubled' = s_doubled
    BY <1>6 DEF S!mint
  <2>3. SumTo([s_balances EXCEPT ![to] = s_balances[to] + x], NumAddresses)
          = SumTo(s_balances, NumAddresses) - s_balances[to] + (s_balances[to] + x)
    <3>1. PICK v \in Int : v = s_balances[to] + x
      BY <2>1
    <3>2. SumTo([s_balances EXCEPT ![to] = v], NumAddresses)
            = SumTo(s_balances, NumAddresses) - s_balances[to] + v
      BY <1>1, SumToUpdate
    <3>3. QED BY <3>1, <3>2
  <2>4. s_balances' \in [1..NumAddresses -> Int]
    BY <1>1, <2>1, <2>2
  <2>5. QED BY <1>1, <2>1, <2>2, <2>3, <2>4
<1>7. QED BY <1>1, <1>3, <1>4, <1>5, <1>6 DEF S!Next

LedgerInv == P!TypeOK /\ P!MintedBooks /\ PausableControls /\ SupplyInv

LEMMA LedgerInit == MCInit => LedgerInv
<1> SUFFICES ASSUME P!Init, S!Init PROVE LedgerInv
  BY DEF MCInit
<1>1. P!TypeOK /\ P!MintedBooks
  BY PausableInit
<1>2. PausableControls
  BY <1>1, FS_EmptySet, SameCardinality DEF PausableControls, HooksFinite, P!Init, P!TypeOK
<1>3. QED BY <1>1, <1>2, SupplyInit DEF LedgerInv

LEMMA LedgerStep == LedgerInv /\ [MCNext]_<<vars, pVars, sVars>> => LedgerInv'
<1> SUFFICES ASSUME LedgerInv, [MCNext]_<<vars, pVars, sVars>> PROVE LedgerInv'
  OBVIOUS
<1>1. [P!Next]_pVars /\ [S!Next]_sVars
  BY DEF MCNext, pVars, sVars
<1>2. /\ p_balances' \in [1..NumAddresses -> Nat] /\ P!MintedBooks'
      /\ p_minted' \in Nat /\ p_doubled' \in Nat
  BY <1>1, PausableBooks DEF LedgerInv
<1>3. PausableControls'
  BY <1>1, PausableControlsStep DEF LedgerInv
<1>4. P!TypeOK'
  BY <1>2, <1>3, SameCardinality DEF P!TypeOK, PausableControls, P!Addresses, P!IsMap
<1>5. QED BY <1>1, <1>2, <1>3, <1>4, SupplyStep DEF LedgerInv

(* What the holders of the pausable and the Soroban token have together is  *)
(* what was minted, what an earlier initialize left behind and what         *)
(* transfers to oneself made, for any holders and amounts.                  *)
THEOREM LedgerBooksClose == MCSpec => []LedgerBooks
<1>1. LedgerInv => LedgerBooks
  BY DEF LedgerInv, LedgerBooks, SupplyInv
<1>2. QED BY <1>1, LedgerInit, LedgerStep, PTL DEF MCSpec

(* No balance of the pausable token falls while it is paused or while a     *)
(* registered hook blocks, and no hook comes into force blocking.           *)
THEOREM PausableStopsTransfers == MCSpec => PausableStops
<1> DEFINE Stops ==
      /\ p_paused \/ (\E h \in p_before_hooks : P!Blocks(h))
           => \A a \in P!Addresses : p_balances'[a] >= p_balances[a]
      /\ \A h \in p_before_hooks' \ p_before_hooks : ~P!GetOr(p_hook_blocks', h, FALSE)
<1>1. LedgerInv /\ [MCNext]_<<vars, pVars, sVars>> => [Stops]_(P!vars)
  <2> SUFFICES ASSUME LedgerInv, [MCNext]_<<vars, pVars, sVars>> PROVE [Stops]_(P!vars)
    OBVIOUS
  <2>1. /\ P!Addresses = 1..NumAddresses /\ p_balances \in [P!Addresses -> Nat]
        /\ \A a \in P!Addresses : p_balances[a] >= p_balances[a]
    BY DEF LedgerInv, P!TypeOK, P!Addresses
  <2>2. CASE UNCHANGED pVars
    BY <2>2 DEF pVars, P!vars, P!controlVars, P!hookVars, P!historyVars
  <2>3. ASSUME NEW a \in P!Addresses, NEW to \in P!Addresses, NEW x \in Amounts,
               P!transfer(a, to, x)
        PROVE  Stops
    BY <2>3 DEF P!transfer, P!controlVars, P!hookVars
  <2>4. ASSUME NEW a \in P!Addresses, NEW to \in P!Addresses, NEW x \in Amounts,
               P!mint(a, to, x)
        PROVE  Stops
    <3>1. p_balances' = [p_balances EXCEPT ![to] = p_balances[to] + x] /\ x \in Nat
      BY <2>4, PausableAssumption DEF P!mint, P!PausableTokenAssumption
    <3>2. \A b \in P!Addresses : p_balances'[b] >= p_balances[b]
      BY <2>1, <3>1
    <3>3. p_before_hooks' = p_before_hooks
      BY <2>4 DEF P!mint, P!hookVars
    <3>4. QED BY <3>2, <3>3
  <2>5. ASSUME NEW a \in P!Addresses, NEW h \in Hooks, P!register_before_hook(a, h)
        PROVE  Stops
    <3>1. /\ p_balances' = p_balances /\ p_before_hooks' = p_before_hooks \cup {h}
          /\ p_hook_blocks' = P!Put(p_hook_blocks, h, FALSE)
      BY <2>5 DEF P!register_before_hook
    <3>2. P!GetOr(p_hook_blocks', h, FALSE) = FALSE
      BY <3>1 DEF P!GetOr, P!Put
    <3>3. QED BY <2>1, <3>1, <3>2
  <2>6. ASSUME p_balances' = p_balances, p_before_hooks' \subseteq p_before_hooks
        PROVE  Stops
    BY <2>1, <2>6
  <2>7. [P!Next]_pVars
    BY DEF MCNext, pVars
  <2> HIDE DEF Stops
  <2>8. QED
    BY <2>2, <2>3, <2>4, <2>5, <2>6, <2>7
    DEF P!Next, P!initialize, P!SetPaused, P!unregister_before_hook, P!register_after_hook,
        P!unregister_after_hook, P!set_before_hook_blocks, P!hookVars
<1>2. QED BY <1>1, LedgerInit, LedgerStep, PTL DEF MCSpec, PausableStops, P!StopsWhenTold
=============================================================================
