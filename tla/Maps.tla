-------------------------------- MODULE Maps --------------------------------
(***************************************************************************)
(* The maps of the contracts (BTreeMap, soroban Map): functions whose      *)
(* domain is the set of keys present; and totals over numbered parties,    *)
(* whose balances are functions on 1..n; and what a filter keeps of a      *)
(* vector. Totals and filters are recursive functions, so that theorems    *)
(* can be proved about them.                                               *)
(***************************************************************************)
EXTENDS Integers, Sequences

\* .get(k).unwrap_or(default)
GetOr(m, k, default) == IF k \in DOMAIN m THEN m[k] ELSE default

\* .insert(k, v)
Put(m, k, v) == [x \in DOMAIN m \cup {k} |-> IF x = k THEN v ELSE m[x]]

\* .remove(k)
Drop(m, k) == [x \in DOMAIN m \ {k} |-> m[x]]

EmptyMap == [x \in {} |-> x]

\* m maps some of the keys K to V.
IsMap(m, K, V) == DOMAIN m \subseteq K /\ m \in [DOMAIN m -> V]

\* PartialSums(f, n)[i] is f[1] + ... + f[i].
PartialSums(f, n) ==
  LET acc[i \in 0..n] == IF i = 0 THEN 0 ELSE acc[i - 1] + f[i]
  IN  acc

SumTo(f, n) == PartialSums(f, n)[n]

\* The members of a sequence at the indices I, in order.
KeptAt(seq, I) ==
  LET kept[i \in 0..Len(seq)] ==
        IF i = 0 THEN <<>> ELSE IF i \in I THEN Append(kept[i - 1], seq[i]) ELSE kept[i - 1]
  IN  kept[Len(seq)]
=============================================================================
