---------------------------- MODULE WalletProofs ----------------------------
(***************************************************************************)
(* Invariants of Wallet for every set of transactions, any number of       *)
(* blocks and any gap limit.                                               *)
(***************************************************************************)
EXTENDS Wallet, ListLemmas, SequenceTheorems, FiniteSetTheorems, TLAPS

-----------------------------------------------------------------------------
(***************************************************************************)
(* The list operators.                                                     *)
(***************************************************************************)

\* An entry that is listed once leaves the list, the others keep their order.
LEMMA RemoveTxFacts ==
  ASSUME NEW h \in [Tx -> Nat], NEW s \in Seq(Tx), NEW t \in Tx,
         NEW r, r = RemoveTx(s, t),
         IsInjective(s), Ordered(h, s)
  PROVE  /\ r \in Seq(Tx) /\ ToSet(r) = ToSet(s) \ {t}
         /\ IsInjective(r) /\ Ordered(h, r)
<1>a. \A i, j \in 1..Len(s) : s[i] = s[j] => i = j
  BY DEF IsInjective
<1>b. \A i, j \in 1..Len(s) : i < j => h[s[i]] <= h[s[j]]
  BY DEF Ordered
<1>1. CASE t \notin ToSet(s)
  <2>1. r = s
    BY <1>1 DEF RemoveTx
  <2>2. QED
    BY <1>1, <2>1
<1>2. CASE t \in ToSet(s)
  <2> DEFINE n == CHOOSE i \in 1..Len(s) : s[i] = t
  <2>1. n \in 1..Len(s) /\ s[n] = t
    BY <1>2 DEF ToSet
  <2>2. r = RemoveAt(s, n)
    BY <1>2 DEF RemoveTx
  <2> HIDE DEF n
  <2>3. /\ r \in Seq(Tx) /\ Len(r) = Len(s) - 1
        /\ \A k \in 1..(Len(s) - 1) : r[k] = IF k < n THEN s[k] ELSE s[k + 1]
    <3>1. /\ RemoveAt(s, n) \in Seq(Tx) /\ Len(RemoveAt(s, n)) = Len(s) - 1
          /\ \A k \in 1..(Len(s) - 1) : RemoveAt(s, n)[k] = IF k < n THEN s[k] ELSE s[k + 1]
      BY <2>1, RemoveAtElements
    <3>2. QED
      BY <2>2, <3>1
  <2>4. ASSUME NEW k \in 1..Len(r)
        PROVE  \E i \in 1..Len(s) : i # n /\ r[k] = s[i] /\ i = IF k < n THEN k ELSE k + 1
    <3>1. CASE k < n
      BY <3>1, <2>1, <2>3
    <3>2. CASE ~(k < n)
      <4>1. k + 1 \in 1..Len(s) /\ k + 1 # n
        BY <3>2, <2>1, <2>3
      <4>2. QED
        BY <3>2, <4>1, <2>3
    <3>3. QED
      BY <3>1, <3>2
  <2>5. \A k \in 1..Len(r) : r[k] # t
    BY <1>a, <2>1, <2>4
  <2>6. \A k, l \in 1..Len(r) : k < l =>
          \E i, j \in 1..Len(s) : i < j /\ r[k] = s[i] /\ r[l] = s[j]
    <3> SUFFICES ASSUME NEW k \in 1..Len(r), NEW l \in 1..Len(r), k < l
                 PROVE  \E i, j \in 1..Len(s) : i < j /\ r[k] = s[i] /\ r[l] = s[j]
      OBVIOUS
    <3>1. PICK i \in 1..Len(s) : r[k] = s[i] /\ i = IF k < n THEN k ELSE k + 1
      BY <2>4
    <3>2. PICK j \in 1..Len(s) : r[l] = s[j] /\ j = IF l < n THEN l ELSE l + 1
      BY <2>4
    <3>3. i < j
      BY <3>1, <3>2, <2>1
    <3>4. QED
      BY <3>1, <3>2, <3>3
  <2>7. ASSUME NEW i \in 1..Len(s), s[i] # t
        PROVE  \E k \in 1..Len(r) : r[k] = s[i]
    <3>1. CASE i < n
      <4>1. i \in 1..(Len(s) - 1) /\ Len(r) = Len(s) - 1
        BY ONLY <3>1, <2>1, <2>3, i \in 1..Len(s), s \in Seq(Tx)
      <4>2. r[i] = s[i]
        BY ONLY <3>1, <2>3, <4>1
      <4>3. QED
        BY ONLY <4>1, <4>2
    <3>2. CASE i > n
      <4>1. i - 1 \in 1..Len(r) /\ ~(i - 1 < n) /\ (i - 1) + 1 = i
        BY <3>2, <2>1, <2>3
      <4>2. QED
        BY <4>1, <2>3
    <3>3. i < n \/ i > n
      BY <1>a, <2>1, <2>7
    <3>4. QED
      BY <3>1, <3>2, <3>3
  <2>8. ToSet(r) = ToSet(s) \ {t}
    <3>1. \A x : x \in ToSet(r) <=> \E k \in 1..Len(r) : x = r[k]
      BY <2>3, ToSetElements
    <3>2. \A x : x \in ToSet(s) <=> \E i \in 1..Len(s) : x = s[i]
      BY ToSetElements
    <3>3. ASSUME NEW x \in ToSet(r) PROVE x \in ToSet(s) /\ x # t
      <4>1. PICK k \in 1..Len(r) : x = r[k]
        BY <3>1
      <4>2. QED
        BY <2>4, <2>5, <3>2, <4>1
    <3>4. ASSUME NEW x \in ToSet(s), x # t PROVE x \in ToSet(r)
      <4>1. PICK i \in 1..Len(s) : x = s[i]
        BY <3>2
      <4>2. QED
        BY <2>7, <3>1, <3>4, <4>1
    <3>5. QED
      BY <3>3, <3>4
  <2>9. Ordered(h, r)
    <3>1. ASSUME NEW k \in 1..Len(r), NEW l \in 1..Len(r), k < l
          PROVE  h[r[k]] <= h[r[l]]
      <4>1. PICK i, j \in 1..Len(s) : i < j /\ r[k] = s[i] /\ r[l] = s[j]
        BY ONLY <2>6, <3>1
      <4>2. h[s[i]] <= h[s[j]]
        BY ONLY <1>b, <4>1
      <4>3. QED
        BY ONLY <4>1, <4>2
    <3>2. QED
      BY ONLY <3>1 DEF Ordered
  <2>10. \A k, l \in 1..Len(r) : k < l => r[k] # r[l]
    BY <1>a, <2>6
  <2>11. IsInjective(r)
    <3>1. r \in Seq(Tx)
      BY <2>3
    <3>2. DOMAIN r = 1..Len(r) /\ Len(r) \in Nat
      BY ONLY <3>1
    <3>3. ASSUME NEW k \in DOMAIN r, NEW l \in DOMAIN r, r[k] = r[l]
          PROVE  k = l
      <4>1. ~(k < l) /\ ~(l < k)
        BY <2>10, <3>2, <3>3
      <4>2. QED
        BY <3>2, <4>1
    <3>4. QED
      BY ONLY <3>3 DEF IsInjective
  <2>12. QED
    BY <2>3, <2>8, <2>9, <2>11
<1>3. QED
  BY <1>1, <1>2

\* Whatever sorts after t is at least as high, whatever does not is at most.
LEMMA SortsAfterHeights ==
  ASSUME NEW K, NEW h \in [Tx -> Nat], NEW p \in Tx, NEW t \in Tx
  PROVE  IF SortsAfter(K, h, p, t) THEN h[p] >= h[t] ELSE h[p] <= h[t]
BY DEF SortsAfter, IsAscending

\* Insertion into a list without duplicates that is ordered by height, and does
\* not have t yet, adds t and nothing else, and leaves such a list.
LEMMA InsertTxFacts ==
  ASSUME NEW K, NEW h \in [Tx -> Nat], NEW s \in Seq(Tx), NEW t \in Tx,
         NEW r, r = InsertTx(K, h, s, t),
         t \notin ToSet(s), IsInjective(s), Ordered(h, s)
  PROVE  /\ r \in Seq(Tx) /\ ToSet(r) = ToSet(s) \cup {t}
         /\ IsInjective(r) /\ Ordered(h, r)
<1>a. \A i \in 1..Len(s) : s[i] # t
  BY DEF ToSet
<1>b. \A i, j \in 1..Len(s) : s[i] = s[j] => i = j
  BY DEF IsInjective
<1>c. \A i, j \in 1..Len(s) : i < j => h[s[i]] <= h[s[j]]
  BY DEF Ordered
<1> DEFINE moves(k) == \A j \in k..Len(s) : SortsAfter(K, h, s[j], t)
<1>1. r = [k \in 1..(Len(s) + 1) |->
             IF k <= Len(s) /\ ~moves(k) THEN s[k]
             ELSE IF k > 1 /\ moves(k - 1) THEN s[k - 1]
             ELSE t]
  BY DEF InsertTx
<1>2. \A k \in 1..(Len(s) + 1) :
        r[k] = IF k <= Len(s) /\ ~moves(k) THEN s[k]
               ELSE IF k > 1 /\ moves(k - 1) THEN s[k - 1]
               ELSE t
  BY <1>1
<1>3. r \in Seq(Tx) /\ Len(r) = Len(s) + 1
  <2>1. \A k \in 1..(Len(s) + 1) : r[k] \in Tx
    <3> TAKE k \in 1..(Len(s) + 1)
    <3>1. k <= Len(s) => s[k] \in Tx
      OBVIOUS
    <3>2. k > 1 => s[k - 1] \in Tx
      OBVIOUS
    <3>3. QED
      BY <1>2, <3>1, <3>2
  <2>2. r \in [1..(Len(s) + 1) -> Tx]
    BY <1>1, <2>1
  <2>3. QED
    BY <2>2
<1>4. \A k, l \in Int : moves(k) /\ k <= l => moves(l)
  OBVIOUS
<1>5. \A k \in 1..(Len(s) + 1) : k > Len(s) => moves(k)
  OBVIOUS
<1> HIDE DEF moves
<1>6. \A k \in 1..Len(r) : r[k] = t \/ \E i \in 1..Len(s) : r[k] = s[i]
  <2> SUFFICES ASSUME NEW k \in 1..Len(r)
               PROVE  r[k] = t \/ \E i \in 1..Len(s) : r[k] = s[i]
    OBVIOUS
  <2>1. CASE k <= Len(s) /\ ~moves(k)
    BY <2>1, <1>2, <1>3
  <2>2. CASE ~(k <= Len(s) /\ ~moves(k)) /\ k > 1 /\ moves(k - 1)
    <3>1. k - 1 \in 1..Len(s) /\ r[k] = s[k - 1]
      BY <2>2, <1>2, <1>3
    <3>2. QED
      BY <3>1
  <2>3. QED
    BY <2>1, <2>2, <1>2, <1>3
\* where each element of r comes from: its old place, one place lower, or t
<1>7. \A k \in 1..Len(r) :
        \/ k <= Len(s) /\ ~moves(k) /\ r[k] = s[k]
        \/ k > 1 /\ moves(k) /\ moves(k - 1) /\ r[k] = s[k - 1]
        \/ moves(k) /\ (k = 1 \/ ~moves(k - 1)) /\ r[k] = t
  BY <1>2, <1>3, <1>5
<1>8. ASSUME NEW k \in 1..Len(r), NEW l \in 1..Len(r), k < l
      PROVE  r[k] # r[l]
  <2>1. moves(k) => moves(l) /\ moves(l - 1)
    BY <1>4, <1>8
  <2>2. CASE k <= Len(s) /\ ~moves(k) /\ r[k] = s[k]
    <3>1. moves(l - 1) => l - 1 # k
      BY <2>2
    <3>2. k \in 1..Len(s) /\ l \in 1..(Len(s) + 1) /\ k < l
      BY <1>3, <1>8, <2>2
    <3>3. CASE l <= Len(s) /\ r[l] = s[l]
      BY <1>b, <2>2, <3>2, <3>3
    <3>4. CASE l > 1 /\ moves(l - 1) /\ r[l] = s[l - 1]
      <4>1. l - 1 \in 1..Len(s) /\ l - 1 # k
        BY <3>1, <3>2, <3>4
      <4>2. QED
        BY <1>b, <2>2, <3>2, <3>4, <4>1
    <3>5. CASE r[l] = t
      BY <1>a, <2>2, <3>2, <3>5
    <3>6. QED
      BY <1>7, <3>3, <3>4, <3>5
  <2>3. CASE moves(k) /\ r[k] = t
    <3>1. l > 1 /\ r[l] = s[l - 1] /\ l - 1 \in 1..Len(s)
      BY <1>3, <1>7, <1>8, <2>1, <2>3
    <3>2. QED
      BY <1>a, <1>8, <2>3, <3>1
  <2>4. CASE k > 1 /\ moves(k) /\ moves(k - 1) /\ r[k] = s[k - 1]
    <3>1. l > 1 /\ r[l] = s[l - 1] /\ l - 1 \in 1..Len(s) /\ k - 1 \in 1..Len(s)
      BY <1>3, <1>7, <1>8, <2>1, <2>4
    <3>2. k - 1 # l - 1
      BY <1>3, <1>8
    <3>3. QED
      BY <1>b, <2>4, <3>1, <3>2
  <2>5. QED
    BY <1>7, <2>2, <2>3, <2>4
<1>9. ASSUME NEW k \in 1..Len(r), NEW l \in 1..Len(r), k < l
      PROVE  h[r[k]] <= h[r[l]]
  <2>8. /\ l - 1 \in 1..Len(s) /\ k <= l - 1
        /\ k > 1 => k - 1 \in 1..Len(s) /\ k - 1 <= l - 1
    <3>1. Len(s) \in Nat
      OBVIOUS
    <3>2. QED
      BY ONLY <3>1, <1>3, <1>9
  <2>0. /\ \A i \in 1..Len(s) : h[s[i]] \in Nat
        /\ h[t] \in Nat
        /\ \A i, j \in 1..Len(s) : i <= j => h[s[i]] <= h[s[j]]
    BY <1>c
  <2>1. moves(k) => moves(l) /\ moves(l - 1)
    BY <1>4, <1>9
  <2>2. \A i \in 1..Len(s) : moves(i) => h[s[i]] >= h[t]
    <3> TAKE i \in 1..Len(s)
    <3>1. moves(i) => SortsAfter(K, h, s[i], t)
      BY DEF moves
    <3>2. s[i] \in Tx
      OBVIOUS
    <3>3. QED
      BY <1>9, <3>1, <3>2, SortsAfterHeights
  <2>3. \A i \in 1..Len(s) : ~moves(i) => h[s[i]] <= h[t]
    <3> SUFFICES ASSUME NEW i \in 1..Len(s), ~moves(i)
                 PROVE  h[s[i]] <= h[t]
      OBVIOUS
    <3>1. PICK j \in i..Len(s) : ~SortsAfter(K, h, s[j], t)
      BY DEF moves
    <3>2. j \in 1..Len(s) /\ s[j] \in Tx
      BY <3>1
    <3>3. h[s[j]] <= h[t]
      BY <1>9, <3>1, <3>2, SortsAfterHeights
    <3>4. h[s[i]] <= h[s[j]]
      BY <2>0, <3>2
    <3>5. QED
      BY <2>0, <3>2, <3>3, <3>4
  <2>4. CASE k <= Len(s) /\ ~moves(k) /\ r[k] = s[k]
    <3>1. CASE l <= Len(s) /\ r[l] = s[l]
      <4>1. k \in 1..Len(s) /\ l \in 1..Len(s) /\ k <= l
        BY <1>3, <1>9, <2>4, <3>1
      <4>2. QED
        BY <2>0, <2>4, <3>1, <4>1
    <3>2. CASE l > 1 /\ moves(l) /\ moves(l - 1) /\ r[l] = s[l - 1]
      <4>1. k \in 1..Len(s)
        BY <2>4, <2>8
      <4>2. h[s[k]] <= h[s[l - 1]]
        BY ONLY <2>0, <2>8, <4>1
      <4>3. QED
        BY ONLY <2>4, <3>2, <4>2
    <3>3. CASE r[l] = t
      BY <2>3, <2>4, <3>3
    <3>4. QED
      BY <1>7, <3>1, <3>2, <3>3
  <2>5. CASE moves(k) /\ r[k] = t
    <3>1. l - 1 \in 1..Len(s) /\ moves(l - 1)
      BY <1>3, <1>9, <2>1, <2>5
    <3>2. r[l] = s[l - 1]
      BY <1>7, <2>1, <2>5, <3>1
    <3>3. QED
      BY <2>2, <2>5, <3>1, <3>2
  <2>6. CASE k > 1 /\ moves(k) /\ moves(k - 1) /\ r[k] = s[k - 1]
    <3>1. l - 1 \in 1..Len(s) /\ k - 1 \in 1..Len(s) /\ moves(l - 1)
      BY ONLY <2>1, <2>6, <2>8
    <3>2. r[l] = s[l - 1]
      BY <1>7, <2>1, <2>6, <3>1
    <3>3. k - 1 <= l - 1
      BY <1>3, <1>9
    <3>4. QED
      BY <2>0, <2>6, <3>1, <3>2, <3>3
  <2>7. QED
    BY <1>7, <2>4, <2>5, <2>6
<1>10. ASSUME NEW k \in 1..Len(r), NEW l \in 1..Len(r), r[k] = r[l]
       PROVE  k = l
  <2>1. ~(k < l) /\ ~(l < k)
    BY <1>8, <1>10
  <2>2. QED
    BY <2>1, <1>3
<1>11. \E k \in 1..Len(r) : r[k] = t
  <2> DEFINE M == {k \in 1..(Len(s) + 1) : moves(k)}
  <2>1. M \in SUBSET Nat /\ Len(s) + 1 \in M
    BY <1>5
  <2>2. PICK k \in M : \A m \in M : k <= m
    BY <2>1, LeastNat, Zenon
  <2>3. k = 1 \/ ~moves(k - 1)
    BY <2>2
  <2>4. QED
    BY <1>2, <1>3, <2>2, <2>3
<1>12. ASSUME NEW i \in 1..Len(s)
       PROVE  \E k \in 1..Len(r) : r[k] = s[i]
  <2>1. CASE ~moves(i)
    <3>1. i \in 1..(Len(s) + 1) /\ i <= Len(s)
      OBVIOUS
    <3>2. r[i] = s[i]
      BY <1>2, <2>1, <3>1
    <3>3. QED
      BY <1>3, <3>1, <3>2
  <2>2. CASE moves(i)
    <3>1. moves(i + 1) /\ i + 1 > 1 /\ (i + 1) - 1 = i /\ i + 1 \in 1..(Len(s) + 1)
      BY <1>4, <2>2
    <3>2. r[i + 1] = s[i]
      BY <1>2, <2>2, <3>1
    <3>3. QED
      BY <1>3, <3>1, <3>2
  <2>3. QED
    BY <2>1, <2>2
<1>13. ToSet(r) = ToSet(s) \cup {t}
  <2>1. \A x : x \in ToSet(r) <=> \E k \in 1..Len(r) : x = r[k]
    BY <1>3, ToSetElements
  <2>2. \A x : x \in ToSet(s) <=> \E i \in 1..Len(s) : x = s[i]
    BY ToSetElements
  <2>3. ASSUME NEW x \in ToSet(r) PROVE x \in ToSet(s) \cup {t}
    BY <1>6, <2>1, <2>2
  <2>4. ASSUME NEW x \in ToSet(s) \cup {t} PROVE x \in ToSet(r)
    <3>1. CASE x = t
      BY <1>11, <2>1, <3>1
    <3>2. CASE x \in ToSet(s)
      <4>1. PICK i \in 1..Len(s) : x = s[i]
        BY <2>2, <3>2
      <4>2. QED
        BY <1>12, <2>1, <4>1
    <3>3. QED
      BY <2>4, <3>1, <3>2
  <2>5. QED
    BY <2>3, <2>4
<1>14. IsInjective(r)
  BY <1>3, <1>10 DEF IsInjective
<1>15. Ordered(h, r)
  BY <1>9 DEF Ordered
<1>16. QED
  BY <1>3, <1>13, <1>14, <1>15
-----------------------------------------------------------------------------
(***************************************************************************)
(* The balance and the address chains.                                     *)
(***************************************************************************)

\* Whatever verdicts the pass reaches, it leaves the cached sets in their types
\* and no coin in utxos that is not an output of a listed, counted transaction.
LEMMA UpdateBalanceFacts ==
  ASSUME NEW s \in Seq(Tx), NEW h, NEW bh,
         IsInjective(s), UpdateBalance(s, h, bh)
  PROVE  /\ utxos' \subseteq Outpoint /\ spentOutputs' \subseteq Outpoint
         /\ balanceHist' \in Seq(SUBSET Outpoint)
         /\ invalidTx' \subseteq Tx /\ pendingTx' \subseteq Tx
         /\ usedAddrs' \subseteq Address
         /\ \A o \in utxos' : o[1] \in ToSet(s) /\ o[1] \notin invalidTx' \cup pendingTx'
<1> DEFINE v == Verdicts(s, h, bh)
<1>1. /\ utxos' = UnspentAfter(s, v, Len(s))
      /\ balanceHist' = [n \in 1..Len(s) |-> UnspentAfter(s, v, n)]
      /\ spentOutputs' = UNION {Ins[t] : t \in With(s, v, {"counted", "pending"})}
      /\ invalidTx' = With(s, v, {"invalid"})
      /\ pendingTx' = With(s, v, {"pending"})
      /\ usedAddrs' = UNION {ToSet(Outs[t]) : t \in With(s, v, {"counted"})}
  BY DEF UpdateBalance
<1> HIDE DEF v
<1>2. Len(s) \in Nat /\ \A i \in 1..Len(s) : s[i] \in Tx
  OBVIOUS
<1>3. \A V : With(s, v, V) \subseteq Tx
  BY <1>2 DEF With
<1>4. \A t \in Tx : Outs[t] \in Seq(Address) /\ Ins[t] \subseteq Outpoint
  BY WalletAssumption
<1>5. \A t \in Tx : OwnOutputs(t) \subseteq Outpoint /\ \A o \in OwnOutputs(t) : o[1] = t
  <2> SUFFICES ASSUME NEW t \in Tx, NEW o \in OwnOutputs(t)
               PROVE  o \in Outpoint /\ o[1] = t
    OBVIOUS
  <2>1. PICK n \in DOMAIN Outs[t] : o = <<t, n>>
    BY DEF OwnOutputs, OutpointsOf
  <2>2. n \in Nat \ {0}
    BY <1>4
  <2>3. QED
    BY <2>1, <2>2 DEF Outpoint
<1>6. \A t \in Tx : ToSet(Outs[t]) \subseteq Address
  BY <1>4 DEF ToSet
<1>7. \A n \in 1..Len(s) : UnspentAfter(s, v, n) \subseteq Outpoint
  <2> SUFFICES ASSUME NEW n \in 1..Len(s), NEW o \in UnspentAfter(s, v, n)
               PROVE  o \in Outpoint
    OBVIOUS
  <2>1. PICK i \in 1..n : o \in OwnOutputs(s[i])
    BY DEF UnspentAfter
  <2>2. QED
    BY <1>2, <1>5, <2>1
<1>8. ASSUME NEW o \in utxos'
      PROVE  o \in Outpoint /\ o[1] \in ToSet(s) /\ o[1] \notin invalidTx' \cup pendingTx'
  <2>1. PICK i \in 1..Len(s) : v[i] = "counted" /\ o \in OwnOutputs(s[i])
    BY <1>1, <1>8 DEF UnspentAfter
  <2>2. o \in Outpoint /\ o[1] = s[i]
    BY <1>2, <1>5, <2>1
  <2>3. s[i] \in ToSet(s)
    BY DEF ToSet
  <2>4. \A V : s[i] \in With(s, v, V) => v[i] \in V
    BY <1>2 DEF With, IsInjective
  <2>5. QED
    BY <1>1, <1>2, <2>1, <2>2, <2>3, <2>4
<1>9. balanceHist' \in Seq(SUBSET Outpoint)
  <2>1. balanceHist' \in [1..Len(s) -> SUBSET Outpoint]
    BY <1>1, <1>7
  <2>2. QED
    BY <1>2, <2>1
<1>10. spentOutputs' \subseteq Outpoint /\ usedAddrs' \subseteq Address
  BY <1>1, <1>3, <1>4, <1>6
<1>11. QED
  BY <1>1, <1>3, <1>8, <1>9, <1>10

\* The extended chain exists, is no shorter than before, and ends in gap unused
\* addresses.
LEMMA ExtendedLenFacts ==
  ASSUME NEW c \in Chain, NEW gap \in Nat, chainLen[c] \in Nat, usedAddrs \subseteq Address
  PROVE  /\ ExtendedLen(c, gap) \in Nat
         /\ ExtendedLen(c, gap) >= chainLen[c] /\ ExtendedLen(c, gap) >= gap
         /\ \A i \in (ExtendedLen(c, gap) - gap)..(ExtendedLen(c, gap) - 1) :
              <<c, i>> \notin usedAddrs
<1> DEFINE L == chainLen[c]
           free(n) == \A i \in (n - gap)..(n - 1) : <<c, i>> \notin usedAddrs
           S == {n \in L..(L + MaxIndex + 1 + gap) : n >= gap /\ free(n)}
<1>1. L \in Nat /\ MaxIndex \in Nat /\ gap \in Nat
  BY WalletAssumption
<1>2. L + MaxIndex + 1 + gap \in S
  <2>1. \A i \in Int : i > MaxIndex => <<c, i>> \notin usedAddrs
    <3> SUFFICES ASSUME NEW i \in Int, i > MaxIndex, <<c, i>> \in Address
                 PROVE  FALSE
      OBVIOUS
    <3>1. c # "foreign"
      BY DEF Chain
    <3>2. <<c, i>> \in Chain \X (0..MaxIndex)
      BY <3>1 DEF Address
    <3>3. QED
      BY <1>1, <3>2
  <2>2. free(L + MaxIndex + 1 + gap)
    BY <1>1, <2>1
  <2>3. QED
    BY <1>1, <2>2
<1>3. S \in SUBSET Nat
  BY <1>1
<1> HIDE DEF free
<1>4. PICK n \in S : \A m \in S : n <= m
  BY <1>2, <1>3, LeastNat, Zenon
<1>5. \A m \in L..(n - 1) : m < gap \/ ~free(m)
  BY <1>1, <1>4
<1>6. \E k \in L..(L + MaxIndex + 1 + gap) :
        k >= gap /\ free(k) /\ \A m \in L..(k - 1) : m < gap \/ ~free(m)
  BY <1>4, <1>5
<1>7. ExtendedLen(c, gap) =
        CHOOSE k \in L..(L + MaxIndex + 1 + gap) :
          k >= gap /\ free(k) /\ \A m \in L..(k - 1) : m < gap \/ ~free(m)
  BY Zenon DEF ExtendedLen, free
<1>8. /\ ExtendedLen(c, gap) \in L..(L + MaxIndex + 1 + gap)
      /\ ExtendedLen(c, gap) >= gap /\ free(ExtendedLen(c, gap))
  BY <1>6, <1>7
<1>9. QED
  BY <1>1, <1>8 DEF free
-----------------------------------------------------------------------------
(***************************************************************************)
(* The invariant, action by action.                                        *)
(***************************************************************************)

\* Heights are naturals, an unconfirmed transaction's above every block's.
LEMMA HeightFacts ==
  /\ Height \subseteq Nat /\ TX_UNCONFIRMED \in Height /\ TX_UNCONFIRMED > MaxHeight
  /\ \A h \in Height : h <= TX_UNCONFIRMED
  /\ 0 \in Height
BY WalletAssumption DEF Height

\* An output that pays one of the first addresses is the wallet's own.
LEMMA EarlyOwned ==
  ASSUME NEW t \in Tx, NEW o \in OutpointsOf(t), Early(o),
         chainLen \in [Chain -> Nat], KeepsFirstAddresses
  PROVE  o \in OwnOutputs(t)
<1>1. PICK n \in DOMAIN Outs[t] : o = <<t, n>>
  BY DEF OutpointsOf
<1>2. PICK c \in Chain : \E i \in 0..(GapLimit[c] - 1) : Outs[t][n] = <<c, i>>
  BY <1>1 DEF Early
<1>3. PICK i \in 0..(GapLimit[c] - 1) : Outs[t][n] = <<c, i>>
  BY <1>2
<1>4. i < chainLen[c]
  <2>1. GapLimit[c] \in Nat /\ chainLen[c] \in Nat /\ chainLen[c] >= GapLimit[c]
    BY WalletAssumption DEF KeepsFirstAddresses
  <2>2. QED
    BY <2>1
<1>5. Outs[t][n] \in Address
  BY WalletAssumption
<1>6. Outs[t][n] \in AllAddrs
  BY <1>3, <1>4, <1>5 DEF AllAddrs
<1>7. QED
  BY <1>1, <1>6 DEF OwnOutputs

\* One step of the pass over the list: the verdict on the i-th transaction, given
\* the verdicts v on the ones before it.
VerdictOf(s, h, bh, v, i) ==
  LET t     == s[i]
      after(verdict) == {s[j] : j \in {k \in 1..(i - 1) : v[k] = verdict}}
      spent == UNION {Ins[p] : p \in after("counted") \cup after("pending")}
  IN IF h[t] # TX_UNCONFIRMED THEN "counted"
     ELSE IF Ins[t] \cap spent # {} \/ Parents(t) \cap after("invalid") # {}
          THEN "invalid"
     ELSE IF Defers(t, bh) \/ Parents(t) \cap after("pending") # {}
          THEN "pending"
     ELSE "counted"

\* A verdict depends on the verdicts before it and on no others.
LEMMA VerdictOfLocal ==
  ASSUME NEW s, NEW h, NEW bh, NEW v, NEW w, NEW i \in Nat,
         \A k \in 1..(i - 1) : v[k] = w[k]
  PROVE  VerdictOf(s, h, bh, v, i) = VerdictOf(s, h, bh, w, i)
<1> DEFINE after(u, x) == {s[j] : j \in {k \in 1..(i - 1) : u[k] = x}}
           verdict(counted, pending, invalid) ==
             IF h[s[i]] # TX_UNCONFIRMED THEN "counted"
             ELSE IF \/ Ins[s[i]] \cap (UNION {Ins[p] : p \in counted \cup pending}) # {}
                     \/ Parents(s[i]) \cap invalid # {}
                  THEN "invalid"
             ELSE IF Defers(s[i], bh) \/ Parents(s[i]) \cap pending # {}
                  THEN "pending"
             ELSE "counted"
<1>1. \A x : after(v, x) = after(w, x)
  <2>1. \A x : {k \in 1..(i - 1) : v[k] = x} = {k \in 1..(i - 1) : w[k] = x}
    OBVIOUS
  <2>2. QED
    BY <2>1
<1>2. /\ VerdictOf(s, h, bh, v, i) =
           verdict(after(v, "counted"), after(v, "pending"), after(v, "invalid"))
      /\ VerdictOf(s, h, bh, w, i) =
           verdict(after(w, "counted"), after(w, "pending"), after(w, "invalid"))
  BY DEF VerdictOf
<1> HIDE DEF after, verdict
<1>3. QED
  BY ONLY <1>1, <1>2

\* The pass exists: the recursion of Verdicts has a solution, so that what the
\* pass returns satisfies it.  The shortest prefix without one would be one
\* longer than a prefix that has one.
LEMMA VerdictsUnfold ==
  ASSUME NEW s \in Seq(Tx), NEW h, NEW bh
  PROVE  Verdicts(s, h, bh) =
           [i \in 1..Len(s) |-> VerdictOf(s, h, bh, Verdicts(s, h, bh), i)]
<1> DEFINE V(v, i) == VerdictOf(s, h, bh, v, i)
           Solved(n) == \E v : v = [i \in 1..n |-> V(v, i)]
           Bad == {n \in Nat : ~Solved(n)}
<1>1. Verdicts(s, h, bh) = CHOOSE v : v = [i \in 1..Len(s) |-> V(v, i)]
  BY DEF Verdicts, VerdictOf
<1>2. \A v, w : \A i \in Nat : (\A k \in 1..(i - 1) : v[k] = w[k]) => V(v, i) = V(w, i)
  BY VerdictOfLocal
<1> HIDE DEF V
<1>3. Bad = {}
  <2> SUFFICES ASSUME Bad # {}
               PROVE  FALSE
    OBVIOUS
  <2>1. PICK n \in Bad : \A m \in Bad : n <= m
    BY LeastNat
  <2>2. n # 0
    <3>1. [i \in 1..0 |-> V(<<>>, i)] = <<>>
      OBVIOUS
    <3>2. <<>> = [i \in 1..0 |-> V(<<>>, i)]
      BY <3>1
    <3>3. Solved(0)
      BY <3>2
    <3>4. QED
      BY <2>1, <3>3
  <2>3. n - 1 \in Nat /\ n - 1 \notin Bad
    BY <2>1, <2>2
  <2>4. PICK v : v = [i \in 1..(n - 1) |-> V(v, i)]
    BY <2>3
  <2> DEFINE w == [i \in 1..n |-> V(v, i)]
  <2>5. \A i \in 1..(n - 1) : w[i] = v[i]
    <3>1. \A i \in 1..(n - 1) : v[i] = V(v, i)
      BY <2>4, Zenon
    <3>2. \A i \in 1..(n - 1) : i \in 1..n
      BY <2>1
    <3>3. QED
      BY <3>1, <3>2
  <2>6. \A i \in 1..n : V(w, i) = V(v, i)
    <3> SUFFICES ASSUME NEW i \in 1..n
                 PROVE  V(w, i) = V(v, i)
      OBVIOUS
    <3>1. i \in Nat /\ \A k \in 1..(i - 1) : k \in 1..(n - 1)
      BY <2>1
    <3> HIDE DEF w
    <3>2. QED
      BY <1>2, <2>5, <3>1
  <2>7. w = [i \in 1..n |-> V(w, i)]
    BY <2>6, Zenon
  <2>8. Solved(n)
    BY <2>7, Zenon
  <2>9. QED
    BY <2>1, <2>8
<1>4. Solved(Len(s))
  BY <1>3
<1>5. Verdicts(s, h, bh) = [i \in 1..Len(s) |-> V(Verdicts(s, h, bh), i)]
  BY <1>1, <1>4, Zenon
<1>6. QED
  BY <1>5 DEF V

\* What the pass decides: a confirmed transaction counts, and an unconfirmed one
\* that spends what an earlier one spends is invalid unless that one is.
LEMMA VerdictsFacts ==
  ASSUME NEW s \in Seq(Tx), NEW h, NEW bh, NEW v, v = Verdicts(s, h, bh)
  PROVE  \A i \in 1..Len(s) :
           /\ v[i] \in {"counted", "pending", "invalid"}
           /\ h[s[i]] # TX_UNCONFIRMED => v[i] = "counted"
           /\ \A j \in 1..(i - 1) :
                h[s[i]] = TX_UNCONFIRMED /\ Ins[s[i]] \cap Ins[s[j]] # {}
                  => v[i] = "invalid" \/ v[j] = "invalid"
<1>1. \A i \in 1..Len(s) : v[i] = VerdictOf(s, h, bh, v, i)
  <2>1. v = [i \in 1..Len(s) |-> VerdictOf(s, h, bh, v, i)]
    BY VerdictsUnfold
  <2>2. QED
    BY <2>1, Zenon
<1>2. \A i \in 1..Len(s) : v[i] \in {"counted", "pending", "invalid"}
  BY <1>1 DEF VerdictOf
<1>3. \A i \in 1..Len(s) : h[s[i]] # TX_UNCONFIRMED => v[i] = "counted"
  BY <1>1 DEF VerdictOf
<1>4. ASSUME NEW i \in 1..Len(s), NEW j \in 1..(i - 1), h[s[i]] = TX_UNCONFIRMED,
             Ins[s[i]] \cap Ins[s[j]] # {}, v[j] # "invalid"
      PROVE  v[i] = "invalid"
  <2> DEFINE after(verdict) == {s[k] : k \in {l \in 1..(i - 1) : v[l] = verdict}}
             spent == UNION {Ins[p] : p \in after("counted") \cup after("pending")}
  <2>1. j \in 1..Len(s)
    BY <1>4
  <2>2. v[j] = "counted" \/ v[j] = "pending"
    BY <1>2, <1>4, <2>1
  <2>3. s[j] \in after("counted") \cup after("pending")
    BY <1>4, <2>2
  <2>4. Ins[s[j]] \subseteq spent
    BY <2>3
  <2>5. Ins[s[i]] \cap spent # {}
    BY <1>4, <2>4
  <2>6. VerdictOf(s, h, bh, v, i) = "invalid"
    BY <1>4, <2>5 DEF VerdictOf
  <2>7. QED
    BY <1>1, <2>6
<1>5. QED
  BY <1>2, <1>3, <1>4

\* What a fresh balance has to do with its list: the left out ones are
\* unconfirmed, of two that conflict one is invalid, and utxos has what nothing
\* listed spends and nothing that a counted one spends.
LEMMA FreshBalance ==
  ASSUME NEW s \in Seq(Tx), NEW h \in [Tx -> Height], NEW bh,
         IsInjective(s), Ordered(h, s), UpdateBalance(s, h, bh),
         chainLen \in [Chain -> Nat], KeepsFirstAddresses,
         \A t1, t2 \in ToSet(s) :
           t1 # t2 /\ h[t1] # TX_UNCONFIRMED /\ h[t2] # TX_UNCONFIRMED
             => Ins[t1] \cap Ins[t2] = {}
  PROVE  /\ \A t \in ToSet(s) \cap (invalidTx' \cup pendingTx') : h[t] = TX_UNCONFIRMED
         /\ \A t1, t2 \in ToSet(s) :
              t1 # t2 /\ Ins[t1] \cap Ins[t2] # {} => t1 \in invalidTx' \/ t2 \in invalidTx'
         /\ \A o \in utxos' :
              /\ o \in OwnOutputs(o[1])
              /\ \A t \in ToSet(s) \ (invalidTx' \cup pendingTx') : o \notin Ins[t]
         /\ \A t \in ToSet(s) \ (invalidTx' \cup pendingTx') : \A o \in OutpointsOf(t) :
              Early(o) /\ (\A u \in ToSet(s) : o \notin Ins[u]) => o \in utxos'
<1> DEFINE v == Verdicts(s, h, bh)
<1>1. /\ utxos' = UnspentAfter(s, v, Len(s))
      /\ invalidTx' = With(s, v, {"invalid"})
      /\ pendingTx' = With(s, v, {"pending"})
  BY DEF UpdateBalance
<1>2. \A i \in 1..Len(s) :
        /\ v[i] \in {"counted", "pending", "invalid"}
        /\ h[s[i]] # TX_UNCONFIRMED => v[i] = "counted"
        /\ \A j \in 1..(i - 1) :
             h[s[i]] = TX_UNCONFIRMED /\ Ins[s[i]] \cap Ins[s[j]] # {}
               => v[i] = "invalid" \/ v[j] = "invalid"
  BY VerdictsFacts
<1> HIDE DEF v
<1>3. Len(s) \in Nat /\ \A i \in 1..Len(s) : s[i] \in Tx
  OBVIOUS
<1>4. \A i \in 1..Len(s) :
        /\ s[i] \in invalidTx' <=> v[i] = "invalid"
        /\ s[i] \in pendingTx' <=> v[i] = "pending"
  <2>1. \A V : \A i \in 1..Len(s) : s[i] \in With(s, v, V) <=> v[i] \in V
    BY <1>3 DEF With, IsInjective
  <2>2. \A i \in 1..Len(s) : s[i] \in With(s, v, {"invalid"}) <=> v[i] = "invalid"
    BY <2>1
  <2>3. \A i \in 1..Len(s) : s[i] \in With(s, v, {"pending"}) <=> v[i] = "pending"
    BY <2>1
  <2>4. QED
    BY ONLY <1>1, <2>2, <2>3
<1>5. \A t : t \in ToSet(s) <=> \E i \in 1..Len(s) : t = s[i]
  BY ToSetElements
<1>6. ASSUME NEW t \in ToSet(s) \cap (invalidTx' \cup pendingTx')
      PROVE  h[t] = TX_UNCONFIRMED
  BY <1>2, <1>4, <1>5
<1>7. ASSUME NEW i \in 1..Len(s), NEW j \in 1..Len(s), j < i, Ins[s[i]] \cap Ins[s[j]] # {}
      PROVE  v[i] = "invalid" \/ v[j] = "invalid"
  <2>1. CASE h[s[i]] = TX_UNCONFIRMED
    <3>1. j \in 1..(i - 1)
      BY <1>7
    <3>2. QED
      BY <1>2, <1>7, <2>1, <3>1
  <2>2. CASE h[s[i]] # TX_UNCONFIRMED
    <3>1. h[s[j]] <= h[s[i]]
      BY <1>7 DEF Ordered
    <3>2. /\ h[s[i]] \in Nat /\ h[s[j]] \in Nat /\ TX_UNCONFIRMED \in Nat
          /\ h[s[i]] <= TX_UNCONFIRMED
      <4>1. h[s[i]] \in Height /\ h[s[j]] \in Height
        BY <1>3
      <4>2. QED
        BY ONLY <4>1, HeightFacts
    <3>3. h[s[j]] # TX_UNCONFIRMED
      BY ONLY <2>2, <3>1, <3>2
    <3>4. s[i] # s[j] /\ s[i] \in ToSet(s) /\ s[j] \in ToSet(s)
      BY <1>5, <1>7 DEF IsInjective
    <3>5. QED
      BY <1>7, <2>2, <3>3, <3>4
  <2>3. QED
    BY <2>1, <2>2
<1>8. ASSUME NEW t1 \in ToSet(s), NEW t2 \in ToSet(s), t1 # t2, Ins[t1] \cap Ins[t2] # {}
      PROVE  t1 \in invalidTx' \/ t2 \in invalidTx'
  <2>1. PICK i \in 1..Len(s) : t1 = s[i]
    BY <1>5
  <2>2. PICK j \in 1..Len(s) : t2 = s[j]
    BY <1>5
  <2>3. j < i \/ i < j
    BY <1>3, <1>8, <2>1, <2>2
  <2>4. v[i] = "invalid" \/ v[j] = "invalid"
    BY <1>7, <1>8, <2>1, <2>2, <2>3
  <2>5. QED
    BY <1>4, <2>1, <2>2, <2>4
<1>9. ASSUME NEW o \in utxos'
      PROVE  /\ o \in OwnOutputs(o[1])
             /\ \A t \in ToSet(s) \ (invalidTx' \cup pendingTx') : o \notin Ins[t]
  <2>1. PICK i \in 1..Len(s) : o \in OwnOutputs(s[i])
    BY <1>1, <1>9 DEF UnspentAfter
  <2>2. o[1] = s[i]
    BY <2>1 DEF OwnOutputs, OutpointsOf
  <2>3. ASSUME NEW t \in ToSet(s) \ (invalidTx' \cup pendingTx')
        PROVE  o \notin Ins[t]
    <3>1. PICK k \in 1..Len(s) : t = s[k]
      BY <1>5
    <3>2. v[k] = "counted"
      BY <1>2, <1>4, <2>3, <3>1
    <3>3. k <= k /\ v[k] # "invalid"
      BY <1>3, <3>2
    <3>4. Ins[s[k]] \cap UnspentAfter(s, v, Len(s)) = {}
      BY <3>2, <3>3 DEF UnspentAfter
    <3>5. QED
      BY <1>1, <1>9, <3>1, <3>4
  <2>4. QED
    BY <2>1, <2>2, <2>3
<1>10. ASSUME NEW t \in ToSet(s) \ (invalidTx' \cup pendingTx'), NEW o \in OutpointsOf(t),
              Early(o), \A u \in ToSet(s) : o \notin Ins[u]
       PROVE  o \in utxos'
  <2>1. PICK k \in 1..Len(s) : t = s[k]
    BY <1>5
  <2>2. v[k] = "counted"
    BY <1>2, <1>4, <1>10, <2>1
  <2>3. o \in OwnOutputs(s[k])
    BY <1>3, <1>10, <2>1, EarlyOwned
  <2>4. \A i \in 1..Len(s) : o \notin Ins[s[i]]
    BY <1>5, <1>10
  <2>5. o \in UnspentAfter(s, v, Len(s))
    BY <2>2, <2>3, <2>4 DEF UnspentAfter
  <2>6. QED
    BY <1>1, <2>5
<1>11. QED
  BY <1>6, <1>8, <1>9, <1>10

\* Longer chains own more outputs.
LEMMA OwnOutputsGrow ==
  ASSUME NEW t \in Tx, chainLen \in [Chain -> Nat], chainLen' \in [Chain -> Nat],
         \A c \in Chain : chainLen[c] <= chainLen'[c]
  PROVE  OwnOutputs(t) \subseteq OwnOutputs(t)'
<1>1. AllAddrs \subseteq AllAddrs'
  <2> SUFFICES ASSUME NEW a \in AllAddrs
               PROVE  a \in AllAddrs'
    OBVIOUS
  <2>1. a \in Address /\ a[1] \in Chain /\ a[2] < chainLen[a[1]]
    BY DEF AllAddrs
  <2>2. a[2] \in Nat
    BY <2>1, WalletAssumption DEF Address
  <2>3. a[2] < chainLen'[a[1]]
    <3>1. chainLen[a[1]] \in Nat /\ chainLen'[a[1]] \in Nat /\ chainLen[a[1]] <= chainLen'[a[1]]
      BY <2>1
    <3>2. QED
      BY <2>1, <2>2, <3>1
  <2>4. QED
    BY <2>1, <2>3 DEF AllAddrs
<1>2. QED
  BY <1>1 DEF OwnOutputs, OutpointsOf

\* An empty wallet satisfies the invariant.
LEMMA InitListInv == Init => ListInv
<1> SUFFICES ASSUME Init
             PROVE  ListInv
  OBVIOUS
<1> USE DEF Init
<1>1. Len(transactions) = 0 /\ Listed = {} /\ ToSet(update.todo) = {} /\ ToSet(doomed) = {}
  BY DEF Listed, ToSet, NoUpdate
<1>2. TypeOK
  <2>1. GapLimit \in [Chain -> Nat]
    BY WalletAssumption
  <2>2. QED
    BY <2>1, HeightFacts, WalletAssumption DEF TypeOK, NoUpdate
<1>3. ListedOnce /\ SortedByHeight /\ UtxosBacked /\ ListedContained
  BY <1>1 DEF ListedOnce, SortedByHeight, UtxosBacked, ListedContained, IsInjective, Ordered
<1>4. UpdateFollowsChain /\ DoomedUnconfirmed
  BY <1>1 DEF UpdateFollowsChain, DoomedUnconfirmed
<1>5. ChainInOrder
  BY HeightFacts DEF ChainInOrder, Parents
<1>6. QED
  BY <1>2, <1>3, <1>4, <1>5 DEF ListInv
\* A new transaction is unconfirmed and, when it belongs to the wallet, inserted.
LEMMA RegisterKeeps ==
  ASSUME ListInv, NEW t \in Tx, NEW time \in 0..MaxTime, Register(t, time)
  PROVE  ListInv'
<1> USE DEF ListInv
<1>1. /\ Ready /\ t \notin allTx /\ mined[t] = TX_UNCONFIRMED
      /\ allTx' = allTx \cup {t}
      /\ txHeight' = [txHeight EXCEPT ![t] = TX_UNCONFIRMED]
      /\ txTime' = [txTime EXCEPT ![t] = time]
      /\ UNCHANGED <<blockHeight, chainLen, doomed, update, mined, tip>>
  BY DEF Register, envVars
<1>2. t \notin Listed
  BY <1>1 DEF ListedOnce
<1>3. /\ txHeight' \in [Tx -> Height] /\ txTime' \in [Tx -> 0..MaxTime]
      /\ txHeight'[t] = TX_UNCONFIRMED
      /\ \A u \in Tx : u # t => txHeight'[u] = txHeight[u]
  BY <1>1, HeightFacts DEF TypeOK
<1>4. transactions \in Seq(Tx) /\ IsInjective(transactions) /\ t \notin ToSet(transactions)
  BY <1>2 DEF TypeOK, Listed, ListedOnce
<1>5. Ordered(txHeight', transactions)
  <2>1. \A i \in 1..Len(transactions) : transactions[i] \in Tx /\ transactions[i] # t
    BY <1>4 DEF ToSet
  <2>2. QED
    BY <1>3, <2>1 DEF SortedByHeight, Ordered
<1>6. CASE ContainsTx(allTx, t)
  <2>1. /\ transactions' = InsertTx(allTx', txHeight', transactions, t)
        /\ UpdateBalance(transactions', txHeight', blockHeight)
        /\ extending' = <<"external", "internal">>
    BY <1>6 DEF Register
  <2>2. /\ transactions' \in Seq(Tx) /\ ToSet(transactions') = ToSet(transactions) \cup {t}
        /\ IsInjective(transactions') /\ Ordered(txHeight', transactions')
    <3>1. txHeight' \in [Tx -> Nat]
      BY <1>3, HeightFacts
    <3>2. transactions' = InsertTx(allTx', txHeight', transactions, t)
      BY <2>1
    <3>3. t \in Tx
      OBVIOUS
    <3>4. QED
      BY ONLY <1>4, <1>5, <3>1, <3>2, <3>3, InsertTxFacts
  <2>3. Listed' = Listed \cup {t}
    BY <2>2 DEF Listed
  <2>4. /\ utxos' \subseteq Outpoint /\ spentOutputs' \subseteq Outpoint
        /\ balanceHist' \in Seq(SUBSET Outpoint)
        /\ invalidTx' \subseteq Tx /\ pendingTx' \subseteq Tx /\ usedAddrs' \subseteq Address
        /\ \A o \in utxos' : o[1] \in Listed' /\ o[1] \notin invalidTx' \cup pendingTx'
    <3>1. \A o \in utxos' : o[1] \in ToSet(transactions')
      BY <2>1, <2>2, UpdateBalanceFacts
    <3>2. QED
      BY <2>1, <2>2, <3>1, UpdateBalanceFacts DEF Listed
  <2>5. TypeOK'
    BY <1>1, <1>3, <2>1, <2>2, <2>4 DEF TypeOK, Chain
  <2>6. ListedOnce' /\ SortedByHeight' /\ UtxosBacked'
    BY <1>1, <2>2, <2>3, <2>4 DEF ListedOnce, SortedByHeight, UtxosBacked
  <2>7. ListedContained'
    <3>1. \A u \in Tx : ContainsTx(allTx, u) => ContainsTx(allTx, u)'
      BY <1>1 DEF ContainsTx, OwnOutputs, AllAddrs
    <3>2. Listed \subseteq Tx
      BY DEF ListedOnce, TypeOK
    <3>3. QED
      BY <1>6, <2>3, <3>1, <3>2 DEF ListedContained
  <2>8. UpdateFollowsChain'
    BY <1>1, <1>2, <1>3, <2>3 DEF UpdateFollowsChain, Ready, NoUpdate, ToSet, ListedOnce, TypeOK
  <2>9. DoomedUnconfirmed'
    <3>1. doomed = <<>> /\ doomed' = <<>>
      BY <1>1 DEF Ready
    <3>2. QED
      BY ONLY <3>1 DEF DoomedUnconfirmed, ToSet
  <2>10. ChainInOrder'
    BY <1>1 DEF ChainInOrder, Parents
  <2>11. QED
    BY <2>5, <2>6, <2>7, <2>8, <2>9, <2>10
<1>7. CASE ~ContainsTx(allTx, t)
  <2>1. UNCHANGED <<transactions, utxos, balanceHist, spentOutputs, invalidTx, pendingTx,
                    usedAddrs, extending>>
    BY <1>7 DEF Register, cacheVars
  <2>2. TypeOK'
    BY <1>1, <1>3, <2>1 DEF TypeOK
  <2>3. ListedOnce' /\ SortedByHeight' /\ UtxosBacked'
    BY <1>1, <1>5, <2>1 DEF ListedOnce, SortedByHeight, UtxosBacked, Listed
  <2>4. ListedContained'
    BY <1>1, <2>1 DEF ListedContained, ContainsTx, Listed, OwnOutputs, AllAddrs
  <2>5. UpdateFollowsChain'
    BY <1>1, <1>2, <1>3, <2>1 DEF UpdateFollowsChain, Listed, ListedOnce, TypeOK
  <2>6. QED
    BY <1>1, <1>3, <2>1, <2>2, <2>3, <2>4, <2>5 DEF DoomedUnconfirmed, ChainInOrder, TypeOK, ToSet, Parents
<1>8. QED
  BY <1>6, <1>7
\* Longer chains leave the lists alone, and what belonged to the wallet still does.
LEMMA LongerChainsKeep ==
  ASSUME ListInv, NEW c \in Chain, NEW gap \in Nat, UnusedAddrs(c, gap),
         extending' \in Seq(Chain),
         UNCHANGED <<listVars, cacheVars, doomed, update, envVars>>
  PROVE  ListInv'
<1> USE DEF ListInv
<1> USE DEF listVars, cacheVars, envVars
<1>1. chainLen \in [Chain -> Nat] /\ usedAddrs \subseteq Address
  BY DEF TypeOK
<1>2. /\ chainLen' = [chainLen EXCEPT ![c] = ExtendedLen(c, gap)]
      /\ ExtendedLen(c, gap) \in Nat /\ ExtendedLen(c, gap) >= chainLen[c]
  BY <1>1, ExtendedLenFacts DEF UnusedAddrs
<1>3. chainLen' \in [Chain -> Nat] /\ \A d \in Chain : chainLen[d] <= chainLen'[d]
  BY <1>1, <1>2
<1>4. TypeOK'
  BY <1>3 DEF TypeOK
<1>5. ListedContained'
  <2>1. Listed \subseteq Tx /\ allTx \subseteq Tx /\ Listed' = Listed
    BY DEF ListedOnce, TypeOK, Listed
  <2>2. \A t \in Tx : OwnOutputs(t) \subseteq OwnOutputs(t)'
    BY <1>1, <1>3, OwnOutputsGrow
  <2>3. ASSUME NEW t \in Tx, ContainsTx(allTx, t)
        PROVE  ContainsTx(allTx, t)'
    <3>1. CASE OwnOutputs(t) # {}
      BY <2>2, <3>1 DEF ContainsTx
    <3>2. CASE \E o \in Ins[t] : o[1] \in allTx /\ o \in OwnOutputs(o[1])
      BY <2>1, <2>2, <3>2 DEF ContainsTx
    <3>3. QED
      BY <2>3, <3>1, <3>2 DEF ContainsTx
  <2>4. QED
    BY <2>1, <2>3 DEF ListedContained
<1>6. ListedOnce' /\ SortedByHeight' /\ UtxosBacked'
  BY DEF ListedOnce, SortedByHeight, UtxosBacked, Listed
<1>7. UpdateFollowsChain' /\ DoomedUnconfirmed' /\ ChainInOrder'
  BY DEF UpdateFollowsChain, DoomedUnconfirmed, ChainInOrder, Listed, Parents
<1>8. QED
  BY <1>4, <1>5, <1>6, <1>7

\* A removal starts from an unconfirmed transaction, and goes on to unconfirmed
\* ones: a spender is listed no lower than the chain has what it spends.
LEMMA RemovalStepsKeep ==
  ASSUME ListInv,
         RemoveDependents \/ \E t \in Tx : RemoveTransaction(t)
  PROVE  ListInv'
<1> USE DEF ListInv
<1>1. UNCHANGED <<listVars, chainLen, cacheVars, extending, update, envVars>>
  BY DEF RemoveDependents, RemoveTransaction
<1>2. /\ doomed' \in Seq(Tx) /\ ~update.running
      /\ \A u \in ToSet(doomed') : mined[u] = TX_UNCONFIRMED /\ txHeight[u] = TX_UNCONFIRMED
  <2>0. \A u \in Listed : ~update.running => txHeight[u] = mined[u]
    BY DEF UpdateFollowsChain, NoUpdate, ToSet
  <2>1. CASE \E t \in Tx : RemoveTransaction(t)
    <3>1. PICK t \in Tx : RemoveTransaction(t)
      BY <2>1
    <3>2. /\ doomed' = <<t>> /\ ~update.running
          /\ txHeight[t] = TX_UNCONFIRMED /\ t \in Listed
      BY <3>1 DEF RemoveTransaction, Ready
    <3>3. ToSet(<<t>>) = {t} /\ <<t>> \in Seq(Tx)
      BY DEF ToSet
    <3>4. QED
      BY <2>0, <3>2, <3>3
  <2>2. CASE RemoveDependents
    <3> DEFINE D == Dependents(Head(doomed))
    <3>1. doomed # <<>> /\ ~update.running /\ doomed \in Seq(Tx)
      BY <2>2 DEF RemoveDependents, DoomedUnconfirmed, TypeOK
    <3>2. PICK q \in SetToSeqs(D) : doomed' = q \o doomed
      BY <2>2 DEF RemoveDependents
    <3>3. Head(doomed) \in ToSet(doomed) /\ txHeight[Head(doomed)] = TX_UNCONFIRMED
      BY <3>1 DEF DoomedUnconfirmed, ToSet
    <3>4. \A u \in D : u \in Listed /\ u \in Tx /\ txHeight[u] >= TX_UNCONFIRMED
      <4> SUFFICES ASSUME NEW u \in D
                   PROVE  u \in Listed /\ u \in Tx /\ txHeight[u] >= TX_UNCONFIRMED
        OBVIOUS
      <4>1. PICK j \in 1..Len(transactions) :
              /\ transactions[j] = u
              /\ \A k \in j..Len(transactions) : txHeight[transactions[k]] >= txHeight[Head(doomed)]
        BY DEF Dependents
      <4>2. u \in Tx /\ u \in Listed
        BY <4>1 DEF TypeOK, Listed, ToSet
      <4>3. j \in j..Len(transactions)
        BY <4>1 DEF TypeOK
      <4>4. QED
        BY <3>3, <4>1, <4>2, <4>3
    <3>5. \A u \in D : mined[u] = TX_UNCONFIRMED /\ txHeight[u] = TX_UNCONFIRMED
      <4>1. \A u \in Tx : txHeight[u] \in Height
        BY DEF TypeOK
      <4>2. \A h \in Height : h >= TX_UNCONFIRMED => h = TX_UNCONFIRMED
        BY HeightFacts
      <4>3. QED
        BY <2>0, <3>1, <3>4, <4>1, <4>2
    <3>6. q \in Seq(D)
      <4>1. IsFiniteSet(D)
        BY <3>4, FS_Subset, WalletAssumption
      <4>2. Cardinality(D) \in Nat
        BY <4>1, FS_CardinalityType
      <4>3. q \in [1..Cardinality(D) -> D]
        BY DEF SetToSeqs
      <4>4. QED
        BY <4>2, <4>3
    <3> HIDE DEF D
    <3>7. q \in Seq(Tx) /\ ToSet(q) \subseteq D
      <4>1. \A i \in 1..Len(q) : q[i] \in D /\ q[i] \in Tx
        BY <3>4, <3>6
      <4>2. QED
        BY <3>6, <4>1 DEF ToSet
    <3>8. /\ doomed' \in Seq(Tx)
          /\ \A u \in ToSet(doomed') : u \in ToSet(q) \/ u \in ToSet(doomed)
      <4>1. /\ doomed' \in Seq(Tx) /\ Len(doomed') = Len(q) + Len(doomed)
            /\ \A k \in 1..Len(doomed') :
                 doomed'[k] = IF k <= Len(q) THEN q[k] ELSE doomed[k - Len(q)]
        BY <3>1, <3>2, <3>7, ConcatProperties
      <4>2. ASSUME NEW k \in 1..Len(doomed')
            PROVE  doomed'[k] \in ToSet(q) \/ doomed'[k] \in ToSet(doomed)
        <5>1. CASE k <= Len(q)
          BY <3>7, <4>1, <5>1 DEF ToSet
        <5>2. CASE k > Len(q)
          <6>1. k - Len(q) \in 1..Len(doomed)
            BY <3>1, <3>7, <4>1, <5>2
          <6>2. QED
            BY <3>1, <3>7, <4>1, <5>2, <6>1 DEF ToSet
        <5>3. QED
          BY <3>7, <5>1, <5>2
      <4>3. QED
        BY <4>1, <4>2 DEF ToSet
    <3>9. QED
      BY <3>1, <3>5, <3>7, <3>8 DEF DoomedUnconfirmed
  <2>3. QED
    BY <2>1, <2>2
<1> USE DEF listVars, cacheVars, envVars
<1>3. TypeOK' /\ DoomedUnconfirmed'
  BY <1>1, <1>2 DEF TypeOK, DoomedUnconfirmed
<1>4. ListedOnce' /\ SortedByHeight' /\ UtxosBacked'
  BY <1>1 DEF ListedOnce, SortedByHeight, UtxosBacked, Listed
<1>5. ListedContained' /\ UpdateFollowsChain' /\ ChainInOrder'
  BY <1>1 DEF ListedContained, ContainsTx, OwnOutputs, AllAddrs, UpdateFollowsChain,
              ChainInOrder, Listed, Parents
<1>6. QED
  BY <1>3, <1>4, <1>5

\* The removed transaction leaves the list and the balance is recomputed.
LEMMA RemoveLastKeeps ==
  ASSUME ListInv, RemoveLast
  PROVE  ListInv'
<1> USE DEF ListInv
<1>1. /\ doomed # <<>> /\ doomed' = Tail(doomed)
      /\ transactions' = RemoveTx(transactions, Head(doomed))
      /\ UpdateBalance(transactions', txHeight, blockHeight)
      /\ UNCHANGED <<allTx, txHeight, txTime, blockHeight, chainLen, extending, update, mined, tip>>
  BY DEF RemoveLast, envVars
<1>2. /\ transactions \in Seq(Tx) /\ doomed \in Seq(Tx) /\ Head(doomed) \in Tx
      /\ IsInjective(transactions) /\ Ordered(txHeight, transactions)
  BY <1>1 DEF TypeOK, ListedOnce, SortedByHeight
<1>3. /\ transactions' \in Seq(Tx) /\ ToSet(transactions') = ToSet(transactions) \ {Head(doomed)}
      /\ IsInjective(transactions') /\ Ordered(txHeight, transactions')
  <2> DEFINE t == Head(doomed)
  <2>0. txHeight \in [Tx -> Nat]
    BY HeightFacts DEF TypeOK
  <2>1. transactions' = RemoveTx(transactions, t) /\ t \in Tx
    BY <1>1, <1>2
  <2> HIDE DEF ListInv, t
  <2>2. /\ transactions' \in Seq(Tx) /\ ToSet(transactions') = ToSet(transactions) \ {t}
        /\ IsInjective(transactions') /\ Ordered(txHeight, transactions')
    BY <1>2, <2>0, <2>1, RemoveTxFacts
  <2>3. QED
    BY <2>2 DEF t
<1>4. Listed' \subseteq Listed
  BY <1>3 DEF Listed
<1>5. /\ utxos' \subseteq Outpoint /\ spentOutputs' \subseteq Outpoint
      /\ balanceHist' \in Seq(SUBSET Outpoint)
      /\ invalidTx' \subseteq Tx /\ pendingTx' \subseteq Tx /\ usedAddrs' \subseteq Address
      /\ \A o \in utxos' : o[1] \in ToSet(transactions') /\ o[1] \notin invalidTx' \cup pendingTx'
  BY <1>1, <1>3, UpdateBalanceFacts
<1>6. doomed' \in Seq(Tx) /\ ToSet(doomed') \subseteq ToSet(doomed)
  <2>1. /\ doomed' \in Seq(Tx) /\ Len(doomed') = Len(doomed) - 1
        /\ \A k \in 1..Len(doomed') : doomed'[k] = doomed[k + 1]
    BY <1>1, <1>2, HeadTailProperties
  <2>2. \A k \in 1..Len(doomed') : k + 1 \in 1..Len(doomed)
    BY <1>2, <2>1
  <2>3. /\ \A x : x \in ToSet(doomed') <=> \E k \in 1..Len(doomed') : x = doomed'[k]
        /\ \A x : x \in ToSet(doomed) <=> \E k \in 1..Len(doomed) : x = doomed[k]
    BY <1>2, <2>1, ToSetElements
  <2>4. QED
    BY <2>1, <2>2, <2>3
<1>7. TypeOK'
  BY <1>1, <1>3, <1>5, <1>6 DEF TypeOK
<1>8. ListedOnce' /\ SortedByHeight' /\ UtxosBacked'
  BY <1>1, <1>3, <1>4, <1>5 DEF ListedOnce, SortedByHeight, UtxosBacked, Listed
<1>9. ListedContained'
  BY <1>1, <1>4 DEF ListedContained, ContainsTx, OwnOutputs, AllAddrs
<1>10. UpdateFollowsChain' /\ DoomedUnconfirmed' /\ ChainInOrder'
  BY <1>1, <1>4, <1>6 DEF UpdateFollowsChain, DoomedUnconfirmed, ChainInOrder, Parents
<1>11. QED
  BY <1>7, <1>8, <1>9, <1>10

\* An update begins with transactions that the chain has where it will put them.
LEMMA BeginUpdateKeeps ==
  ASSUME ListInv, NEW q \in Seq(Tx), NEW height \in Height, NEW time \in 0..MaxTime,
         BeginUpdate(q, height, time),
         tip' \in 0..MaxHeight, mined' \in [Tx -> Height], ChainInOrder',
         \A u \in Listed : u \notin ToSet(q) => mined'[u] = mined[u],
         \A u \in Listed \cap ToSet(q) : mined'[u] = height
  PROVE  ListInv'
<1> USE DEF ListInv
<1>1. /\ Ready
      /\ blockHeight' = IF height > blockHeight THEN height ELSE blockHeight
      /\ update' = [running |-> TRUE, todo |-> q, height |-> height,
                    time |-> time, dirty |-> FALSE]
      /\ UNCHANGED <<transactions, allTx, txHeight, txTime, chainLen, cacheVars, extending, doomed>>
  BY DEF BeginUpdate
<1>2. TypeOK'
  BY <1>1 DEF TypeOK, cacheVars
<1>3. ListedOnce' /\ SortedByHeight' /\ UtxosBacked' /\ ListedContained'
  BY <1>1 DEF cacheVars, ListedOnce, SortedByHeight, UtxosBacked, ListedContained, Listed,
              ContainsTx, OwnOutputs, AllAddrs
<1>4. UpdateFollowsChain'
  <2>1. \A u \in Listed : txHeight[u] = mined[u]
    BY <1>1 DEF UpdateFollowsChain, Ready, NoUpdate, ToSet
  <2>2. update'.todo = q /\ update'.height = height /\ update'.running
    BY <1>1
  <2>3. QED
    BY <1>1, <2>1, <2>2 DEF UpdateFollowsChain, Listed
<1>5. DoomedUnconfirmed'
  BY <1>1 DEF DoomedUnconfirmed, Ready, ToSet
<1>6. QED
  BY <1>2, <1>3, <1>4, <1>5

\* A transaction that is not confirmed changes its time, not its height.
LEMMA MarkKeeps ==
  ASSUME ListInv, NEW t \in Tx, NEW time \in 0..MaxTime,
         txHeight[t] = TX_UNCONFIRMED,
         BeginUpdate(<<t>>, TX_UNCONFIRMED, time), UNCHANGED envVars
  PROVE  ListInv'
<1> USE DEF ListInv
<1>1. ToSet(<<t>>) = {t} /\ <<t>> \in Seq(Tx) /\ TX_UNCONFIRMED \in Height
  BY HeightFacts DEF ToSet
<1>2. t \in Listed => mined[t] = TX_UNCONFIRMED
  BY DEF UpdateFollowsChain, BeginUpdate, Ready, NoUpdate, ToSet
<1>3. tip' = tip /\ mined' = mined
  BY DEF envVars
<1>4. tip' \in 0..MaxHeight /\ mined' \in [Tx -> Height] /\ ChainInOrder'
  BY <1>3 DEF TypeOK, ChainInOrder, Parents
<1>5. /\ \A u \in Listed : u \notin ToSet(<<t>>) => mined'[u] = mined[u]
      /\ \A u \in Listed \cap ToSet(<<t>>) : mined'[u] = TX_UNCONFIRMED
  BY <1>1, <1>2, <1>3
<1> HIDE DEF ListInv
<1>6. QED
  BY <1>1, <1>4, <1>5, BeginUpdateKeeps

\* A block on top of the chain confirms what it holds at the new height.
LEMMA BlockConnectedKeeps ==
  ASSUME ListInv, NEW time \in 1..MaxTime, BlockConnected(time)
  PROVE  ListInv'
<1> USE DEF ListInv
<1>1. Ready /\ tip < MaxHeight /\ tip' = tip + 1 /\ tip \in Nat
  BY DEF BlockConnected, TypeOK
<1>2. PICK q \in Blocks :
        /\ mined' = [t \in Tx |-> IF t \in ToSet(q) THEN tip + 1 ELSE mined[t]]
        /\ IF q = <<>> THEN UNCHANGED <<listVars, chainLen, cacheVars, callVars>>
                       ELSE BeginUpdate(q, tip + 1, time)
  BY DEF BlockConnected
<1>3. /\ q \in Seq(Tx)
      /\ \A i \in 1..Len(q) :
           /\ mined[q[i]] = TX_UNCONFIRMED
           /\ \A p \in Parents(q[i]) : mined[p] # TX_UNCONFIRMED \/ \E j \in 1..(i - 1) : q[j] = p
  <2>1. PICK n \in 0..MaxBlockTx : q \in [1..n -> Tx]
    BY DEF Blocks
  <2>2. n \in Nat
    BY <2>1
  <2>3. q \in Seq(Tx) /\ Len(q) = n
    BY <2>1, <2>2
  <2>4. QED
    BY <2>1, <2>3 DEF Blocks
<1>4. \A t \in ToSet(q) :
        /\ t \in Tx /\ mined[t] = TX_UNCONFIRMED
        /\ \A p \in Parents(t) : mined[p] # TX_UNCONFIRMED \/ p \in ToSet(q)
  <2> SUFFICES ASSUME NEW i \in 1..Len(q)
               PROVE  /\ q[i] \in Tx /\ mined[q[i]] = TX_UNCONFIRMED
                      /\ \A p \in Parents(q[i]) : mined[p] # TX_UNCONFIRMED \/ p \in ToSet(q)
    BY <1>3 DEF ToSet
  <2>1. \A j \in 1..(i - 1) : j \in 1..Len(q)
    BY <1>3
  <2>2. QED
    BY <1>3, <2>1 DEF ToSet
<1>5. /\ tip + 1 \in Height /\ tip + 1 < TX_UNCONFIRMED /\ tip' \in 0..MaxHeight
      /\ mined' \in [Tx -> Height]
  <2>1. tip + 1 \in 0..MaxHeight
    BY <1>1, WalletAssumption
  <2>2. QED
    BY <1>1, <1>2, <2>1, WalletAssumption DEF Height, TypeOK
<1>6. \A t \in Tx : mined[t] \in Nat /\ mined[t] <= TX_UNCONFIRMED /\ Parents(t) \subseteq Tx
  BY HeightFacts DEF TypeOK, Parents
<1>7. ChainInOrder'
  <2> SUFFICES ASSUME NEW t \in Tx
               PROVE  /\ mined'[t] <= tip' \/ mined'[t] = TX_UNCONFIRMED
                      /\ \A p \in Parents(t) : mined'[p] <= mined'[t]
    BY DEF ChainInOrder, Parents
  <2>1. mined'[t] <= tip' \/ mined'[t] = TX_UNCONFIRMED
    BY <1>1, <1>2, <1>6 DEF ChainInOrder
  <2>2. ASSUME NEW p \in Parents(t)
        PROVE  mined'[p] <= mined'[t]
    <3>0. p \in Tx /\ mined[p] <= mined[t] /\ mined[p] \in Nat /\ mined[t] \in Nat
      BY <1>6 DEF ChainInOrder
    <3>1. CASE t \in ToSet(q)
      <4>1. mined[p] # TX_UNCONFIRMED => mined[p] <= tip
        BY <3>0 DEF ChainInOrder
      <4>2. mined'[t] = tip + 1
        BY <1>2, <3>1
      <4>3. mined'[p] = tip + 1 \/ mined'[p] <= tip
        BY <1>2, <1>4, <3>0, <3>1, <4>1
      <4>4. mined'[p] \in Nat
        BY <1>5, <3>0, HeightFacts
      <4>5. QED
        BY <1>1, <4>2, <4>3, <4>4
    <3>2. CASE t \notin ToSet(q) /\ p \in ToSet(q)
      <4>1. mined'[p] = tip + 1 /\ mined'[t] = mined[t]
        BY <1>2, <3>0, <3>2
      <4>2. mined[p] = TX_UNCONFIRMED
        BY <1>4, <3>2
      <4>3. mined[t] = TX_UNCONFIRMED
        BY <1>6, <3>0, <4>2, WalletAssumption
      <4>4. QED
        BY <1>1, <1>5, <4>1, <4>3, WalletAssumption
    <3>3. CASE t \notin ToSet(q) /\ p \notin ToSet(q)
      BY <1>2, <3>0, <3>3
    <3>4. QED
      BY <3>1, <3>2, <3>3
  <2>3. QED
    BY <2>1, <2>2
<1>8. /\ \A u \in Listed : u \notin ToSet(q) => mined'[u] = mined[u]
      /\ \A u \in Listed \cap ToSet(q) : mined'[u] = tip + 1
  BY <1>2 DEF ListedOnce, TypeOK
<1>9. CASE q # <<>>
  <2>1. BeginUpdate(q, tip + 1, time) /\ time \in 0..MaxTime
    BY <1>2, <1>9, WalletAssumption
  <2> HIDE DEF ListInv
  <2>2. QED
    BY <1>3, <1>5, <1>7, <1>8, <2>1, BeginUpdateKeeps
<1>10. CASE q = <<>>
  <2>1. ToSet(q) = {}
    BY <1>10 DEF ToSet
  <2>2. mined' = mined
    BY <1>2, <2>1 DEF TypeOK
  <2>3. UNCHANGED <<listVars, chainLen, cacheVars, callVars>>
    BY <1>2, <1>10
  <2> USE DEF listVars, cacheVars, callVars
  <2>4. TypeOK'
    BY <1>5, <2>2, <2>3 DEF TypeOK
  <2>5. ListedOnce' /\ SortedByHeight' /\ UtxosBacked' /\ ListedContained'
    BY <2>3 DEF ListedOnce, SortedByHeight, UtxosBacked, ListedContained, Listed,
                ContainsTx, OwnOutputs, AllAddrs
  <2>6. UpdateFollowsChain' /\ DoomedUnconfirmed'
    BY <2>2, <2>3 DEF UpdateFollowsChain, DoomedUnconfirmed, Listed
  <2>7. QED
    BY <1>7, <2>4, <2>5, <2>6
<1>11. QED
  BY <1>9, <1>10

\* The end of an update, with or without a new balance.
LEMMA EndUpdateKeeps ==
  ASSUME ListInv, EndUpdate
  PROVE  ListInv'
<1> USE DEF ListInv
<1>1. /\ update.running /\ update.todo = <<>> /\ update' = NoUpdate
      /\ UNCHANGED <<listVars, chainLen, extending, doomed, envVars>>
  BY DEF EndUpdate
<1>2. \A t \in Listed : txHeight[t] = mined[t]
  BY <1>1 DEF UpdateFollowsChain, ToSet
<1>3. transactions \in Seq(Tx) /\ IsInjective(transactions)
  BY DEF TypeOK, ListedOnce
<1>4. /\ utxos' \subseteq Outpoint /\ spentOutputs' \subseteq Outpoint
      /\ balanceHist' \in Seq(SUBSET Outpoint)
      /\ invalidTx' \subseteq Tx /\ pendingTx' \subseteq Tx /\ usedAddrs' \subseteq Address
      /\ \A o \in utxos' : o[1] \in Listed /\ o[1] \notin invalidTx' \cup pendingTx'
  <2>1. CASE UNCHANGED cacheVars
    BY <2>1 DEF cacheVars, TypeOK, UtxosBacked
  <2>2. CASE UpdateBalance(transactions, txHeight, blockHeight)
    <3>1. Listed = ToSet(transactions)
      BY DEF Listed
    <3>2. QED
      BY <1>3, <2>2, <3>1, UpdateBalanceFacts
  <2>3. QED
    BY <2>1, <2>2 DEF EndUpdate
<1> USE DEF listVars, envVars
<1>5. TypeOK'
  BY <1>1, <1>4, HeightFacts, WalletAssumption DEF TypeOK, NoUpdate
<1>6. ListedOnce' /\ SortedByHeight' /\ UtxosBacked' /\ ListedContained'
  BY <1>1, <1>4 DEF ListedOnce, SortedByHeight, UtxosBacked, ListedContained, Listed,
                    ContainsTx, OwnOutputs, AllAddrs
<1>7. UpdateFollowsChain' /\ DoomedUnconfirmed' /\ ChainInOrder'
  BY <1>1, <1>2 DEF UpdateFollowsChain, DoomedUnconfirmed, ChainInOrder, Parents, Listed,
                    NoUpdate, ToSet
<1>8. QED
  BY <1>5, <1>6, <1>7

\* One turn of the update's loop.  The transaction it is about moves to its new
\* place, a listed one never falls out of the wallet, and the heights of the
\* others stay.
LEMMA UpdateOneKeeps ==
  ASSUME ListInv, UpdateOne
  PROVE  ListInv' /\ Listed' = Listed
<1> USE DEF ListInv
<1> DEFINE t == Head(update.todo)
<1>1. /\ update.todo # <<>> /\ update.todo \in Seq(Tx) /\ t \in Tx
      /\ update.height \in Height /\ update.time \in 0..MaxTime
      /\ UNCHANGED <<blockHeight, chainLen, cacheVars, extending, doomed, envVars>>
  BY DEF UpdateOne, TypeOK
<1>2. /\ update.running /\ doomed = <<>>
  BY <1>1 DEF UpdateFollowsChain, NoUpdate, DoomedUnconfirmed
<1>3. /\ Tail(update.todo) \in Seq(Tx)
      /\ ToSet(update.todo) = ToSet(Tail(update.todo)) \cup {t}
  <2>1. /\ Tail(update.todo) \in Seq(Tx) /\ Len(Tail(update.todo)) = Len(update.todo) - 1
        /\ \A k \in 1..Len(Tail(update.todo)) : Tail(update.todo)[k] = update.todo[k + 1]
        /\ t = update.todo[1]
    BY <1>1, HeadTailProperties
  <2>2. /\ \A x : x \in ToSet(Tail(update.todo)) <=>
                    \E k \in 1..Len(Tail(update.todo)) : x = Tail(update.todo)[k]
        /\ \A x : x \in ToSet(update.todo) <=> \E k \in 1..Len(update.todo) : x = update.todo[k]
    BY <1>1, <2>1, ToSetElements
  <2>3. ASSUME NEW x \in ToSet(update.todo)
        PROVE  x = t \/ x \in ToSet(Tail(update.todo))
    <3>1. PICK k \in 1..Len(update.todo) : x = update.todo[k]
      BY <2>2
    <3>2. CASE k = 1
      BY <2>1, <3>1, <3>2
    <3>3. CASE k # 1
      <4>1. k - 1 \in 1..Len(Tail(update.todo)) /\ (k - 1) + 1 = k
        BY <1>1, <2>1, <3>3
      <4>2. QED
        BY <2>1, <2>2, <3>1, <4>1
    <3>4. QED
      BY <3>2, <3>3
  <2>4. ASSUME NEW x, x = t \/ x \in ToSet(Tail(update.todo))
        PROVE  x \in ToSet(update.todo)
    <3>1. 1 \in 1..Len(update.todo) /\ \A k \in 1..Len(Tail(update.todo)) : k + 1 \in 1..Len(update.todo)
      BY <1>1, <2>1
    <3>2. QED
      BY <2>1, <2>2, <2>4, <3>1
  <2>5. QED
    BY <2>1, <2>3, <2>4
<1>4. t \in Listed => mined[t] = update.height /\ ContainsTx(allTx, t) /\ t \in allTx
  BY <1>3 DEF UpdateFollowsChain, ListedContained, ListedOnce
<1>5. \A u \in Listed : u \in Tx /\ u \in allTx
                        /\ (u # t => u \in ToSet(Tail(update.todo)) \/ txHeight[u] = mined[u])
  BY <1>3 DEF UpdateFollowsChain, ListedOnce, TypeOK
<1>6. \A u \in Listed \cap ToSet(Tail(update.todo)) : mined[u] = update.height
  BY <1>3 DEF UpdateFollowsChain
\* what the three branches have in common
<1>7. ASSUME allTx' \subseteq Tx, Listed' = Listed, Listed \subseteq allTx',
             transactions' \in Seq(Tx), IsInjective(transactions'), Ordered(txHeight', transactions'),
             txTime' \in [Tx -> 0..MaxTime],
             txHeight' \in [Tx -> Height],
             \A u \in Tx : u # t => txHeight'[u] = txHeight[u],
             t \in Listed => txHeight'[t] = update.height,
             \A u \in Listed : ContainsTx(allTx, u)',
             NEW d \in BOOLEAN, update' = [update EXCEPT !.todo = Tail(@), !.dirty = d]
      PROVE  ListInv' /\ Listed' = Listed
  <2>1. /\ update'.todo = Tail(update.todo) /\ update'.height = update.height
        /\ update'.running
        /\ update' \in [running : BOOLEAN, todo : Seq(Tx), height : Height,
                        time : 0..MaxTime, dirty : BOOLEAN]
    BY <1>2, <1>3, <1>7 DEF TypeOK
  <2> USE DEF cacheVars, envVars
  <2>2. TypeOK'
    BY <1>1, <1>7, <2>1 DEF TypeOK
  <2>3. ListedOnce' /\ SortedByHeight' /\ UtxosBacked' /\ ListedContained'
    BY <1>1, <1>7 DEF ListedOnce, SortedByHeight, UtxosBacked, ListedContained
  <2>4. UpdateFollowsChain'
    BY <1>1, <1>4, <1>5, <1>6, <1>7, <2>1 DEF UpdateFollowsChain
  <2>5. DoomedUnconfirmed' /\ ChainInOrder'
    BY <1>1, <1>2 DEF DoomedUnconfirmed, ChainInOrder, Parents, ToSet
  <2>6. QED
    BY <1>7, <2>2, <2>3, <2>4, <2>5
<1> HIDE DEF t
<1>8. CASE t \notin allTx \/ UpToDate(t)
  <2>1. /\ update' = [update EXCEPT !.todo = Tail(@)]
        /\ UNCHANGED <<transactions, allTx, txHeight, txTime, chainLen>>
    BY <1>1, <1>8 DEF UpdateOne, t
  <2>2. update' = [update EXCEPT !.todo = Tail(@), !.dirty = update.dirty]
        /\ update.dirty \in BOOLEAN
    BY <2>1 DEF TypeOK
  <2>3. /\ Listed' = Listed /\ Listed \subseteq allTx'
        /\ \A u \in Listed : ContainsTx(allTx, u)'
    BY <2>1 DEF Listed, ListedOnce, ListedContained, ContainsTx, OwnOutputs, AllAddrs
  <2>4. /\ allTx' \subseteq Tx /\ transactions' \in Seq(Tx) /\ IsInjective(transactions')
        /\ Ordered(txHeight', transactions')
        /\ txTime' \in [Tx -> 0..MaxTime] /\ txHeight' \in [Tx -> Height]
        /\ \A u \in Tx : u # t => txHeight'[u] = txHeight[u]
    BY <2>1 DEF TypeOK, ListedOnce, SortedByHeight
  <2>5. t \in Listed => txHeight'[t] = update.height
    BY <1>4, <1>8, <2>1 DEF UpToDate
  <2> HIDE DEF ListInv
  <2>6. QED
    BY <1>7, <2>2, <2>3, <2>4, <2>5
<1>9. ASSUME ~(t \notin allTx \/ UpToDate(t))
      PROVE  /\ txHeight' = [txHeight EXCEPT ![t] = update.height]
             /\ txTime' = [txTime EXCEPT ![t] = update.time]
             /\ txTime' \in [Tx -> 0..MaxTime] /\ txHeight' \in [Tx -> Height]
             /\ txHeight'[t] = update.height
             /\ \A u \in Tx : u # t => txHeight'[u] = txHeight[u]
  <2>1. /\ txHeight' = [txHeight EXCEPT ![t] = update.height]
        /\ txTime' = [txTime EXCEPT ![t] = update.time]
    BY <1>9 DEF UpdateOne, t
  <2>2. QED
    BY <1>1, <2>1 DEF TypeOK
<1>10. CASE ~(t \notin allTx \/ UpToDate(t)) /\ ContainsTx(allTx, t)
  <2>1. /\ transactions' = IF t \in Listed
                             THEN InsertTx(allTx, txHeight', RemoveTx(transactions, t), t)
                             ELSE transactions
        /\ update' = [update EXCEPT !.todo = Tail(@),
                                    !.dirty = @ \/ Unsettled(t)]
        /\ UNCHANGED <<allTx, chainLen>>
    BY <1>1, <1>10 DEF UpdateOne, t
  <2>2. update' = [update EXCEPT !.todo = Tail(@),
                                 !.dirty = update.dirty \/ Unsettled(t)]
        /\ (update.dirty \/ Unsettled(t)) \in BOOLEAN
    BY <2>1 DEF TypeOK
  <2>3. /\ transactions \in Seq(Tx) /\ IsInjective(transactions)
        /\ Ordered(txHeight, transactions) /\ Listed = ToSet(transactions)
        /\ txHeight \in [Tx -> Nat] /\ txHeight' \in [Tx -> Nat]
        /\ allTx' \subseteq Tx /\ Listed \subseteq allTx'
    BY <1>9, <1>10, <2>1, HeightFacts DEF TypeOK, ListedOnce, SortedByHeight, Listed
  <2>4. \A u \in Listed : ContainsTx(allTx, u)'
    BY <2>1 DEF ListedContained, ContainsTx, OwnOutputs, AllAddrs
  <2>5. /\ transactions' \in Seq(Tx) /\ IsInjective(transactions')
        /\ Ordered(txHeight', transactions') /\ Listed' = Listed
    <3>0. ASSUME NEW s \in Seq(Tx), t \notin ToSet(s), Ordered(txHeight, s)
          PROVE  Ordered(txHeight', s)
      <4>1. \A i \in 1..Len(s) : s[i] \in Tx /\ s[i] # t
        BY <3>0 DEF ToSet
      <4>2. \A i \in 1..Len(s) : txHeight'[s[i]] = txHeight[s[i]]
        BY <1>9, <1>10, <4>1
      <4>3. QED
        BY <3>0, <4>2 DEF Ordered
    <3>1. CASE t \in Listed
      <4> DEFINE s == RemoveTx(transactions, t)
      <4>1. /\ s \in Seq(Tx) /\ ToSet(s) = ToSet(transactions) \ {t}
            /\ IsInjective(s) /\ Ordered(txHeight, s)
        BY <1>1, <2>3, RemoveTxFacts
      <4>2. transactions' = InsertTx(allTx, txHeight', s, t)
        BY <2>1, <3>1
      <4> HIDE DEF s, ListInv
      <4>3. /\ s \in Seq(Tx) /\ t \in Tx /\ t \notin ToSet(s)
            /\ IsInjective(s) /\ Ordered(txHeight', s) /\ txHeight' \in [Tx -> Nat]
        BY <1>1, <2>3, <3>0, <4>1
      <4>4. /\ transactions' \in Seq(Tx) /\ ToSet(transactions') = ToSet(s) \cup {t}
            /\ IsInjective(transactions') /\ Ordered(txHeight', transactions')
        BY ONLY <4>2, <4>3, InsertTxFacts
      <4>5. QED
        BY <2>3, <3>1, <4>1, <4>4 DEF Listed
    <3>2. CASE t \notin Listed
      BY <2>1, <2>3, <3>0, <3>2 DEF Listed
    <3>3. QED
      BY <3>1, <3>2
  <2> HIDE DEF ListInv
  <2>6. QED
    BY <1>7, <1>9, <1>10, <2>2, <2>3, <2>4, <2>5
<1>11. CASE ~(t \notin allTx \/ UpToDate(t)) /\ ~ContainsTx(allTx, t)
  <2>1. /\ allTx' = IF update.height # TX_UNCONFIRMED THEN allTx \ {t} ELSE allTx
        /\ update' = [update EXCEPT !.todo = Tail(@)]
        /\ UNCHANGED <<transactions, chainLen>>
    BY <1>1, <1>11 DEF UpdateOne, t
  <2>2. update' = [update EXCEPT !.todo = Tail(@), !.dirty = update.dirty]
        /\ update.dirty \in BOOLEAN
    BY <2>1 DEF TypeOK
  <2>3. t \notin Listed /\ OwnOutputs(t) = {}
    BY <1>4, <1>11 DEF ContainsTx
  <2>4. /\ Listed' = Listed /\ Listed \subseteq allTx' /\ allTx' \subseteq Tx
        /\ transactions' \in Seq(Tx) /\ IsInjective(transactions')
    BY <2>1, <2>3 DEF Listed, ListedOnce, TypeOK
  <2>5. Ordered(txHeight', transactions')
    <3>1. \A i \in 1..Len(transactions) : transactions[i] \in Tx /\ transactions[i] # t
      BY <2>3 DEF TypeOK, Listed, ToSet
    <3>2. \A i \in 1..Len(transactions) : txHeight'[transactions[i]] = txHeight[transactions[i]]
      BY <1>9, <1>11, <3>1
    <3>3. QED
      BY <2>1, <3>2 DEF SortedByHeight, Ordered
  <2>6. \A u \in Listed : ContainsTx(allTx, u)'
    <3>1. \A u : OwnOutputs(u)' = OwnOutputs(u)
      BY <2>1 DEF OwnOutputs, AllAddrs
    <3>2. ASSUME NEW u \in Listed
          PROVE  ContainsTx(allTx, u)'
      <4>1. CASE OwnOutputs(u) # {}
        BY <3>1, <4>1 DEF ContainsTx
      <4>2. CASE \E o \in Ins[u] : o[1] \in allTx /\ o \in OwnOutputs(o[1])
        <5>1. PICK o \in Ins[u] : o[1] \in allTx /\ o \in OwnOutputs(o[1])
          BY <4>2
        <5>2. o[1] # t
          BY <2>3, <5>1
        <5>3. o[1] \in allTx' /\ o \in OwnOutputs(o[1])'
          BY <2>1, <3>1, <5>1, <5>2
        <5>4. QED
          BY <5>3 DEF ContainsTx
      <4>3. QED
        BY <3>2, <4>1, <4>2 DEF ListedContained, ContainsTx
    <3>3. QED
      BY <3>2
  <2> HIDE DEF ListInv
  <2>7. QED
    BY <1>7, <1>9, <1>11, <2>2, <2>3, <2>4, <2>5, <2>6
<1>12. QED
  BY <1>8, <1>10, <1>11

\* The walk from the end of the list reaches exactly the listed transactions
\* above the fork: this is where the order of the list is needed.
LEMMA SetTxUnconfirmedAfterKeeps ==
  ASSUME ListInv, NEW join \in 0..MaxHeight, SetTxUnconfirmedAfter(join)
  PROVE  ListInv'
<1> USE DEF ListInv
<1> DEFINE tail == TxAbove(join)
<1>1. /\ Ready /\ join < tip /\ tip' = join
      /\ mined' = [t \in Tx |-> IF mined[t] > join THEN TX_UNCONFIRMED ELSE mined[t]]
      /\ blockHeight' = join
      /\ txHeight' = [t \in Tx |-> IF t \in tail THEN TX_UNCONFIRMED ELSE txHeight[t]]
      /\ IF tail # {} THEN UpdateBalance(transactions, txHeight', join) ELSE UNCHANGED cacheVars
      /\ UNCHANGED <<transactions, allTx, txTime, chainLen, callVars>>
  BY DEF SetTxUnconfirmedAfter
<1>2. /\ transactions \in Seq(Tx) /\ IsInjective(transactions)
      /\ \A i \in 1..Len(transactions) : transactions[i] \in Tx
      /\ \A t \in Tx : txHeight[t] \in Nat /\ mined[t] \in Nat
                       /\ txHeight[t] <= TX_UNCONFIRMED /\ mined[t] <= TX_UNCONFIRMED
      /\ \A u \in Listed : txHeight[u] = mined[u]
      /\ join \in Height /\ join \in Nat /\ join < TX_UNCONFIRMED /\ TX_UNCONFIRMED \in Nat
      /\ tip \in Nat /\ doomed = <<>>
  BY <1>1, HeightFacts, WalletAssumption DEF TypeOK, ListedOnce, UpdateFollowsChain, Ready, NoUpdate, ToSet, Height
<1>3. \A x : x \in Listed <=> \E i \in 1..Len(transactions) : x = transactions[i]
  BY <1>2, ToSetElements DEF Listed
<1>4. \A u \in Listed : u \in tail <=> txHeight[u] > join
  <2> SUFFICES ASSUME NEW i \in 1..Len(transactions)
               PROVE  transactions[i] \in tail <=> txHeight[transactions[i]] > join
    BY <1>3
  <2>1. ASSUME txHeight[transactions[i]] > join
        PROVE  transactions[i] \in tail
    <3>1. ASSUME NEW k \in i..Len(transactions)
          PROVE  txHeight[transactions[k]] > join
      <4>1. k \in 1..Len(transactions) /\ (k = i \/ i < k)
        BY <1>2
      <4>2. txHeight[transactions[i]] <= txHeight[transactions[k]]
        BY <1>2, <4>1 DEF SortedByHeight, Ordered
      <4>3. QED
        BY <1>2, <2>1, <4>1, <4>2
    <3>2. QED
      BY <3>1 DEF TxAbove
  <2>2. ASSUME transactions[i] \in tail
        PROVE  txHeight[transactions[i]] > join
    <3>1. PICK j \in 1..Len(transactions) :
            /\ transactions[j] = transactions[i]
            /\ \A k \in j..Len(transactions) : txHeight[transactions[k]] > join
      BY <2>2 DEF TxAbove
    <3>2. j \in j..Len(transactions)
      BY <1>2, <3>1
    <3>3. QED
      BY <3>1, <3>2
  <2>3. QED
    BY <2>1, <2>2
<1> HIDE DEF tail
<1>5. /\ txHeight' \in [Tx -> Height] /\ mined' \in [Tx -> Height]
      /\ tip' \in 0..MaxHeight /\ blockHeight' \in Height
  BY <1>1, <1>2, HeightFacts DEF TypeOK
<1>6. \A u \in Listed : u \in Tx /\ txHeight'[u] = mined'[u]
                        /\ txHeight'[u] = IF txHeight[u] > join THEN TX_UNCONFIRMED ELSE txHeight[u]
  BY <1>1, <1>2, <1>4 DEF ListedOnce, TypeOK
<1>7. Ordered(txHeight', transactions)
  <2> SUFFICES ASSUME NEW i \in 1..Len(transactions), NEW j \in 1..Len(transactions), i < j
               PROVE  txHeight'[transactions[i]] <= txHeight'[transactions[j]]
    BY DEF Ordered
  <2>1. txHeight[transactions[i]] <= txHeight[transactions[j]]
    BY DEF SortedByHeight, Ordered
  <2>2. transactions[i] \in Listed /\ transactions[j] \in Listed
    BY <1>3
  <2>3. QED
    BY <1>2, <1>6, <2>1, <2>2
<1>8. /\ utxos' \subseteq Outpoint /\ spentOutputs' \subseteq Outpoint
      /\ balanceHist' \in Seq(SUBSET Outpoint)
      /\ invalidTx' \subseteq Tx /\ pendingTx' \subseteq Tx /\ usedAddrs' \subseteq Address
      /\ \A o \in utxos' : o[1] \in Listed /\ o[1] \notin invalidTx' \cup pendingTx'
  <2>1. CASE UNCHANGED cacheVars
    BY <2>1 DEF cacheVars, TypeOK, UtxosBacked
  <2>2. CASE UpdateBalance(transactions, txHeight', join)
    BY <1>2, <2>2, UpdateBalanceFacts DEF Listed
  <2>3. QED
    BY <1>1, <2>1, <2>2
<1> USE DEF callVars
<1>9. TypeOK'
  BY <1>1, <1>5, <1>8 DEF TypeOK
<1>10. ListedOnce' /\ SortedByHeight' /\ UtxosBacked' /\ ListedContained'
  BY <1>1, <1>7, <1>8 DEF ListedOnce, SortedByHeight, UtxosBacked, ListedContained, Listed,
                          ContainsTx, OwnOutputs, AllAddrs
<1>11. UpdateFollowsChain'
  <2>1. update = NoUpdate /\ update' = update /\ update'.todo = <<>>
    BY <1>1 DEF UpdateFollowsChain, Ready, NoUpdate
  <2>2. ToSet(update'.todo) = {}
    BY <2>1 DEF ToSet
  <2>3. Listed' = Listed
    BY <1>1 DEF Listed
  <2>4. \A u \in Listed' : txHeight'[u] = mined'[u]
    BY ONLY <1>6, <2>3
  <2>5. QED
    BY ONLY <2>1, <2>2, <2>4 DEF UpdateFollowsChain
<1>12. DoomedUnconfirmed'
  BY <1>1, <1>2 DEF DoomedUnconfirmed, Ready, ToSet
<1>13. ChainInOrder'
  <2> SUFFICES ASSUME NEW t \in Tx
               PROVE  /\ mined'[t] <= tip' \/ mined'[t] = TX_UNCONFIRMED
                      /\ \A p \in Parents(t) : mined'[p] <= mined'[t]
    BY DEF ChainInOrder, Parents
  <2>1. \A u \in Tx : mined'[u] = IF mined[u] > join THEN TX_UNCONFIRMED ELSE mined[u]
    BY <1>1
  <2>2. ASSUME NEW p \in Parents(t)
        PROVE  mined'[p] <= mined'[t]
    <3>1. p \in Tx /\ mined[p] <= mined[t]
      BY DEF ChainInOrder, Parents
    <3>2. QED
      BY <1>2, <2>1, <3>1
  <2>3. QED
    BY <1>1, <1>2, <2>1, <2>2
<1>14. QED
  BY <1>9, <1>10, <1>11, <1>12, <1>13

\* Every step of the wallet, of its callers and of the chain keeps the invariant.
LEMMA NextListInv == ListInv /\ [Next]_vars => ListInv'
<1> SUFFICES ASSUME ListInv, [Next]_vars
             PROVE  ListInv'
  OBVIOUS
<1>1. ASSUME NEW t \in Tx, NEW time \in 0..MaxTime, Register(t, time)
      PROVE  ListInv'
  BY <1>1, RegisterKeeps
<1>2. CASE ExtendChain
  <2>1. extending \in Seq(Chain) /\ extending # <<>>
    BY <1>2 DEF ExtendChain, ListInv, TypeOK
  <2>2. Head(extending) \in Chain /\ Tail(extending) \in Seq(Chain)
    BY <2>1
  <2>3. GapLimit[Head(extending)] \in Nat
    BY <2>2, WalletAssumption
  <2>4. /\ UnusedAddrs(Head(extending), GapLimit[Head(extending)])
        /\ extending' \in Seq(Chain)
        /\ UNCHANGED <<listVars, cacheVars, doomed, update, envVars>>
    BY <1>2, <2>2 DEF ExtendChain
  <2>5. QED
    BY <2>2, <2>3, <2>4, LongerChainsKeep
<1>3. ASSUME NEW c \in Chain, NEW gap \in {1, FilterGap}, RequestAddrs(c, gap)
      PROVE  ListInv'
  <2>1. gap \in Nat
    BY WalletAssumption
  <2>2. /\ UnusedAddrs(c, gap)
        /\ extending' \in Seq(Chain)
        /\ UNCHANGED <<listVars, cacheVars, doomed, update, envVars>>
    BY <1>3 DEF RequestAddrs, callVars, ListInv, TypeOK
  <2>3. QED
    BY <2>1, <2>2, LongerChainsKeep
<1>4. ASSUME NEW t \in Tx, RemoveTransaction(t)
      PROVE  ListInv'
  BY <1>4, RemovalStepsKeep
<1>5. CASE RemoveDependents
  BY <1>5, RemovalStepsKeep
<1>6. CASE RemoveLast
  BY <1>6, RemoveLastKeeps
<1>7. ASSUME NEW time \in 1..MaxTime, BlockConnected(time)
      PROVE  ListInv'
  BY <1>7, BlockConnectedKeeps
<1>8. ASSUME NEW t \in Tx, NEW time \in 0..MaxTime, MarkVerified(t, time)
      PROVE  ListInv'
  <2>1. /\ txHeight[t] = TX_UNCONFIRMED
        /\ BeginUpdate(<<t>>, TX_UNCONFIRMED, time) /\ UNCHANGED envVars
    BY <1>8 DEF MarkVerified
  <2>2. QED
    BY <2>1, MarkKeeps
<1>9. ASSUME NEW t \in Tx, MarkUnverified(t)
      PROVE  ListInv'
  <2>1. /\ txHeight[t] = TX_UNCONFIRMED /\ 0 \in 0..MaxTime
        /\ BeginUpdate(<<t>>, TX_UNCONFIRMED, 0) /\ UNCHANGED envVars
    BY <1>9, WalletAssumption DEF MarkUnverified
  <2>2. QED
    BY <2>1, MarkKeeps
<1>10. CASE UpdateOne
  BY <1>10, UpdateOneKeeps
<1>11. CASE EndUpdate
  BY <1>11, EndUpdateKeeps
<1>12. ASSUME NEW join \in 0..MaxHeight, SetTxUnconfirmedAfter(join)
       PROVE  ListInv'
  BY <1>12, SetTxUnconfirmedAfterKeeps
<1>13. CASE UNCHANGED vars
  <2> USE DEF vars, listVars, cacheVars, callVars, envVars
  <2>1. TypeOK' /\ ListedOnce' /\ SortedByHeight' /\ UtxosBacked'
    BY <1>13 DEF ListInv, TypeOK, ListedOnce, SortedByHeight, UtxosBacked, Listed
  <2>2. ListedContained' /\ UpdateFollowsChain' /\ DoomedUnconfirmed' /\ ChainInOrder'
    BY <1>13 DEF ListInv, ListedContained, UpdateFollowsChain, DoomedUnconfirmed, ChainInOrder,
                 Listed, ContainsTx, OwnOutputs, AllAddrs, Parents
  <2>3. QED
    BY <2>1, <2>2 DEF ListInv
<1>14. QED
  BY <1>1, <1>2, <1>3, <1>4, <1>5, <1>6, <1>7, <1>8, <1>9, <1>10, <1>11, <1>12, <1>13 DEF Next

-----------------------------------------------------------------------------
(***************************************************************************)
(* The cached balance and the list.                                        *)
(***************************************************************************)

\* A wallet without transactions has an empty balance.
LEMMA InitBalanceInv == Init => BalanceInv
<1> SUFFICES ASSUME Init
             PROVE  BalanceInv
  OBVIOUS
<1>1. Listed = {} /\ utxos = {} /\ chainLen = GapLimit /\ mined = [t \in Tx |-> TX_UNCONFIRMED]
  BY DEF Init, Listed, ToSet
<1>2. \A c \in Chain : chainLen[c] >= GapLimit[c]
  BY <1>1, WalletAssumption
<1>3. QED
  BY <1>1, <1>2 DEF BalanceInv, ChainHasNoConflict, SettlesWhenConfirmed, KeepsFirstAddresses,
                    NoDoubleSpend, UtxosBetween, Counted

\* A balance computed from the list as it is restores the relation, when the
\* heights are the chain's: what the chain confirms does not conflict.
LEMMA FreshBalanceInv ==
  ASSUME ListInv, ListInv', KeepsFirstAddresses, ChainHasNoConflict', ~update'.running,
         UNCHANGED chainLen, NEW bh, UpdateBalance(transactions', txHeight', bh)
  PROVE  BalanceInv'
<1>1. /\ transactions' \in Seq(Tx) /\ txHeight' \in [Tx -> Height]
      /\ IsInjective(transactions') /\ Ordered(txHeight', transactions')
      /\ chainLen \in [Chain -> Nat] /\ Listed' = ToSet(transactions') /\ Listed' \subseteq Tx
  BY DEF ListInv, TypeOK, ListedOnce, SortedByHeight, Listed
<1>2. \A t \in Listed' : txHeight'[t] = mined'[t]
  <2>1. update'.todo = <<>>
    BY DEF ListInv, UpdateFollowsChain, NoUpdate
  <2>2. ToSet(update'.todo) = {}
    BY <2>1 DEF ToSet
  <2>3. QED
    BY <2>2 DEF ListInv, UpdateFollowsChain
<1>3. \A t1, t2 \in ToSet(transactions') :
        t1 # t2 /\ txHeight'[t1] # TX_UNCONFIRMED /\ txHeight'[t2] # TX_UNCONFIRMED
          => Ins[t1] \cap Ins[t2] = {}
  BY <1>1, <1>2 DEF ChainHasNoConflict
<1> DEFINE s == transactions'
           h == txHeight'
           C == Listed' \ (invalidTx' \cup pendingTx')
<1>4. /\ s \in Seq(Tx) /\ h \in [Tx -> Height] /\ IsInjective(s) /\ Ordered(h, s)
      /\ UpdateBalance(s, h, bh)
      /\ \A t1, t2 \in ToSet(s) :
           t1 # t2 /\ h[t1] # TX_UNCONFIRMED /\ h[t2] # TX_UNCONFIRMED
             => Ins[t1] \cap Ins[t2] = {}
  BY <1>1, <1>3
<1>5. Counted' = C /\ Listed' = ToSet(s)
  BY <1>1 DEF Counted
<1> HIDE DEF s, h
<1>6. /\ \A t \in ToSet(s) \cap (invalidTx' \cup pendingTx') : h[t] = TX_UNCONFIRMED
      /\ \A t1, t2 \in ToSet(s) :
           t1 # t2 /\ Ins[t1] \cap Ins[t2] # {} => t1 \in invalidTx' \/ t2 \in invalidTx'
      /\ \A o \in utxos' :
           /\ o \in OwnOutputs(o[1])
           /\ \A t \in ToSet(s) \ (invalidTx' \cup pendingTx') : o \notin Ins[t]
      /\ \A t \in ToSet(s) \ (invalidTx' \cup pendingTx') : \A o \in OutpointsOf(t) :
           Early(o) /\ (\A u \in ToSet(s) : o \notin Ins[u]) => o \in utxos'
  BY <1>1, <1>4, FreshBalance
<1>7. SettlesWhenConfirmed'
  BY <1>5, <1>6 DEF SettlesWhenConfirmed, h
<1>8. KeepsFirstAddresses' /\ NoDoubleSpend'
  BY <1>5, <1>6 DEF KeepsFirstAddresses, NoDoubleSpend
<1>9. UtxosBetween'
  <2>1. \A t : OwnOutputs(t)' = OwnOutputs(t)
    BY DEF OwnOutputs, AllAddrs
  <2>2. \A o \in utxos' : o \in OwnOutputs(o[1])' /\ \A t \in C : o \notin Ins[t]
    BY <1>5, <1>6, <2>1
  <2>3. \A t \in C : \A o \in OutpointsOf(t) :
          Early(o) /\ (\A u \in Listed' : o \notin Ins[u]) => o \in utxos'
    BY <1>5, <1>6
  <2>4. QED
    BY <1>5, <2>2, <2>3 DEF UtxosBetween
<1>10. QED
  BY <1>7, <1>8, <1>9 DEF BalanceInv

\* The relation survives without a new balance as long as the list keeps its
\* members, the chains do not shrink, and nothing left out confirms unnoticed.
LEMMA CacheKeepsBalanceInv ==
  ASSUME BalanceInv, ListInv, UNCHANGED cacheVars, Listed' = Listed,
         chainLen' \in [Chain -> Nat], \A c \in Chain : chainLen[c] <= chainLen'[c],
         ChainHasNoConflict',
         \A t \in Listed \ Counted : txHeight'[t] # TX_UNCONFIRMED => update'.dirty
  PROVE  BalanceInv'
<1>1. /\ utxos' = utxos /\ invalidTx' = invalidTx /\ pendingTx' = pendingTx
      /\ Counted' = Counted /\ chainLen \in [Chain -> Nat] /\ Listed \subseteq Tx
  BY DEF cacheVars, Counted, ListInv, TypeOK, ListedOnce
<1>2. SettlesWhenConfirmed' /\ NoDoubleSpend'
  BY <1>1 DEF SettlesWhenConfirmed, NoDoubleSpend, BalanceInv
<1>3. KeepsFirstAddresses'
  <2>1. \A c \in Chain : /\ chainLen[c] \in Nat /\ chainLen'[c] \in Nat /\ GapLimit[c] \in Nat
                         /\ chainLen[c] >= GapLimit[c] /\ chainLen[c] <= chainLen'[c]
    BY <1>1, WalletAssumption DEF BalanceInv, KeepsFirstAddresses
  <2>2. QED
    BY <2>1 DEF KeepsFirstAddresses
<1>4. UtxosBetween'
  <2>1. \A o \in utxos : o \in OwnOutputs(o[1]) /\ o[1] \in Tx
    BY <1>1 DEF BalanceInv, UtxosBetween, ListInv, UtxosBacked
  <2>2. \A o \in utxos : o \in OwnOutputs(o[1])'
    BY <1>1, <2>1, OwnOutputsGrow
  <2>3. QED
    BY <1>1, <2>2 DEF BalanceInv, UtxosBetween
<1>5. QED
  BY <1>2, <1>3, <1>4 DEF BalanceInv

\* A block confirms no two transactions that conflict, nor one that conflicts
\* with the chain below it; a reorganisation only takes back confirmations.
LEMMA ChainStaysConsistent ==
  ASSUME ListInv, ChainHasNoConflict, Next
  PROVE  ChainHasNoConflict'
<1>1. CASE mined' = mined
  BY <1>1 DEF ChainHasNoConflict
<1>2. ASSUME NEW time \in 1..MaxTime, BlockConnected(time)
      PROVE  ChainHasNoConflict'
  <2>1. PICK q \in Blocks :
          mined' = [t \in Tx |-> IF t \in ToSet(q) THEN tip + 1 ELSE mined[t]]
    BY <1>2 DEF BlockConnected
  <2>2. /\ \A i, j \in DOMAIN q : i # j => Ins[q[i]] \cap Ins[q[j]] = {}
        /\ \A i \in DOMAIN q : \A t \in Tx : mined[t] # TX_UNCONFIRMED => Ins[t] \cap Ins[q[i]] = {}
    BY DEF Blocks
  <2>3. \A t \in ToSet(q) : \E i \in DOMAIN q : t = q[i]
    BY DEF ToSet
  <2>4. SUFFICES ASSUME NEW t1 \in Tx, NEW t2 \in Tx, t1 # t2,
                        mined'[t1] # TX_UNCONFIRMED, mined'[t2] # TX_UNCONFIRMED
                 PROVE  Ins[t1] \cap Ins[t2] = {}
    BY DEF ChainHasNoConflict
  <2>5. CASE t1 \in ToSet(q) /\ t2 \in ToSet(q)
    BY <2>2, <2>3, <2>4, <2>5
  <2>6. CASE t1 \in ToSet(q) /\ t2 \notin ToSet(q)
    <3>1. mined[t2] # TX_UNCONFIRMED
      BY <2>1, <2>4, <2>6
    <3>2. Ins[t2] \cap Ins[t1] = {}
      BY <2>2, <2>3, <2>6, <3>1
    <3>3. QED
      BY <3>2
  <2>7. CASE t1 \notin ToSet(q) /\ t2 \in ToSet(q)
    <3>1. mined[t1] # TX_UNCONFIRMED
      BY <2>1, <2>4, <2>7
    <3>2. QED
      BY <2>2, <2>3, <2>7, <3>1
  <2>8. CASE t1 \notin ToSet(q) /\ t2 \notin ToSet(q)
    BY <2>1, <2>4, <2>8 DEF ChainHasNoConflict
  <2>9. QED
    BY <2>5, <2>6, <2>7, <2>8
<1>3. ASSUME NEW join \in 0..MaxHeight, SetTxUnconfirmedAfter(join)
      PROVE  ChainHasNoConflict'
  <2>1. \A t \in Tx : mined'[t] # TX_UNCONFIRMED => mined[t] # TX_UNCONFIRMED
    BY <1>3 DEF SetTxUnconfirmedAfter
  <2>2. QED
    BY <2>1 DEF ChainHasNoConflict
<1>4. QED
  BY <1>1, <1>2, <1>3
     DEF Next, envVars, Register, ExtendChain, RequestAddrs, RemoveTransaction, RemoveDependents,
         RemoveLast, MarkVerified, MarkUnverified, UpdateOne, EndUpdate

\* Whether a transaction that an update turns to was left out by the last pass
\* decides whether the update ends in a new one.
LEMMA UpdateOneKeepsBalance ==
  ASSUME ListInv, BalanceInv, UpdateOne, ListInv', ChainHasNoConflict'
  PROVE  BalanceInv'
<1> DEFINE t == Head(update.todo)
<1>1. /\ UNCHANGED cacheVars /\ UNCHANGED chainLen /\ Listed' = Listed
  BY UpdateOneKeeps DEF UpdateOne
<1>2. t \in Tx /\ txHeight \in [Tx -> Height] /\ Listed \subseteq Tx /\ chainLen \in [Chain -> Nat]
  <2>1. /\ update.todo \in Seq(Tx) /\ txHeight \in [Tx -> Height] /\ Listed \subseteq Tx
        /\ chainLen \in [Chain -> Nat]
    BY DEF ListInv, TypeOK, ListedOnce
  <2>2. update.todo # <<>>
    BY DEF UpdateOne
  <2>3. QED
    BY ONLY <2>1, <2>2
<1>3. \A u \in Listed \ Counted : txHeight[u] # TX_UNCONFIRMED => update.dirty
  BY DEF BalanceInv, SettlesWhenConfirmed
<1>4. \A u \in Listed \ Counted : Unsettled(u)
  BY DEF Counted, Unsettled
<1>5. ASSUME NEW u \in Listed \ Counted, txHeight'[u] # TX_UNCONFIRMED
      PROVE  update'.dirty
  <2>1. CASE t \notin allTx \/ UpToDate(t)
    <3>1. txHeight' = txHeight /\ update' = [update EXCEPT !.todo = Tail(@)]
      BY <2>1 DEF UpdateOne
    <3>2. QED
      BY <1>3, <1>5, <3>1 DEF ListInv, TypeOK
  <2>2. CASE ~(t \notin allTx \/ UpToDate(t)) /\ ContainsTx(allTx, t)
    <3>1. /\ txHeight' = [txHeight EXCEPT ![t] = update.height]
          /\ update' = [update EXCEPT !.todo = Tail(@), !.dirty = @ \/ Unsettled(t)]
      BY <2>2 DEF UpdateOne
    <3>2. update'.dirty <=> (update.dirty \/ Unsettled(t))
      BY <3>1 DEF ListInv, TypeOK
    <3>3. CASE u = t
      BY <1>4, <1>5, <3>2, <3>3
    <3>4. CASE u # t
      <4>1. txHeight'[u] = txHeight[u]
        BY <1>2, <1>5, <3>1, <3>4
      <4>2. QED
        BY <1>3, <1>5, <3>2, <4>1
    <3>5. QED
      BY <3>3, <3>4
  <2>3. CASE ~(t \notin allTx \/ UpToDate(t)) /\ ~ContainsTx(allTx, t)
    <3>1. /\ txHeight' = [txHeight EXCEPT ![t] = update.height]
          /\ update' = [update EXCEPT !.todo = Tail(@)]
      BY <2>3 DEF UpdateOne
    <3>2. update'.dirty = update.dirty
      BY <3>1 DEF ListInv, TypeOK
    <3>3. u # t
      BY <1>5, <2>3 DEF ListInv, ListedContained
    <3>4. txHeight'[u] = txHeight[u]
      BY <1>2, <1>5, <3>1, <3>3
    <3>5. QED
      BY <1>3, <1>5, <3>2, <3>4
  <2>4. QED
    BY <2>1, <2>2, <2>3
<1>6. chainLen' \in [Chain -> Nat] /\ \A c \in Chain : chainLen[c] <= chainLen'[c]
  BY <1>1, <1>2
<1> HIDE DEF t
<1>7. QED
  BY <1>1, <1>5, <1>6, CacheKeepsBalanceInv

\* Every step keeps what the balance has to do with the list: the ones that
\* change the list's members compute the balance, the others change neither.
LEMMA NextBalanceInv ==
  ASSUME ListInv, BalanceInv, [Next]_vars, ListInv'
  PROVE  BalanceInv'
<1>1. /\ chainLen \in [Chain -> Nat] /\ \A c \in Chain : chainLen[c] <= chainLen[c]
      /\ KeepsFirstAddresses
      /\ \A t \in Listed \ Counted : txHeight[t] # TX_UNCONFIRMED => update.dirty
      /\ update.running \/ (update = NoUpdate /\ ~update.dirty)
  <2>1. /\ chainLen \in [Chain -> Nat] /\ KeepsFirstAddresses
        /\ \A t \in Listed \ Counted : txHeight[t] # TX_UNCONFIRMED => update.dirty
    BY DEF ListInv, TypeOK, BalanceInv, SettlesWhenConfirmed
  <2>2. \A c \in Chain : chainLen[c] <= chainLen[c]
    BY <2>1
  <2>3. update.running \/ update = NoUpdate
    BY DEF ListInv, UpdateFollowsChain
  <2>4. ~NoUpdate.dirty
    BY DEF NoUpdate
  <2>5. QED
    BY ONLY <2>1, <2>2, <2>3, <2>4
<1>2. CASE UNCHANGED vars
  <2>1. UNCHANGED <<transactions, txHeight, chainLen, cacheVars, update, mined>>
    BY <1>2 DEF vars, listVars, callVars, envVars
  <2>2. ChainHasNoConflict' /\ Listed' = Listed
    BY <2>1 DEF BalanceInv, ChainHasNoConflict, Listed
  <2>3. QED
    BY <1>1, <2>1, <2>2, CacheKeepsBalanceInv
<1>3. ASSUME Next
      PROVE  ChainHasNoConflict'
  BY <1>3, ChainStaysConsistent DEF BalanceInv
\* the steps that leave the list, the balance and the chains alone
<1>4. ASSUME Next, UNCHANGED <<transactions, txHeight, cacheVars>>,
             chainLen' \in [Chain -> Nat], \A c \in Chain : chainLen[c] <= chainLen'[c],
             update' = update \/ ~update.running
      PROVE  BalanceInv'
  <2>1. Listed' = Listed
    BY <1>4 DEF Listed
  <2>2. \A t \in Listed \ Counted : txHeight'[t] # TX_UNCONFIRMED => update'.dirty
    BY <1>1, <1>4
  <2>3. QED
    BY <1>3, <1>4, <2>1, <2>2, CacheKeepsBalanceInv
<1>5. ASSUME NEW t \in Tx, NEW time \in 0..MaxTime, Register(t, time)
      PROVE  BalanceInv'
  <2>1. /\ Next /\ Ready /\ UNCHANGED <<chainLen, update>> /\ t \notin Listed
        /\ txHeight' = [txHeight EXCEPT ![t] = TX_UNCONFIRMED]
    BY <1>5 DEF Next, Register, ListInv, ListedOnce
  <2>2. CASE ContainsTx(allTx, t)
    <3>1. UpdateBalance(transactions', txHeight', blockHeight) /\ ~update'.running
      BY <1>5, <2>1, <2>2 DEF Register, Ready
    <3>2. QED
      BY <1>1, <1>3, <2>1, <3>1, FreshBalanceInv
  <2>3. CASE ~ContainsTx(allTx, t)
    <3>1. UNCHANGED <<transactions, cacheVars>> /\ Listed' = Listed
      BY <1>5, <2>3 DEF Register, Listed
    <3>2. \A u \in Listed \ Counted : txHeight'[u] # TX_UNCONFIRMED => update'.dirty
      <4>1. \A u \in Listed : u # t /\ txHeight'[u] = txHeight[u]
        BY <2>1 DEF ListInv, ListedOnce, TypeOK
      <4>2. QED
        BY <1>1, <2>1, <4>1
    <3>3. QED
      BY <1>1, <1>3, <2>1, <3>1, <3>2, CacheKeepsBalanceInv
  <2>4. QED
    BY <2>2, <2>3
<1>6. ASSUME NEW c \in Chain, NEW gap \in Nat, UnusedAddrs(c, gap), Next,
             UNCHANGED <<listVars, cacheVars, update>>
      PROVE  BalanceInv'
  <2>1. /\ chainLen' = [chainLen EXCEPT ![c] = ExtendedLen(c, gap)]
        /\ ExtendedLen(c, gap) \in Nat /\ ExtendedLen(c, gap) >= chainLen[c]
    BY <1>1, <1>6, ExtendedLenFacts DEF UnusedAddrs, ListInv, TypeOK
  <2>2. chainLen' \in [Chain -> Nat] /\ \A d \in Chain : chainLen[d] <= chainLen'[d]
    BY <1>1, <2>1
  <2>3. QED
    BY <1>4, <1>6, <2>2 DEF listVars
<1>7. CASE ExtendChain
  <2>1. Head(extending) \in Chain /\ GapLimit[Head(extending)] \in Nat
    BY <1>7, WalletAssumption DEF ExtendChain, ListInv, TypeOK
  <2>2. QED
    BY <1>6, <1>7, <2>1 DEF ExtendChain, Next
<1>8. ASSUME NEW c \in Chain, NEW gap \in {1, FilterGap}, RequestAddrs(c, gap)
      PROVE  BalanceInv'
  <2>1. gap \in Nat /\ Next
    BY <1>8, WalletAssumption DEF Next
  <2>2. UnusedAddrs(c, gap) /\ UNCHANGED <<listVars, cacheVars, update>>
    BY <1>8 DEF RequestAddrs, callVars
  <2>3. QED
    BY <1>6, <2>1, <2>2
<1>9. ASSUME RemoveDependents \/ \E t \in Tx : RemoveTransaction(t)
      PROVE  BalanceInv'
  <2>1. Next /\ UNCHANGED <<transactions, txHeight, chainLen, cacheVars, update>>
    BY <1>9 DEF Next, RemoveDependents, RemoveTransaction, listVars
  <2>2. QED
    BY <1>1, <1>4, <2>1
<1>10. CASE RemoveLast
  <2>1. /\ Next /\ doomed # <<>> /\ UNCHANGED <<chainLen, txHeight, update>>
        /\ UpdateBalance(transactions', txHeight', blockHeight)
    BY <1>10 DEF Next, RemoveLast
  <2>2. ~update'.running
    BY <2>1 DEF ListInv, DoomedUnconfirmed
  <2>3. QED
    BY <1>1, <1>3, <2>1, <2>2, FreshBalanceInv
<1>11. ASSUME NEW time \in 1..MaxTime, BlockConnected(time)
       PROVE  BalanceInv'
  <2>1. Next /\ Ready /\ UNCHANGED <<transactions, txHeight, chainLen, cacheVars>>
    BY <1>11 DEF Next, BlockConnected, BeginUpdate, listVars
  <2>2. QED
    BY <1>1, <1>4, <2>1 DEF Ready
<1>12. ASSUME \/ \E t \in Tx, time \in 0..MaxTime : MarkVerified(t, time)
              \/ \E t \in Tx : MarkUnverified(t)
       PROVE  BalanceInv'
  <2>1. Next /\ Ready /\ UNCHANGED <<transactions, txHeight, chainLen, cacheVars>>
    BY <1>12 DEF Next, MarkVerified, MarkUnverified, BeginUpdate
  <2>2. QED
    BY <1>1, <1>4, <2>1 DEF Ready
<1>13. CASE UpdateOne
  BY <1>3, <1>13, UpdateOneKeepsBalance DEF Next
<1>14. CASE EndUpdate
  <2>1. /\ Next /\ UNCHANGED <<transactions, txHeight, chainLen>> /\ update' = NoUpdate
        /\ IF update.dirty THEN UpdateBalance(transactions, txHeight, blockHeight)
                           ELSE UNCHANGED cacheVars
    BY <1>14 DEF Next, EndUpdate, listVars
  <2>2. CASE update.dirty
    <3>1. UpdateBalance(transactions', txHeight', blockHeight) /\ ~update'.running
      BY <2>1, <2>2 DEF NoUpdate
    <3>2. QED
      BY <1>1, <1>3, <2>1, <3>1, FreshBalanceInv
  <2>3. CASE ~update.dirty
    <3>1. Listed' = Listed /\ \A t \in Listed \ Counted : txHeight'[t] = TX_UNCONFIRMED
      BY <1>1, <2>1, <2>3 DEF Listed
    <3>2. QED
      BY <1>1, <1>3, <2>1, <2>3, <3>1, CacheKeepsBalanceInv
  <2>4. QED
    BY <2>2, <2>3
<1>15. ASSUME NEW join \in 0..MaxHeight, SetTxUnconfirmedAfter(join)
       PROVE  BalanceInv'
  <2>1. /\ Next /\ Ready /\ UNCHANGED <<transactions, chainLen, update>>
        /\ txHeight' = [t \in Tx |-> IF t \in TxAbove(join) THEN TX_UNCONFIRMED ELSE txHeight[t]]
        /\ IF TxAbove(join) # {} THEN UpdateBalance(transactions, txHeight', join)
                                 ELSE UNCHANGED cacheVars
    BY <1>15 DEF Next, SetTxUnconfirmedAfter, callVars
  <2>2. CASE TxAbove(join) # {}
    <3>1. UpdateBalance(transactions', txHeight', join) /\ ~update'.running
      BY <2>1, <2>2 DEF Ready
    <3>2. QED
      BY <1>1, <1>3, <2>1, <3>1, FreshBalanceInv
  <2>3. CASE TxAbove(join) = {}
    <3>1. txHeight' = txHeight
      BY <2>1, <2>3 DEF ListInv, TypeOK
    <3>2. QED
      BY <1>1, <1>4, <2>1, <2>3, <3>1
  <2>4. QED
    BY <2>2, <2>3
<1>16. CASE Next
  BY <1>5, <1>7, <1>8, <1>9, <1>10, <1>11, <1>12, <1>13, <1>14, <1>15, <1>16 DEF Next
<1>17. QED
  BY <1>2, <1>16

-----------------------------------------------------------------------------
(***************************************************************************)
(* The theorems.                                                           *)
(***************************************************************************)

\* The inductive invariant holds in every reachable state of every instance.
THEOREM Invariance == Spec => []IInv
<1>1. Init => IInv
  BY InitListInv, InitBalanceInv DEF IInv
<1>2. IInv /\ [Next]_vars => IInv'
  BY NextListInv, NextBalanceInv DEF IInv
<1>3. QED
  BY <1>1, <1>2, PTL DEF Spec

\* Every variable stays in its type: in particular the searches that the model
\* writes with CHOOSE, for the end of an address chain and for the place of a
\* transaction in the list, always have something to find.
THEOREM TypeCorrect == Spec => []TypeOK
<1>1. IInv => TypeOK
  BY DEF IInv, ListInv
<1>2. QED
  BY <1>1, Invariance, PTL

\* The list is ordered by height after any sequence of registrations, removals,
\* confirmations and reorganisations.
THEOREM ListIsSorted == Spec => []SortedByHeight
<1>1. IInv => SortedByHeight
  BY DEF IInv, ListInv
<1>2. QED
  BY <1>1, Invariance, PTL

\* No transaction is listed twice or outside the wallet.
THEOREM ListHasNoDuplicates == Spec => []ListedOnce
<1>1. IInv => ListedOnce
  BY DEF IInv, ListInv
<1>2. QED
  BY <1>1, Invariance, PTL

\* Between updates the wallet agrees with the best chain on every height.
THEOREM HeightsAgree == Spec => []HeightsFollowChain
<1>1. IInv => HeightsFollowChain
  BY DEF IInv, ListInv, HeightsFollowChain, UpdateFollowsChain, NoUpdate, ToSet
<1>2. QED
  BY <1>1, Invariance, PTL

\* No coin is offered that a listed, counted transaction did not create.
THEOREM CoinsAreBacked == Spec => []UtxosBacked
<1>1. IInv => UtxosBacked
  BY DEF IInv, ListInv
<1>2. QED
  BY <1>1, Invariance, PTL

\* Two listed transactions that spend the same output are never both counted,
\* whatever confirmed, was removed or was taken back since the last pass.
THEOREM DoubleSpendsAreMarked == Spec => []NoDoubleSpend
<1>1. IInv => NoDoubleSpend
  BY DEF IInv, BalanceInv
<1>2. QED
  BY <1>1, Invariance, PTL

\* What a listed and confirmed transaction spends is not offered: the last pass
\* counted the transaction, and swept what it spends.
THEOREM ConfirmedSpendsAreGone == Spec => []ConfirmedSpendsExcluded
<1>1. IInv => ConfirmedSpendsExcluded
  <2> SUFFICES ASSUME IInv, ~update.running, NEW t \in Listed, mined[t] # TX_UNCONFIRMED,
                      NEW o \in Ins[t], o \in utxos
               PROVE  FALSE
    BY DEF ConfirmedSpendsExcluded
  <2>1. update = NoUpdate /\ ToSet(update.todo) = {}
    BY DEF IInv, ListInv, UpdateFollowsChain, NoUpdate, ToSet
  <2>2. txHeight[t] # TX_UNCONFIRMED /\ ~update.dirty
    BY <2>1 DEF IInv, ListInv, UpdateFollowsChain, NoUpdate
  <2>3. t \in Counted
    BY <2>2 DEF IInv, BalanceInv, SettlesWhenConfirmed
  <2>4. QED
    BY <2>3 DEF IInv, BalanceInv, UtxosBetween
<1>2. QED
  BY <1>1, Invariance, PTL

\* With every listed transaction confirmed the balance is the unspent outputs on
\* the first addresses, no more and no less, after any history.
THEOREM SettledBalanceIsExact == Spec => []SettledBalance
<1>1. IInv => SettledBalance
  <2> SUFFICES ASSUME IInv, Ready, \A t \in Listed : mined[t] # TX_UNCONFIRMED
               PROVE  {o \in utxos : Early(o)} =
                        {o \in UNION {OwnOutputs(t) : t \in Listed} : Early(o)}
                          \ UNION {Ins[t] : t \in Listed}
    BY Zenon DEF SettledBalance
  <2>1. update = NoUpdate /\ ToSet(update.todo) = {}
    BY DEF IInv, ListInv, UpdateFollowsChain, NoUpdate, ToSet, Ready
  <2>2. \A t \in Listed : txHeight[t] # TX_UNCONFIRMED /\ ~update.dirty
    BY <2>1 DEF IInv, ListInv, UpdateFollowsChain, NoUpdate
  <2>3. Counted = Listed
    BY <2>2 DEF IInv, BalanceInv, SettlesWhenConfirmed, Counted
  <2>4. \A o \in utxos : /\ o[1] \in Listed /\ o \in OwnOutputs(o[1])
                         /\ \A t \in Listed : o \notin Ins[t]
    BY <2>3 DEF IInv, ListInv, BalanceInv, UtxosBacked, UtxosBetween
  <2>5. ASSUME NEW t \in Listed, NEW o \in OwnOutputs(t), Early(o),
               \A u \in Listed : o \notin Ins[u]
        PROVE  o \in utxos
    <3>1. o \in OutpointsOf(t)
      BY <2>5 DEF OwnOutputs
    <3>2. QED
      BY <2>3, <2>5, <3>1 DEF IInv, BalanceInv, UtxosBetween
  <2>6. QED
    BY <2>4, <2>5
<1>2. QED
  BY <1>1, Invariance, PTL

\* What a spender of the innermost doomed transaction would have to be.
LEMMA SpenderIsDependent ==
  ASSUME ListInv, doomed # <<>>,
         NEW t \in Listed, t # Head(doomed), Head(doomed) \in Parents(t)
  PROVE  t \in Dependents(Head(doomed))
<1> USE DEF ListInv
<1> DEFINE d == Head(doomed)
<1>1. /\ d \in Tx /\ d \in ToSet(doomed) /\ t \in Tx
  BY DEF TypeOK, ListedOnce, ToSet
<1>2. mined[d] = TX_UNCONFIRMED /\ txHeight[d] = TX_UNCONFIRMED /\ ~update.running
  BY <1>1 DEF DoomedUnconfirmed
<1>3. mined[t] = TX_UNCONFIRMED
  <2>1. mined[d] <= mined[t] /\ mined[t] \in Nat /\ mined[t] <= TX_UNCONFIRMED
    BY <1>1, HeightFacts DEF ChainInOrder, TypeOK
  <2>2. QED
    BY <1>2, <2>1, WalletAssumption
<1>4. txHeight[t] = TX_UNCONFIRMED
  BY <1>2, <1>3 DEF UpdateFollowsChain, NoUpdate, ToSet
<1>5. PICK j \in 1..Len(transactions) : transactions[j] = t
  <2>1. transactions \in Seq(Tx)
    BY DEF TypeOK
  <2>2. DOMAIN transactions = 1..Len(transactions)
    BY ONLY <2>1
  <2>3. QED
    BY ONLY <2>2, t \in Listed DEF Listed, ToSet
<1>6. ASSUME NEW k \in j..Len(transactions)
      PROVE  txHeight[transactions[k]] >= txHeight[d]
  <2>1. /\ k \in 1..Len(transactions) /\ (k = j \/ j < k)
        /\ transactions[k] \in Tx /\ txHeight[transactions[k]] \in Nat
    <3>1. transactions \in Seq(Tx) /\ txHeight \in [Tx -> Nat]
      BY HeightFacts DEF TypeOK
    <3>2. k \in 1..Len(transactions) /\ (k = j \/ j < k)
      BY <3>1
    <3>3. QED
      BY <3>1, <3>2
  <2>2. CASE k = j
    BY <1>2, <1>4, <1>5, <2>2, WalletAssumption
  <2>3. CASE j < k
    <3>1. txHeight[transactions[j]] <= txHeight[transactions[k]]
      BY <2>1, <2>3 DEF SortedByHeight, Ordered
    <3>2. QED
      BY <1>2, <1>4, <1>5, <2>1, <3>1, WalletAssumption
  <2>4. QED
    BY <2>1, <2>2, <2>3
<1>7. QED
  BY <1>5, <1>6 DEF Dependents

\* The search for dependents may stop at the first older transaction: when a
\* removal is over, nothing in the list spends from what was removed.
THEOREM RemovalsComplete == Spec => RemovalIsComplete
<1> DEFINE Complete == doomed # <<>> /\ doomed' = <<>> =>
                         \A t \in Listed' : Head(doomed) \notin Parents(t)
<1>1. IInv /\ [Next]_vars => Complete
  <2> SUFFICES ASSUME IInv, [Next]_vars, doomed # <<>>, doomed' = <<>>
               PROVE  \A t \in Listed' : Head(doomed) \notin Parents(t)
    OBVIOUS
  <2>1. doomed \in Seq(Tx) /\ Head(doomed) \in Tx
    BY DEF IInv, ListInv, TypeOK
  <2>2. RemoveLast
    <3>1. ~Ready
      BY DEF Ready
    <3>2. ~RemoveDependents
      <4>1. ASSUME NEW q \in SetToSeqs(Dependents(Head(doomed))), doomed' = q \o doomed
            PROVE  FALSE
        <5>1. IsFiniteSet(Dependents(Head(doomed)))
          <6>1. Dependents(Head(doomed)) \subseteq Tx
            BY DEF Dependents, IInv, ListInv, TypeOK
          <6>2. QED
            BY <6>1, FS_Subset, WalletAssumption
        <5>2. Cardinality(Dependents(Head(doomed))) \in Nat
          BY <5>1, FS_CardinalityType
        <5>3. q \in Seq(Dependents(Head(doomed)))
          BY <5>2 DEF SetToSeqs
        <5>4. q \in Seq(Tx)
          <6>1. Dependents(Head(doomed)) \subseteq Tx
            BY DEF Dependents, IInv, ListInv, TypeOK
          <6>2. QED
            BY <5>3, <6>1
        <5>5. Len(doomed') = Len(q) + Len(doomed)
          BY <2>1, <4>1, <5>4, ConcatProperties
        <5>6. Len(doomed) # 0 /\ Len(doomed) \in Nat /\ Len(q) \in Nat /\ Len(doomed') = 0
          BY <2>1, <5>4, EmptySeq
        <5>7. QED
          BY <5>5, <5>6
      <4>2. QED
        BY <4>1 DEF RemoveDependents
    <3>3. doomed' # doomed
      OBVIOUS
    <3>4. Next
      BY <3>3 DEF vars, callVars
    <3>5. /\ ~ExtendChain /\ ~UpdateOne /\ ~EndUpdate
          /\ \A c \in Chain, gap \in {1, FilterGap} : ~RequestAddrs(c, gap)
      BY <3>3 DEF ExtendChain, UpdateOne, EndUpdate, RequestAddrs, callVars
    <3>6. /\ \A t \in Tx, time \in 0..MaxTime : ~Register(t, time)
          /\ \A t \in Tx : ~RemoveTransaction(t)
          /\ \A time \in 1..MaxTime : ~BlockConnected(time)
          /\ \A t \in Tx, time \in 0..MaxTime : ~MarkVerified(t, time)
          /\ \A t \in Tx : ~MarkUnverified(t)
          /\ \A join \in 0..MaxHeight : ~SetTxUnconfirmedAfter(join)
      BY <3>1 DEF Register, RemoveTransaction, BlockConnected, MarkVerified, MarkUnverified,
                  BeginUpdate, SetTxUnconfirmedAfter
    <3>7. QED
      BY <3>2, <3>4, <3>5, <3>6 DEF Next
  <2>3. /\ Dependents(Head(doomed)) = {}
        /\ transactions' = RemoveTx(transactions, Head(doomed))
    BY <2>2 DEF RemoveLast
  <2>4. Listed' = Listed \ {Head(doomed)}
    <3> DEFINE d == Head(doomed)
    <3>1. /\ txHeight \in [Tx -> Nat] /\ transactions \in Seq(Tx)
          /\ IsInjective(transactions) /\ Ordered(txHeight, transactions)
          /\ d \in Tx /\ transactions' = RemoveTx(transactions, d)
      BY <2>1, <2>3, HeightFacts DEF IInv, ListInv, TypeOK, ListedOnce, SortedByHeight
    <3> HIDE DEF d
    <3>2. ToSet(transactions') = ToSet(transactions) \ {d}
      BY ONLY <3>1, RemoveTxFacts
    <3>3. QED
      BY <3>2 DEF Listed, d
  <2>5. QED
    BY <2>3, <2>4, SpenderIsDependent DEF IInv
<1>2. QED
  BY <1>1, Invariance, PTL DEF RemovalIsComplete, Spec
=============================================================================
