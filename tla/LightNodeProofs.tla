-------------------------- MODULE LightNodeProofs --------------------------
(***************************************************************************)
(* Proofs about LightNode: whatever is announced in whatever order, the    *)
(* blocked transactions of a wallet are listed as on the chain and stand   *)
(* where the network mined them; no hash is held twice but by a token      *)
(* transfer whose log overtook its answer; and whatever threads do to the  *)
(* nonce, only a raise that is under way can make it be used twice.        *)
(***************************************************************************)
EXTENDS LightNode, ListLemmas, FiniteSetTheorems, TLAPS

-----------------------------------------------------------------------------
(* The invariants, list by list.                                           *)

Members(list) == {list[i] : i \in 1..Len(list)}
OnceIn(list) == \A i, j \in 1..Len(list) : list[i] = list[j] => i = j

\* the two stand in chain order, if both are blocked
InOrder(t, u) == t.status = "BLOCKED" /\ u.status = "BLOCKED" => ~ Before(u.place, t.place)
OrderedIn(list, ts) == \A i, j \in 1..Len(list) : i < j => InOrder(ts[list[i]], ts[list[j]])
\* the list without tid is in order
OrderedBut(list, tid, ts) ==
  \A i, j \in 1..Len(list) :
    i < j /\ list[i] # tid /\ list[j] # tid => InOrder(ts[list[i]], ts[list[j]])

\* The tids and the positions of a list are numbers from 1 on.
LEMMA ListTypes ==
  ASSUME TypeOK
  PROVE  /\ transactions \in Seq(Transaction) /\ Tid = 1..Len(transactions) /\ Len(transactions) \in Nat
         /\ wallets \in [Wallet -> Seq(Tid)]
         /\ \A w \in Wallet : /\ wallets[w] \in Seq(Tid) /\ Len(wallets[w]) \in Nat
                              /\ DOMAIN wallets[w] = 1..Len(wallets[w])
<1>1. transactions \in Seq(Transaction) /\ wallets \in [Wallet -> Seq(Tid)]
  BY DEF TypeOK
<1>2. Tid = 1..Len(transactions) /\ Len(transactions) \in Nat
  BY <1>1 DEF Tid
<1>3. \A w \in Wallet : wallets[w] \in Seq(Tid)
  BY <1>1
<1>4. \A w \in Wallet : Len(wallets[w]) \in Nat /\ DOMAIN wallets[w] = 1..Len(wallets[w])
  BY <1>3
<1>5. QED
  BY <1>1, <1>2, <1>3, <1>4

\* Each of the invariants about the lists, one wallet at a time.
LEMMA BlockedInOrderParts ==
  ASSUME TypeOK
  PROVE  BlockedInOrder <=> \A w \in Wallet : OrderedIn(wallets[w], transactions)
<1>1. \A w \in Wallet : DOMAIN wallets[w] = 1..Len(wallets[w])
  BY DEF TypeOK
<1>2. QED
  BY <1>1 DEF BlockedInOrder, OrderedIn, InOrder

\* ListedOnce: once in its wallet, and in no other.
LEMMA ListedOnceParts ==
  ASSUME TypeOK
  PROVE  ListedOnce <=> /\ \A w \in Wallet : OnceIn(wallets[w])
                        /\ \A v, w \in Wallet : v # w => Members(wallets[v]) \cap Members(wallets[w]) = {}
<1>1. \A w \in Wallet : DOMAIN wallets[w] = 1..Len(wallets[w])
  BY DEF TypeOK
<1>2. ASSUME ListedOnce
      PROVE  /\ \A w \in Wallet : OnceIn(wallets[w])
             /\ \A v, w \in Wallet : v # w => Members(wallets[v]) \cap Members(wallets[w]) = {}
  <2>1. ASSUME NEW w \in Wallet PROVE OnceIn(wallets[w])
    BY <1>1, <1>2 DEF ListedOnce, OnceIn
  <2>2. ASSUME NEW v \in Wallet, NEW w \in Wallet, v # w,
               NEW x \in Members(wallets[v]), x \in Members(wallets[w])
        PROVE  FALSE
    <3>1. PICK i \in DOMAIN wallets[v] : x = wallets[v][i]
      BY <1>1 DEF Members
    <3>2. PICK j \in DOMAIN wallets[w] : x = wallets[w][j]
      BY <1>1, <2>2 DEF Members
    <3>3. QED
      BY <1>2, <2>2, <3>1, <3>2 DEF ListedOnce
  <2>3. QED
    BY <2>1, <2>2
<1>3. ASSUME \A w \in Wallet : OnceIn(wallets[w]),
             \A v, w \in Wallet : v # w => Members(wallets[v]) \cap Members(wallets[w]) = {},
             NEW v \in Wallet, NEW w \in Wallet,
             NEW i \in DOMAIN wallets[v], NEW j \in DOMAIN wallets[w],
             wallets[v][i] = wallets[w][j]
      PROVE  v = w /\ i = j
  <2>1. wallets[v][i] \in Members(wallets[v]) /\ wallets[w][j] \in Members(wallets[w])
    BY <1>1 DEF Members
  <2>2. v = w
    BY <1>3, <2>1
  <2>3. QED
    BY <1>1, <1>3, <2>2 DEF OnceIn
<1>4. QED
  BY <1>2, <1>3 DEF ListedOnce

-----------------------------------------------------------------------------
(* Insertion and removal.                                                  *)

\* Places are ordered: what transactionCompare rests on.
LEMMA PlaceOrder ==
  ASSUME NEW p \in Place, NEW q \in Place, NEW r \in Place
  PROVE  /\ Before(p, q) => ~ Before(q, p)
         /\ ~ Before(q, p) /\ ~ Before(r, q) => ~ Before(r, p)
BY DEF Before, Place

\* The position that walletInsertTransactionSorted finds.
LEMMA InsertedAt ==
  ASSUME NEW n \in Nat, NEW ts, NEW list \in Seq(1..n), NEW tid \in 1..n
  PROVE  \E k \in 0..Len(list) :
           /\ k = 0 \/ ~ Less(ts[tid], ts[list[k]])
           /\ \A i \in (k + 1)..Len(list) : Less(ts[tid], ts[list[i]])
           /\ InsertedSorted(list, tid, ts) = InsertAt(list, k + 1, tid)
<1> DEFINE P(k) == /\ k = 0 \/ ~ Less(ts[tid], ts[list[k]])
                   /\ \A i \in (k + 1)..Len(list) : Less(ts[tid], ts[list[i]])
           S == {k \in 0..Len(list) : k = 0 \/ ~ Less(ts[tid], ts[list[k]])}
           last == CHOOSE k \in 0..Len(list) : P(k)
<1>1. Len(list) \in Nat
  OBVIOUS
<1>2. S \in SUBSET (0..Len(list)) /\ S # {}
  BY <1>1
<1>3. PICK m \in S : \A k \in S : k <= m
  BY <1>1, <1>2, GreatestNat
<1>4. m \in 0..Len(list) /\ P(m)
  <2>1. m \in 0..Len(list) /\ (m = 0 \/ ~ Less(ts[tid], ts[list[m]]))
    BY <1>3
  <2>2. ASSUME NEW i \in (m + 1)..Len(list) PROVE Less(ts[tid], ts[list[i]])
    <3>1. i \in 0..Len(list) /\ ~ (i <= m)
      BY <1>1, <2>1
    <3>2. i \notin S
      BY <1>3, <3>1
    <3>3. QED
      BY <3>1, <3>2
  <2>3. QED
    BY <2>1, <2>2
<1> HIDE DEF S
<1>5. last \in 0..Len(list) /\ P(last)
  BY <1>4, Zenon
<1>6. InsertedSorted(list, tid, ts) = InsertAt(list, last + 1, tid)
  BY DEF InsertedSorted
<1>7. QED
  BY <1>5, <1>6, Zenon

\* An insertion adds the transaction, and keeps the order and that it is once.
LEMMA InsertedKeeps ==
  ASSUME NEW ts \in Seq(Transaction), NEW list \in Seq(1..Len(ts)), NEW tid \in 1..Len(ts)
  PROVE  /\ InsertedSorted(list, tid, ts) \in Seq(1..Len(ts))
         /\ Members(InsertedSorted(list, tid, ts)) = Members(list) \cup {tid}
         /\ OnceIn(list) /\ tid \notin Members(list) => OnceIn(InsertedSorted(list, tid, ts))
         /\ OrderedIn(list, ts) => OrderedIn(InsertedSorted(list, tid, ts), ts)
<1> DEFINE r == InsertedSorted(list, tid, ts)
<1>1. Len(ts) \in Nat /\ Len(list) \in Nat
  OBVIOUS
<1>2. PICK k \in 0..Len(list) :
        /\ k = 0 \/ ~ Less(ts[tid], ts[list[k]])
        /\ \A i \in (k + 1)..Len(list) : Less(ts[tid], ts[list[i]])
        /\ r = InsertAt(list, k + 1, tid)
  BY <1>1, InsertedAt, Zenon
<1>3. /\ r \in Seq(1..Len(ts)) /\ Len(r) = Len(list) + 1
      /\ \A i \in 1..(Len(list) + 1) :
           r[i] = IF i <= k THEN list[i] ELSE IF i = k + 1 THEN tid ELSE list[i - 1]
  <2> DEFINE S == 1..Len(ts)
             at == InsertAt(list, k + 1, tid)
  <2>1. list \in Seq(S) /\ tid \in S
    OBVIOUS
  <2> HIDE DEF S
  <2>2. /\ at \in Seq(S) /\ Len(at) = Len(list) + 1
        /\ \A i \in 1..(Len(list) + 1) :
             at[i] = IF i <= k THEN list[i] ELSE IF i = k + 1 THEN tid ELSE list[i - 1]
    BY <2>1, InsertAtElements
  <2>3. r = at
    BY <1>2
  <2> HIDE DEF at, r
  <2>4. QED
    BY <2>2, <2>3 DEF S
<1> HIDE DEF r
<1>4. Members(r) = Members(list) \cup {tid}
  <2>1. ASSUME NEW x \in Members(r) PROVE x \in Members(list) \cup {tid}
    <3>1. PICK i \in 1..(Len(list) + 1) : x = r[i]
      BY <1>3 DEF Members
    <3>2. \/ i <= k /\ x = list[i] /\ i \in 1..Len(list)
          \/ i = k + 1 /\ x = tid
          \/ x = list[i - 1] /\ i - 1 \in 1..Len(list)
      BY <1>1, <1>3, <3>1
    <3>3. QED
      BY <3>2 DEF Members
  <2>2. ASSUME NEW x \in Members(list) PROVE x \in Members(r)
    <3>1. PICK i \in 1..Len(list) : x = list[i]
      BY DEF Members
    <3>2. CASE i <= k
      <4>1. i \in 1..(Len(list) + 1) /\ r[i] = x
        BY <1>1, <1>3, <3>1, <3>2
      <4>2. QED
        BY <1>3, <4>1 DEF Members
    <3>3. CASE i > k
      <4>1. i + 1 \in 1..(Len(list) + 1) /\ r[i + 1] = x
        BY <1>1, <1>3, <3>1, <3>3
      <4>2. QED
        BY <1>3, <4>1 DEF Members
    <3>4. i <= k \/ i > k
      OBVIOUS
    <3>5. QED
      BY ONLY <3>2, <3>3, <3>4
  <2>3. tid \in Members(r)
    <3>1. k + 1 \in 1..(Len(list) + 1) /\ r[k + 1] = tid
      BY <1>1, <1>3
    <3>2. QED
      BY <1>3, <3>1 DEF Members
  <2>4. QED
    BY <2>1, <2>2, <2>3
<1>5. ASSUME OnceIn(list), tid \notin Members(list) PROVE OnceIn(r)
  <2>1. \A i \in 1..Len(list) : list[i] # tid
    BY <1>5 DEF Members
  <2>2. \A i, j \in 1..Len(list) : list[i] = list[j] => i = j
    BY <1>5 DEF OnceIn
  <2>3. ASSUME NEW i \in 1..Len(r), NEW j \in 1..Len(r), r[i] = r[j] PROVE i = j
    <3> DEFINE From(x) == IF x <= k THEN x ELSE x - 1
    <3>1. i \in 1..(Len(list) + 1) /\ j \in 1..(Len(list) + 1)
      BY <1>3
    <3>2. i # k + 1 => From(i) \in 1..Len(list) /\ r[i] = list[From(i)]
      BY <1>1, <1>3, <3>1
    <3>3. j # k + 1 => From(j) \in 1..Len(list) /\ r[j] = list[From(j)]
      BY <1>1, <1>3, <3>1
    <3>4. i = k + 1 => r[i] = tid
      BY <1>1, <1>3, <3>1
    <3>5. j = k + 1 => r[j] = tid
      BY <1>1, <1>3, <3>1
    <3>6. i # k + 1 /\ j # k + 1 /\ From(i) = From(j) => i = j
      BY <3>1
    <3> HIDE DEF From
    <3>7. QED
      BY <2>1, <2>2, <2>3, <3>2, <3>3, <3>4, <3>5, <3>6
  <2>4. QED
    BY <2>3 DEF OnceIn
<1>6. ASSUME OrderedIn(list, ts), NEW i \in 1..Len(r), NEW j \in 1..Len(r), i < j
      PROVE  InOrder(ts[r[i]], ts[r[j]])
  <2> DEFINE T == ts[tid]
  <2>1. \A p \in 1..Len(ts) : ts[p].place \in Place
    <3>1. \A p \in 1..Len(ts) : ts[p] \in Transaction
      OBVIOUS
    <3>2. \A t \in Transaction : t.place \in Place
      BY DEF Transaction
    <3>3. QED
      BY <3>1, <3>2
  <2>2. \A p \in 1..Len(list) : list[p] \in 1..Len(ts)
    OBVIOUS
  <2>3. \A p, q \in 1..Len(list) : p < q => InOrder(ts[list[p]], ts[list[q]])
    BY <1>6 DEF OrderedIn
  <2>4. i \in Nat /\ j \in Nat /\ k \in Nat
    OBVIOUS
  <2>5. CASE i = k + 1
    <3>1. r[i] = tid /\ r[j] = list[j - 1] /\ j - 1 \in (k + 1)..Len(list)
      BY <1>1, <1>3, <1>6, <2>5
    <3>2. Less(ts[tid], ts[list[j - 1]])
      BY <1>2, <3>1
    <3>3. j - 1 \in 1..Len(list)
      BY <1>1, <3>1
    <3>4. list[j - 1] \in 1..Len(ts)
      BY <2>2, <3>3
    <3>5. ts[tid].status = "BLOCKED" /\ ts[list[j - 1]].status = "BLOCKED"
            => Before(ts[tid].place, ts[list[j - 1]].place)
      BY <3>2 DEF Less
    <3>6. QED
      BY <2>1, <3>1, <3>4, <3>5, PlaceOrder DEF InOrder
  <2>6. CASE j = k + 1
    <3>1. r[j] = tid /\ r[i] = list[i] /\ i \in 1..k /\ k \in 1..Len(list) /\ i \in 1..Len(list)
      BY <1>1, <1>3, <1>6, <2>6
    <3>2. ~ Less(ts[tid], ts[list[k]])
      BY <1>2, <3>1
    <3>3. ts[tid].status = "BLOCKED" =>
            /\ ts[list[k]].status = "BLOCKED"
            /\ ~ Before(ts[tid].place, ts[list[k]].place)
      BY <3>2 DEF Less
    <3>4. i = k \/ InOrder(ts[list[i]], ts[list[k]])
      BY <2>3, <3>1
    <3>5. list[k] \in 1..Len(ts) /\ list[i] \in 1..Len(ts)
      BY <2>2, <3>1
    <3>6. QED
      BY <2>1, <3>1, <3>3, <3>4, <3>5, PlaceOrder DEF InOrder
  <2>7. CASE i # k + 1 /\ j # k + 1
    <3> DEFINE i0 == IF i <= k THEN i ELSE i - 1
               j0 == IF j <= k THEN j ELSE j - 1
    <3>0. i \in 1..(Len(list) + 1) /\ j \in 1..(Len(list) + 1)
      BY <1>3
    <3>1. i0 \in 1..Len(list) /\ j0 \in 1..Len(list) /\ i0 < j0
      BY <1>1, <1>6, <2>7, <3>0
    <3>2. r[i] = list[i0] /\ r[j] = list[j0]
      BY <1>3, <2>7
    <3> HIDE DEF i0, j0
    <3>3. QED
      BY <2>3, <3>1, <3>2
  <2>8. QED
    BY ONLY <2>5, <2>6, <2>7
<1>7. OrderedIn(list, ts) => OrderedIn(r, ts)
  BY <1>6 DEF OrderedIn
<1>8. QED
  BY <1>3, <1>4, <1>5, <1>7 DEF r

\* What walletUpdateTransactionSorted leaves after the removal.
LEMMA RemovedKeeps ==
  ASSUME NEW ts, NEW n \in Nat, NEW list \in Seq(1..n), NEW index \in 1..Len(list), OnceIn(list)
  PROVE  /\ RemoveAt(list, index) \in Seq(1..n)
         /\ Members(RemoveAt(list, index)) = Members(list) \ {list[index]}
         /\ OnceIn(RemoveAt(list, index))
         /\ OrderedBut(list, list[index], ts) => OrderedIn(RemoveAt(list, index), ts)
<1> DEFINE r == RemoveAt(list, index)
           At(i) == IF i < index THEN i ELSE i + 1
<1>1. Len(list) \in Nat /\ index \in Nat
  OBVIOUS
<1>2. r \in Seq(1..n) /\ Len(r) = Len(list) - 1 /\ \A i \in 1..(Len(list) - 1) : r[i] = list[At(i)]
  BY RemoveAtElements
<1>3. \A i \in 1..(Len(list) - 1) : At(i) \in 1..Len(list) /\ At(i) # index
  BY <1>1
<1>4. \A i, j \in 1..(Len(list) - 1) : (i < j => At(i) < At(j)) /\ (At(i) = At(j) => i = j)
  BY <1>1
<1>5. \A i \in 1..Len(list) : i # index => \E j \in 1..(Len(list) - 1) : At(j) = i
  <2>1. TAKE i \in 1..Len(list)
  <2>2. HAVE i # index
  <2>3. CASE i < index
    <3>1. i \in 1..(Len(list) - 1) /\ At(i) = i
      BY <1>1, <2>3
    <3>2. QED
      BY <3>1
  <2>4. CASE i > index
    <3>1. i - 1 \in 1..(Len(list) - 1) /\ At(i - 1) = i
      BY <1>1, <2>4
    <3>2. QED
      BY <3>1
  <2>5. QED
    BY <1>1, <2>2, <2>3, <2>4
<1> HIDE DEF r, At
<1>6. \A i, j \in 1..Len(list) : list[i] = list[j] => i = j
  BY DEF OnceIn
<1>7. Members(r) = Members(list) \ {list[index]}
  <2>1. ASSUME NEW x \in Members(r) PROVE x \in Members(list) \ {list[index]}
    <3>1. PICK i \in 1..(Len(list) - 1) : x = r[i]
      BY <1>2 DEF Members
    <3>2. x = list[At(i)] /\ At(i) \in 1..Len(list) /\ At(i) # index
      BY <1>2, <1>3, <3>1
    <3>3. QED
      BY <1>6, <3>2 DEF Members
  <2>2. ASSUME NEW x \in Members(list), x # list[index] PROVE x \in Members(r)
    <3>1. PICK i \in 1..Len(list) : x = list[i]
      BY DEF Members
    <3>2. PICK j \in 1..(Len(list) - 1) : At(j) = i
      BY <1>5, <2>2, <3>1
    <3>3. QED
      BY <1>2, <3>1, <3>2 DEF Members
  <2>3. QED
    BY <2>1, <2>2
<1>8. OnceIn(r)
  <2>1. ASSUME NEW i \in 1..Len(r), NEW j \in 1..Len(r), r[i] = r[j] PROVE i = j
    <3>1. i \in 1..(Len(list) - 1) /\ j \in 1..(Len(list) - 1)
      BY <1>2
    <3>2. list[At(i)] = list[At(j)]
      BY <1>2, <2>1, <3>1
    <3>3. At(i) = At(j)
      BY <1>3, <1>6, <3>1, <3>2
    <3>4. QED
      BY <1>4, <3>1, <3>3
  <2>2. QED
    BY <2>1 DEF OnceIn
<1>9. OrderedBut(list, list[index], ts) => OrderedIn(r, ts)
  <2>1. HAVE OrderedBut(list, list[index], ts)
  <2>2. ASSUME NEW i \in 1..Len(r), NEW j \in 1..Len(r), i < j
        PROVE  InOrder(ts[r[i]], ts[r[j]])
    <3>1. /\ At(i) \in 1..Len(list) /\ At(j) \in 1..Len(list) /\ At(i) < At(j)
          /\ At(i) # index /\ At(j) # index
      BY <1>2, <1>3, <1>4, <2>2
    <3>2. r[i] = list[At(i)] /\ r[j] = list[At(j)]
      BY <1>2
    <3>3. list[At(i)] # list[index] /\ list[At(j)] # list[index]
      BY <1>6, <3>1
    <3>4. QED
      BY <2>1, <3>1, <3>2, <3>3 DEF OrderedBut
  <2>3. QED
    BY <2>2 DEF OrderedIn
<1>10. QED
  BY <1>2, <1>7, <1>8, <1>9 DEF r

\* An update keeps what is listed, and puts the one transaction in its place.
LEMMA UpdatedKeeps ==
  ASSUME NEW ts \in Seq(Transaction), NEW list \in Seq(1..Len(ts)), NEW tid \in Members(list), OnceIn(list)
  PROVE  /\ UpdatedSorted(list, tid, ts) \in Seq(1..Len(ts))
         /\ Members(UpdatedSorted(list, tid, ts)) = Members(list)
         /\ OnceIn(UpdatedSorted(list, tid, ts))
         /\ OrderedBut(list, tid, ts) => OrderedIn(UpdatedSorted(list, tid, ts), ts)
<1> DEFINE index == CHOOSE i \in 1..Len(list) : list[i] = tid
           rest == RemoveAt(list, index)
<1>1. index \in 1..Len(list) /\ list[index] = tid
  BY DEF Members
<1>2. UpdatedSorted(list, tid, ts) = InsertedSorted(rest, tid, ts)
  BY DEF UpdatedSorted
<1> HIDE DEF index
<1>3. Len(ts) \in Nat /\ tid \in 1..Len(ts)
  BY <1>1
<1>4. /\ rest \in Seq(1..Len(ts))
      /\ Members(rest) = Members(list) \ {tid}
      /\ OnceIn(rest)
      /\ OrderedBut(list, tid, ts) => OrderedIn(rest, ts)
  BY <1>1, <1>3, RemovedKeeps
<1> HIDE DEF rest
<1>5. /\ InsertedSorted(rest, tid, ts) \in Seq(1..Len(ts))
      /\ Members(InsertedSorted(rest, tid, ts)) = Members(rest) \cup {tid}
      /\ OnceIn(rest) /\ tid \notin Members(rest) => OnceIn(InsertedSorted(rest, tid, ts))
      /\ OrderedIn(rest, ts) => OrderedIn(InsertedSorted(rest, tid, ts), ts)
  BY <1>3, <1>4, InsertedKeeps
<1>6. QED
  BY <1>2, <1>4, <1>5

-----------------------------------------------------------------------------
(* What the steps that change lists or the chain do, said once.            *)

\* The number of transactions of ours that are mined is a number.
LEMMA TransactionCountType == TransactionCount \in Nat
<1>1. IsFiniteSet(Mined \cap Ours)
  BY HashAssumption, FS_Subset DEF Mined, With
<1>2. QED
  BY <1>1, FS_CardinalityType DEF TransactionCount

\* A match is an entry of the wallet, the one that was looked for.
LEMMA FirstOfFinds ==
  ASSUME TypeOK, NEW w \in Wallet, NEW found \in SUBSET DOMAIN wallets[w], found # {}
  PROVE  \E i \in found : FirstOf(w, found) = wallets[w][i]
<1>1. found \in SUBSET Nat
  BY DEF TypeOK
<1>2. \E i \in found : \A j \in found : i <= j
  BY <1>1, LeastNat
<1>3. QED
  BY <1>2 DEF FirstOf

\* walletGetTransactionByHash returns an entry with that hash.
LEMMA ByHashFinds ==
  ASSUME TypeOK, NEW w \in Wallet, NEW h, ByHash(w, h) # NoOne
  PROVE  ByHash(w, h) \in Members(wallets[w]) /\ transactions[ByHash(w, h)].hash = h
<1> DEFINE found == {i \in DOMAIN wallets[w] : transactions[wallets[w][i]].hash = h}
<1>1. ByHash(w, h) = FirstOf(w, found)
  BY DEF ByHash
<1>2. found # {}
  BY <1>1 DEF FirstOf
<1>3. PICK i \in found : FirstOf(w, found) = wallets[w][i]
  BY <1>2, FirstOfFinds
<1>4. i \in 1..Len(wallets[w])
  BY ListTypes
<1>5. QED
  BY <1>1, <1>3, <1>4 DEF Members

\* walletGetTransactionByNonce returns an entry of ours with that nonce.
LEMMA ByNonceFinds ==
  ASSUME TypeOK, NEW w \in Wallet, NEW n, ByNonce(w, n) # NoOne
  PROVE  /\ ByNonce(w, n) \in Members(wallets[w])
         /\ transactions[ByNonce(w, n)].nonce = n /\ transactions[ByNonce(w, n)].ours
<1> DEFINE found == {i \in DOMAIN wallets[w] :
                       transactions[wallets[w][i]].nonce = n /\ transactions[wallets[w][i]].ours}
<1>1. ByNonce(w, n) = FirstOf(w, found)
  BY DEF ByNonce
<1>2. found # {}
  BY <1>1 DEF FirstOf
<1>3. PICK i \in found : FirstOf(w, found) = wallets[w][i]
  BY <1>2, FirstOfFinds
<1>4. i \in 1..Len(wallets[w])
  BY ListTypes
<1>5. QED
  BY <1>1, <1>3, <1>4 DEF Members

\* When walletGetTransactionByHash finds nothing, nothing has the hash.
LEMMA ByHashMisses ==
  ASSUME TypeOK, NEW w \in Wallet, NEW h, ByHash(w, h) = NoOne, NEW t \in Members(wallets[w])
  PROVE  transactions[t].hash # h
<1> DEFINE found == {i \in DOMAIN wallets[w] : transactions[wallets[w][i]].hash = h}
<1>1. SUFFICES ASSUME found # {} PROVE FALSE
  BY ListTypes DEF Members
<1>2. PICK i \in found : FirstOf(w, found) = wallets[w][i]
  BY <1>1, FirstOfFinds
<1>3. wallets[w][i] \in Tid /\ Tid = 1..Len(transactions)
  BY ListTypes
<1>4. QED
  BY <1>2, <1>3 DEF ByHash, NoOne

\* When walletGetTransactionByNonce finds nothing, nothing of ours has the nonce.
LEMMA ByNonceMisses ==
  ASSUME TypeOK, NEW w \in Wallet, NEW n, ByNonce(w, n) = NoOne, NEW t \in Members(wallets[w]),
         transactions[t].ours
  PROVE  transactions[t].nonce # n
<1> DEFINE found == {i \in DOMAIN wallets[w] :
                       transactions[wallets[w][i]].nonce = n /\ transactions[wallets[w][i]].ours}
<1>1. SUFFICES ASSUME found # {} PROVE FALSE
  BY ListTypes DEF Members
<1>2. PICK i \in found : FirstOf(w, found) = wallets[w][i]
  BY <1>1, FirstOfFinds
<1>3. wallets[w][i] \in Tid /\ Tid = 1..Len(transactions)
  BY ListTypes
<1>4. QED
  BY <1>2, <1>3 DEF ByNonce, NoOne

\* Nothing in the wallet is taken for h.
Unmatched(w, h) ==
  \A t \in Members(wallets[w]) :
    /\ transactions[t].hash # h
    /\ w = "ether" /\ h \in Ours /\ transactions[t].ours => transactions[t].nonce # chain[h].nonce

\* The entry tid stands for the mined transaction h
Stands(t, h) ==
  /\ t.place = chain[h].place
  /\ t.hash = h \/ (t.ours /\ h \in Ours /\ t.nonce = chain[h].nonce)

\* What an announcement does that changes something: it blocks tid.
Blocks(w, h, tid) ==
  /\ transactions' \in Seq(Transaction)
  /\ tid \in Tid'
  /\ Tid \subseteq Tid' /\ Tid' \subseteq Tid \cup {tid}
  /\ \A t \in Tid \ {tid} : transactions'[t] = transactions[t]
  /\ tid \notin Tid => /\ transactions'[tid].made = "announced" /\ transactions'[tid].hash = h
                       /\ Unmatched(w, h)
  /\ tid \in Tid => tid \in Members(wallets[w])
  /\ tid \in Tid => /\ transactions'[tid].made = transactions[tid].made
                    /\ transactions'[tid].ours = transactions[tid].ours
                    /\ transactions'[tid].nonce = transactions[tid].nonce
                    /\ transactions'[tid].hash = transactions[tid].hash
                    /\ transactions'[tid].windowed = transactions[tid].windowed
  /\ Stands(transactions'[tid], h)
  /\ wallets' \in [Wallet -> Seq(Tid')]
  /\ \A v \in Wallet \ {w} : wallets'[v] = wallets[v] /\ tid \notin Members(wallets[v])
  /\ OnceIn(wallets'[w])
  /\ Members(wallets'[w]) = Members(wallets[w]) \cup {tid}
  /\ OrderedIn(wallets[w], transactions) => OrderedIn(wallets'[w], transactions')

\* What an announcement of h does to wallet w when its match is found.
LEMMA AnnouncedBlocks ==
  ASSUME TypeOK, ListedOnce, NEW w \in Wallet, NEW h \in Hash, NEW n \in Nat, NEW found,
         found = NoOne \/ /\ found \in Members(wallets[w])
                          /\ \/ transactions[found].hash = h
                             \/ /\ transactions[found].ours /\ h \in Ours
                                /\ transactions[found].nonce = chain[h].nonce,
         found = NoOne => Unmatched(w, h),
         Announced(w, h, found, n)
  PROVE  UNCHANGED held \/ \E tid : Blocks(w, h, tid)
<1> DEFINE tid == IF found = NoOne THEN Len(transactions) + 1 ELSE found
           new == [made |-> "announced", ours |-> h \in Ours, nonce |-> n, hash |-> h,
                   status |-> "SUBMITTED", place |-> <<0, 0>>, windowed |-> FALSE]
           all == IF found = NoOne THEN Append(transactions, new) ELSE transactions
           list == IF found = NoOne THEN Append(wallets[w], tid) ELSE wallets[w]
<1>1. CASE UNCHANGED held
  BY <1>1
<1>2. CASE ~ UNCHANGED held
  <2>1. /\ transactions' = [all EXCEPT ![tid].status = "BLOCKED", ![tid].place = chain[h].place]
        /\ wallets' = [wallets EXCEPT ![w] = UpdatedSorted(list, tid, transactions')]
    BY <1>2 DEF Announced
  <2>2. /\ transactions \in Seq(Transaction) /\ Tid = 1..Len(transactions)
        /\ wallets \in [Wallet -> Seq(Tid)] /\ chain[h].place \in Place
        /\ Len(transactions) \in Nat
    <3>1. chain[h].place \in Place
      BY DEF TypeOK
    <3>2. QED
      BY <3>1, ListTypes
  <2>3. /\ OnceIn(wallets[w])
        /\ \A v \in Wallet \ {w} : Members(wallets[v]) \cap Members(wallets[w]) = {}
    BY ListedOnceParts
  <2>4. new \in Transaction /\ new.made = "announced" /\ new.hash = h
    BY DEF Transaction, Place
  <2>5. \A v \in Wallet : Members(wallets[v]) \subseteq Tid
    BY <2>2 DEF Members
  <2>6. /\ all \in Seq(Transaction) /\ DOMAIN all = 1..Len(all) /\ Len(all) \in Nat
        /\ tid \in 1..Len(all)
        /\ Tid \subseteq 1..Len(all) /\ 1..Len(all) \subseteq Tid \cup {tid}
        /\ \A t \in Tid : all[t] = transactions[t]
        /\ tid \notin Tid => all[tid].made = "announced" /\ all[tid].hash = h /\ Unmatched(w, h)
        /\ tid \in Tid => tid \in Members(wallets[w])
        /\ all[tid].hash = h \/ (all[tid].ours /\ h \in Ours /\ all[tid].nonce = chain[h].nonce)
        /\ list \in Seq(1..Len(all))
        /\ OnceIn(list)
        /\ Members(list) = Members(wallets[w]) \cup {tid}
        /\ \A v \in Wallet \ {w} : tid \notin Members(wallets[v])
        /\ \A i \in 1..Len(list) : list[i] # tid => i \in 1..Len(wallets[w]) /\ list[i] = wallets[w][i]
    <3>1. CASE found = NoOne
      <4> HIDE DEF new
      <4>1. tid = Len(transactions) + 1 /\ all = Append(transactions, new) /\ list = Append(wallets[w], tid)
        BY <3>1
      <4> HIDE DEF tid, all, list
      <4>2. /\ all \in Seq(Transaction) /\ Len(all) = Len(transactions) + 1
            /\ all[tid] = new /\ \A t \in Tid : all[t] = transactions[t]
        BY <2>2, <2>4, <4>1
      <4>3. wallets[w] \in Seq(1..Len(all)) /\ tid \in 1..Len(all) /\ tid \notin Tid
        BY <2>2, <4>1, <4>2
      <4>4. list \in Seq(1..Len(all)) /\ Len(list) = Len(wallets[w]) + 1 /\ list[Len(wallets[w]) + 1] = tid
        BY <4>1, <4>3
      <4>5. \A i \in 1..Len(wallets[w]) : list[i] = wallets[w][i] /\ list[i] \in Tid
        BY <2>2, <4>1, <4>3
      <4>6. Len(wallets[w]) \in Nat
        BY <2>2
      <4>7. OnceIn(list)
        <5>1. ASSUME NEW i \in 1..Len(list), NEW j \in 1..Len(list), list[i] = list[j] PROVE i = j
          <6>1. (i \in 1..Len(wallets[w]) \/ i = Len(list)) /\ (j \in 1..Len(wallets[w]) \/ j = Len(list))
            BY <4>4, <4>6
          <6>2. list[Len(list)] \notin Tid
            BY <4>3, <4>4
          <6>3. QED
            BY <2>3, <4>5, <5>1, <6>1, <6>2 DEF OnceIn
        <5>2. QED
          BY <5>1 DEF OnceIn
      <4>8. Members(list) = Members(wallets[w]) \cup {tid}
        <5>1. \A i \in 1..Len(list) : i \in 1..Len(wallets[w]) \/ i = Len(wallets[w]) + 1
          BY <4>4, <4>6
        <5>2. \A i \in 1..Len(wallets[w]) : i \in 1..Len(list)
          BY <4>4, <4>6
        <5>3. Len(wallets[w]) + 1 \in 1..Len(list)
          BY <4>4, <4>6
        <5>4. QED
          BY <4>4, <4>5, <5>1, <5>2, <5>3 DEF Members
      <4>9. \A v \in Wallet \ {w} : tid \notin Members(wallets[v])
        BY <2>5, <4>3
      <4>10. \A i \in 1..Len(list) : list[i] # tid => i \in 1..Len(wallets[w]) /\ list[i] = wallets[w][i]
        BY <4>4, <4>5, <4>6
      <4>11. DOMAIN all = 1..Len(all) /\ Len(all) \in Nat
        BY <4>2
      <4>12. Tid \subseteq 1..Len(all) /\ 1..Len(all) \subseteq Tid \cup {tid}
        BY <2>2, <4>1, <4>2
      <4>13. QED
        BY <2>4, <3>1, <4>2, <4>3, <4>4, <4>7, <4>8, <4>9, <4>10, <4>11, <4>12
    <3>2. CASE found # NoOne
      <4>1. tid = found /\ all = transactions /\ list = wallets[w]
        BY <3>2
      <4>2. tid \in Members(wallets[w]) /\ tid \in Tid
        BY <2>5, <3>2, <4>1
      <4> HIDE DEF tid, all, list, new
      <4>3. \A v \in Wallet \ {w} : tid \notin Members(wallets[v])
        BY <2>3, <4>2
      <4>4. Members(list) = Members(wallets[w]) \cup {tid}
        BY <4>1, <4>2
      <4>5. list \in Seq(1..Len(all))
        BY <2>2, <4>1
      <4>6. QED
        BY <2>2, <2>3, <3>2, <4>1, <4>2, <4>3, <4>4, <4>5
    <3>3. QED
      BY ONLY <3>1, <3>2
  <2> HIDE DEF tid, all, list, new
  <2>7. /\ transactions' \in Seq(Transaction)
        /\ Len(transactions') = Len(all) /\ Tid' = 1..Len(all)
        /\ \A t \in 1..Len(all) : t # tid => transactions'[t] = all[t]
        /\ transactions'[tid] = [all[tid] EXCEPT !.status = "BLOCKED", !.place = chain[h].place]
    <3> DEFINE T == [all[tid] EXCEPT !.status = "BLOCKED", !.place = chain[h].place]
    <3>1. all[tid] \in Transaction
      BY <2>6
    <3>2. T \in Transaction
      BY <2>2, <3>1 DEF Transaction
    <3>3. transactions' = [all EXCEPT ![tid] = T]
      BY <2>1
    <3> HIDE DEF T
    <3>4. transactions' \in Seq(Transaction) /\ Len(transactions') = Len(all)
      BY <2>6, <3>2, <3>3
    <3>5. Tid' = 1..Len(all)
      BY <2>6, <3>3 DEF Tid
    <3>6. \A t \in 1..Len(all) : t # tid => transactions'[t] = all[t]
      BY <2>6, <3>3
    <3>7. transactions'[tid] = T
      BY <2>6, <3>3
    <3>8. QED
      BY <3>4, <3>5, <3>6, <3>7 DEF T
  <2>8. /\ all[tid] \in Transaction
        /\ transactions'[tid].status = "BLOCKED" /\ transactions'[tid].place = chain[h].place
        /\ transactions'[tid].made = all[tid].made /\ transactions'[tid].ours = all[tid].ours
        /\ transactions'[tid].nonce = all[tid].nonce /\ transactions'[tid].hash = all[tid].hash
        /\ transactions'[tid].windowed = all[tid].windowed
    <3>1. all[tid] \in Transaction
      BY <2>6
    <3>2. QED
      BY <2>7, <3>1 DEF Transaction
  <2>9. Members(list) # {} /\ tid \in Members(list) /\ list \in Seq(1..Len(transactions'))
    BY <2>6, <2>7
  <2>10. /\ UpdatedSorted(list, tid, transactions') \in Seq(1..Len(transactions'))
         /\ Members(UpdatedSorted(list, tid, transactions')) = Members(list)
         /\ OnceIn(UpdatedSorted(list, tid, transactions'))
         /\ OrderedBut(list, tid, transactions') => OrderedIn(UpdatedSorted(list, tid, transactions'), transactions')
    BY <2>6, <2>7, <2>9, UpdatedKeeps
  <2>11. wallets'[w] = UpdatedSorted(list, tid, transactions')
    BY <2>1, <2>2
  <2>12. OrderedIn(wallets[w], transactions) => OrderedBut(list, tid, transactions')
    <3>1. HAVE OrderedIn(wallets[w], transactions)
    <3>2. ASSUME NEW i \in 1..Len(list), NEW j \in 1..Len(list), i < j, list[i] # tid, list[j] # tid
          PROVE  InOrder(transactions'[list[i]], transactions'[list[j]])
      <4>1. /\ i \in 1..Len(wallets[w]) /\ list[i] = wallets[w][i]
            /\ j \in 1..Len(wallets[w]) /\ list[j] = wallets[w][j]
        BY <2>6, <3>2
      <4>2. InOrder(transactions[list[i]], transactions[list[j]])
        BY <3>1, <3>2, <4>1 DEF OrderedIn
      <4>3. list[i] \in Tid /\ list[j] \in Tid
        BY <2>5, <4>1 DEF Members
      <4>4. transactions'[list[i]] = transactions[list[i]] /\ transactions'[list[j]] = transactions[list[j]]
        BY <2>6, <2>7, <3>2, <4>3
      <4>5. QED
        BY <4>2, <4>4
    <3>3. QED
      BY <3>2 DEF OrderedBut
  <2>13. wallets' \in [Wallet -> Seq(Tid')]
    <3>1. ASSUME NEW v \in Wallet PROVE wallets'[v] \in Seq(Tid')
      <4>1. CASE v = w
        BY <2>7, <2>10, <2>11, <4>1
      <4>2. CASE v # w
        <5>1. wallets'[v] = wallets[v] /\ wallets[v] \in Seq(Tid) /\ Tid \subseteq Tid'
          BY <2>1, <2>2, <2>6, <2>7, <4>2
        <5>2. QED
          BY <5>1
      <4>3. QED
        BY ONLY <4>1, <4>2
    <3>2. DOMAIN wallets' = Wallet /\ wallets' = [v \in DOMAIN wallets' |-> wallets'[v]]
      <4> DEFINE u == UpdatedSorted(list, tid, transactions')
      <4>1. wallets' = [wallets EXCEPT ![w] = u]
        BY <2>1
      <4> HIDE DEF u
      <4>2. QED
        BY <2>2, <4>1
    <3>3. QED
      BY <3>1, <3>2
  <2>14. \A v \in Wallet \ {w} : wallets'[v] = wallets[v] /\ tid \notin Members(wallets[v])
    BY <2>1, <2>2, <2>6
  <2>15. \A t \in Tid \ {tid} : transactions'[t] = transactions[t]
    BY <2>6, <2>7
  <2>16. Stands(transactions'[tid], h)
    BY <2>6, <2>8 DEF Stands
  <2>17. tid \notin Tid => /\ transactions'[tid].made = "announced" /\ transactions'[tid].hash = h
                           /\ Unmatched(w, h)
    BY <2>6, <2>8
  <2>18. tid \in Tid => all[tid] = transactions[tid]
    BY <2>6
  <2>19. Blocks(w, h, tid)
    BY <2>6, <2>7, <2>8, <2>10, <2>11, <2>12, <2>13, <2>14, <2>15, <2>16, <2>17, <2>18 DEF Blocks
  <2>20. QED
    BY <2>19
<1>3. QED
  BY ONLY <1>1, <1>2

\* An announcement changes nothing of what is held, or it blocks one transaction.
LEMMA AnnounceBlocks ==
  ASSUME TypeOK, ListedOnce, NEW h \in Hash, AnnounceTransaction(h) \/ AnnounceLog(h)
  PROVE  /\ UNCHANGED held \/ \E w \in Wallet : \E tid : Blocks(w, h, tid)
         /\ UNCHANGED <<node, nonce, raising, signer, nonces, network>>
         /\ toAnnounce' \subseteq toAnnounce
         /\ \E w \in Wallet : <<w, h>> \in toAnnounce
<1>1. chain[h].nonce \in Nat /\ "ether" \in Wallet /\ "token" \in Wallet
  BY DEF TypeOK, Wallet
<1>2. CASE AnnounceTransaction(h)
  <2> DEFINE found == Match(h)
  <2>1. found = NoOne \/ /\ found \in Members(wallets["ether"])
                         /\ \/ transactions[found].hash = h
                            \/ /\ transactions[found].ours /\ h \in Ours
                               /\ transactions[found].nonce = chain[h].nonce
    BY <1>1, ByHashFinds, ByNonceFinds DEF Match
  <2>2. found = NoOne => Unmatched("ether", h)
    BY <1>1, ByHashMisses, ByNonceMisses DEF Match, Unmatched
  <2>3. Announced("ether", h, found, chain[h].nonce)
    BY <1>2 DEF AnnounceTransaction
  <2> HIDE DEF found
  <2>4. UNCHANGED held \/ \E tid : Blocks("ether", h, tid)
    BY <1>1, <2>1, <2>3, <2>2, AnnouncedBlocks
  <2>5. QED
    BY <1>1, <2>3, <2>4 DEF Announced
<1>3. CASE AnnounceLog(h)
  <2> DEFINE found == ByHash("token", h)
  <2>1. found = NoOne \/ (found \in Members(wallets["token"]) /\ transactions[found].hash = h)
    BY <1>1, ByHashFinds
  <2>2. found = NoOne => Unmatched("token", h)
    BY <1>1, ByHashMisses DEF Unmatched
  <2>3. Announced("token", h, found, 0)
    BY <1>3 DEF AnnounceLog
  <2> HIDE DEF found
  <2>4. UNCHANGED held \/ \E tid : Blocks("token", h, tid)
    BY <1>1, <2>1, <2>3, <2>2, AnnouncedBlocks
  <2>5. QED
    BY <1>1, <2>3, <2>4 DEF Announced
<1>4. QED
  BY <1>2, <1>3

\* Mining moves nothing that is mined, and gives nonces that are assigned.
LEMMA MineKeeps ==
  ASSUME TypeOK, AnnouncedIsMined, NEW hs \in Block, Mine(hs)
  PROVE  /\ chain' \in [Hash -> [status : {"never", "unknown", "pending", "mined"}, nonce : Nat, place : Place]]
         /\ height' \in Nat
         /\ \A h \in Mined : h \in Mined' /\ chain'[h] = chain[h]
         /\ \A h \in Mined' : chain'[h].nonce < NOT_ASSIGNED
         /\ \A h \in With("pending") : /\ h \in (With("pending") \cup Mined)'
                                       /\ h \in Ours => chain'[h].nonce = chain[h].nonce
<1> DEFINE count(i) == TransactionCount + Cardinality({j \in 1..(i - 1) : hs[j] \in Ours})
           index(h) == CHOOSE i \in DOMAIN hs : hs[i] = h
           entry(h) == [status |-> "mined", nonce |-> IF h \in Ours THEN count(index(h)) ELSE 0,
                        place |-> <<height', index(h) - 1>>]
<1>1. /\ height' = height + 1
      /\ \A i \in DOMAIN hs : Mineable(hs[i], count(i)) /\ count(i) < NOT_ASSIGNED
      /\ chain' = [h \in Hash |-> IF h \notin ToSet(hs) THEN chain[h] ELSE entry(h)]
  BY DEF Mine
<1>2. hs \in Seq(Hash) /\ DOMAIN hs = 1..Len(hs)
  <2>1. CASE \E h \in Hash : hs = <<h>>
    BY <2>1
  <2>2. CASE \E p \in Hash \X Hash : hs = <<p[1], p[2]>>
    <3>1. PICK p \in Hash \X Hash : hs = <<p[1], p[2]>>
      BY <2>2
    <3>2. p[1] \in Hash /\ p[2] \in Hash
      OBVIOUS
    <3>3. QED
      BY <3>1, <3>2
  <2>3. QED
    BY <2>1, <2>2 DEF Block
<1>3. \A i \in Nat : count(i) \in Nat
  <2>1. TAKE i \in Nat
  <2>2. IsFiniteSet({j \in 1..(i - 1) : hs[j] \in Ours})
    <3>1. IsFiniteSet(1..(i - 1))
      BY FS_Interval
    <3>2. QED
      BY <3>1, FS_Subset
  <2>3. Cardinality({j \in 1..(i - 1) : hs[j] \in Ours}) \in Nat
    BY <2>2, FS_CardinalityType
  <2>4. QED
    BY <2>3, TransactionCountType
<1>4. \A h \in ToSet(hs) : index(h) \in DOMAIN hs /\ hs[index(h)] = h
  BY DEF ToSet
<1> HIDE DEF count, index
<1>5. height \in Nat /\ height' \in Nat /\ NOT_ASSIGNED \in Nat \ {0}
  BY <1>1, BoundAssumption DEF TypeOK
<1>6. \A h \in ToSet(hs) : /\ entry(h) \in [status : {"never", "unknown", "pending", "mined"}, nonce : Nat, place : Place]
                           /\ entry(h).nonce < NOT_ASSIGNED
  <2>1. TAKE h \in ToSet(hs)
  <2>2. index(h) \in Nat /\ index(h) - 1 \in Nat
    BY <1>2, <1>4
  <2>3. count(index(h)) \in Nat /\ count(index(h)) < NOT_ASSIGNED
    BY <1>1, <1>3, <1>4, <2>2
  <2>4. QED
    BY <1>5, <2>2, <2>3 DEF Place
<1> HIDE DEF entry
<1>7. \A h \in ToSet(hs) : h \notin Mined
  <2>1. TAKE h \in ToSet(hs)
  <2>2. Mineable(h, count(index(h)))
    BY <1>1, <1>4
  <2>3. QED
    BY <2>2 DEF Mineable, Fresh, Mined, With
<1>8. \A h \in Hash : chain'[h] = IF h \notin ToSet(hs) THEN chain[h] ELSE entry(h)
  BY <1>1
<1>9. chain' \in [Hash -> [status : {"never", "unknown", "pending", "mined"}, nonce : Nat, place : Place]]
  BY <1>1, <1>6 DEF TypeOK
<1>10. \A h \in Mined : h \in Mined' /\ chain'[h] = chain[h]
  BY <1>7, <1>8 DEF Mined, With
<1>11. \A h \in Mined' : chain'[h].nonce < NOT_ASSIGNED
  BY <1>6, <1>8 DEF Mined, With, AnnouncedIsMined
<1>12. ASSUME NEW h \in With("pending")
       PROVE  /\ h \in (With("pending") \cup Mined)'
              /\ h \in Ours => chain'[h].nonce = chain[h].nonce
  <2>1. CASE h \notin ToSet(hs)
    BY <1>8, <2>1 DEF With, Mined
  <2>2. CASE h \in ToSet(hs)
    <3>1. Mineable(h, count(index(h)))
      BY <1>1, <1>4, <2>2
    <3>2. chain[h].nonce = count(index(h))
      BY <3>1 DEF Mineable, Fresh, With
    <3>3. chain'[h].status = "mined" /\ (h \in Ours => chain'[h].nonce = count(index(h)))
      <4>1. h \in Hash /\ chain'[h] = entry(h)
        BY <1>8, <2>2 DEF With
      <4>2. QED
        BY <4>1 DEF entry
    <3>4. QED
      BY <3>2, <3>3 DEF With, Mined
  <2>3. QED
    BY <2>1, <2>2
<1>13. QED
  BY <1>5, <1>9, <1>10, <1>11, <1>12

-----------------------------------------------------------------------------
(* Invariance, one part at a time.                                         *)

\* The program starts with no transaction, and with nothing to apply.
LEMMA InitIInv == ASSUME Init PROVE IInv
<1>1. Tid = {} /\ transactions = <<>>
  BY DEF Init, Tid
<1>2. TypeOK
  <2>1. wallets \in [Wallet -> Seq(Tid)]
    BY DEF Init
  <2>2. calls \in 0..MaxCalls
    BY BoundAssumption DEF Init
  <2>3. chain \in [Hash -> [status : {"never", "unknown", "pending", "mined"}, nonce : Nat, place : Place]]
    BY DEF Init, Place
  <2>4. signer \in [step : {"idle", "assign", "sign"}, tid : Tid \cup {NoOne}, read : Nat]
    BY DEF Init, NoOne
  <2>5. transactions \in Seq(Transaction)
    BY DEF Init
  <2>6. QED
    BY <2>1, <2>2, <2>3, <2>4, <2>5 DEF Init, TypeOK
<1>3. Mined = {}
  BY DEF Init, Mined, With
<1>4. OneThread /\ SignerOK /\ NonceBelow /\ NonceReuse /\ BlockedIsMined
  BY <1>1 DEF Init, OneThread, SignerOK, NonceBelow, NonceReuse, BlockedIsMined
<1>5. ListedOnce /\ BlockedInOrder
  BY DEF Init, ListedOnce, BlockedInOrder
<1>6. AnnouncedIsMined
  BY <1>3 DEF Init, AnnouncedIsMined
<1>7. HashesOK /\ AnswersOK /\ HeldOnce
  BY <1>1 DEF Init, HashesOK, AnswersOK, HeldOnce
<1>8. QED
  BY <1>2, <1>4, <1>5, <1>6, <1>7 DEF IInv

\* A step changes transactions by appending one, by changing the fields of one,
\* or by an announcement that blocks one.
LEMMA TypeInvariance ==
  ASSUME IInv, [Next]_vars
  PROVE  TypeOK'
<1> USE DEF IInv
<1>1. TypeOK
  OBVIOUS
<1> DEFINE CoreOK == /\ state \in {"CREATED", "CONNECTING", "CONNECTED", "DISCONNECTING", "DISCONNECTED"}
                     /\ thread \in {"none", "starting", "polling"}
                     /\ calls \in 0..MaxCalls
           NonceOK == nonce \in Nat /\ raising \subseteq Nat
           ReplyOK == nonces \subseteq Nat /\ toAnnounce \subseteq Wallet \X Hash
           HeldOK == /\ transactions \in Seq(Transaction)
                     /\ wallets \in [Wallet -> Seq(Tid)]
                     /\ signer \in [step : {"idle", "assign", "sign"}, tid : Tid \cup {NoOne}, read : Nat]
                     /\ answers \subseteq [tid : Tid, hash : Ours]
           ChainOK == /\ chain \in [Hash -> [status : {"never", "unknown", "pending", "mined"}, nonce : Nat, place : Place]]
                      /\ height \in Nat
<1>2. TypeOK <=> CoreOK /\ NonceOK /\ ReplyOK /\ HeldOK /\ ChainOK
  BY DEF TypeOK
<1>3. (TypeOK <=> CoreOK /\ NonceOK /\ ReplyOK /\ HeldOK /\ ChainOK)'
  BY DEF TypeOK
<1>4. CoreOK'
  <2>1. MaxCalls \in Nat
    BY BoundAssumption
  <2>2. ASSUME Connect \/ Disconnect \/ ThreadStart \/ ThreadEnd PROVE CoreOK'
    BY <1>2, <2>1, <2>2 DEF Connect, Disconnect, Stopped, ThreadStart, ThreadEnd
  <2>3. ASSUME NEW w \in Wallet, CreateTransaction(w) PROVE CoreOK'
    BY <1>2, <2>1, <2>3 DEF CreateTransaction
  <2>4. ASSUME UNCHANGED node PROVE CoreOK'
    BY <1>2, <2>4 DEF node
  <2>5. ASSUME NEW h \in Hash, AnnounceTransaction(h) \/ AnnounceLog(h) PROVE UNCHANGED node
    BY <2>5, AnnounceBlocks
  <2>6. Poll \/ SignAssign \/ Submit \/ UNCHANGED vars => UNCHANGED node
    BY DEF Poll, SignAssign, Submit, vars
  <2>7. \A hs \in Block : Mine(hs) => UNCHANGED node
    BY DEF Mine
  <2>8. /\ \A n \in nonces : TestNonce(n) => UNCHANGED node
        /\ \A n \in raising : WriteNonce(n) => UNCHANGED node
        /\ \A a \in answers : AnnounceSubmitTransaction(a) => UNCHANGED node
    BY DEF TestNonce, WriteNonce, AnnounceSubmitTransaction
  <2>9. QED
    BY <2>2, <2>3, <2>4, <2>5, <2>6, <2>7, <2>8 DEF Next
<1>5. NonceOK'
  <2>1. ASSUME SignAssign PROVE NonceOK'
    <3>1. signer.read \in Nat
      BY <1>2
    <3>2. QED
      BY <1>2, <2>1, <3>1 DEF SignAssign, Incremented
  <2>2. ASSUME NEW n \in nonces, TestNonce(n) PROVE NonceOK'
    BY <1>2, <2>2 DEF TestNonce
  <2>3. ASSUME NEW n \in raising, WriteNonce(n) PROVE NonceOK'
    BY <1>2, <2>3 DEF WriteNonce
  <2>4. ASSUME UNCHANGED <<nonce, raising>> PROVE NonceOK'
    BY <1>2, <2>4
  <2>5. ASSUME NEW h \in Hash, AnnounceTransaction(h) \/ AnnounceLog(h) PROVE UNCHANGED <<nonce, raising>>
    BY <2>5, AnnounceBlocks
  <2>6. Connect \/ Disconnect \/ ThreadStart \/ Poll \/ ThreadEnd \/ Submit \/ UNCHANGED vars
          => UNCHANGED <<nonce, raising>>
    BY DEF Connect, Disconnect, ThreadStart, Poll, ThreadEnd, Submit, vars
  <2>7. /\ \A w \in Wallet : CreateTransaction(w) => UNCHANGED <<nonce, raising>>
        /\ \A hs \in Block : Mine(hs) => UNCHANGED <<nonce, raising>>
        /\ \A a \in answers : AnnounceSubmitTransaction(a) => UNCHANGED <<nonce, raising>>
    BY DEF CreateTransaction, Mine, AnnounceSubmitTransaction
  <2>8. QED
    BY <2>1, <2>2, <2>3, <2>4, <2>5, <2>6, <2>7 DEF Next
<1>6. ReplyOK'
  <2>1. ASSUME Poll PROVE ReplyOK'
    <3>1. Mined \subseteq Hash /\ "ether" \in Wallet /\ "token" \in Wallet
      BY DEF Mined, With, Wallet
    <3>2. QED
      BY <1>2, <2>1, <3>1, TransactionCountType DEF Poll
  <2>2. QED
    BY <1>2, <2>1 DEF Next, vars, replies, Connect, Disconnect, ThreadStart, ThreadEnd, CreateTransaction, SignAssign, Submit, Mine, TestNonce, WriteNonce, AnnounceSubmitTransaction, AnnounceTransaction, AnnounceLog, Announced
<1>7. ChainOK'
  <2>1. ASSUME NEW hs \in Block, Mine(hs) PROVE ChainOK'
    BY <2>1, MineKeeps
  <2>2. ASSUME Submit PROVE ChainOK'
    <3>1. CASE UNCHANGED network
      BY <1>2, <3>1 DEF network
    <3>2. CASE ~ UNCHANGED network
      <4>1. PICK h \in Ours :
              /\ chain' = [chain EXCEPT ![h].status = "pending", ![h].nonce = transactions[signer.tid].nonce]
              /\ height' = height
              /\ signer.tid \in Tid
        BY <2>2, <3>2 DEF Submit, SignerOK
      <4>2. h \in Hash
        BY HashAssumption
      <4>3. transactions[signer.tid].nonce \in Nat
        <5>1. transactions[signer.tid] \in Transaction
          BY <4>1, ListTypes
        <5>2. QED
          BY <5>1 DEF Transaction
      <4>4. QED
        BY <1>2, <4>1, <4>2, <4>3
    <3>3. QED
      BY ONLY <3>1, <3>2
  <2>3. QED
    BY <1>2, <2>1, <2>2 DEF Next, vars, network, Connect, Disconnect, ThreadStart, Poll, ThreadEnd, CreateTransaction, SignAssign, TestNonce, WriteNonce, AnnounceSubmitTransaction, AnnounceTransaction, AnnounceLog, Announced
<1>8. HeldOK'
  <2>1. ASSUME UNCHANGED <<held, signer, answers>> PROVE HeldOK'
    BY <1>2, <2>1 DEF held, Tid
  <2>2. ASSUME NEW w \in Wallet, CreateTransaction(w) PROVE HeldOK'
    <3> DEFINE new == [made |-> "app", ours |-> TRUE, nonce |-> NOT_ASSIGNED, hash |-> NoHash,
                       status |-> "CREATED", place |-> <<0, 0>>, windowed |-> FALSE]
               tid == Len(transactions) + 1
               list == InsertedSorted(wallets[w], tid, transactions')
    <3>1. /\ transactions' = Append(transactions, new)
          /\ wallets' = [wallets EXCEPT ![w] = list]
          /\ signer' = [step |-> "assign", tid |-> tid, read |-> nonce]
          /\ answers' = answers
      BY <2>2 DEF CreateTransaction, network
    <3>2. new \in Transaction
      BY BoundAssumption DEF Transaction, Place
    <3> HIDE DEF new
    <3>3. /\ transactions' \in Seq(Transaction) /\ Len(transactions') = tid /\ tid \in 1..Len(transactions')
          /\ Tid' = 1..Len(transactions') /\ Tid \subseteq Tid' /\ tid \in Tid'
      BY <3>1, <3>2, ListTypes DEF Tid
    <3>4. \A v \in Wallet : wallets[v] \in Seq(1..Len(transactions'))
      BY <3>3, ListTypes
    <3>5. list \in Seq(Tid')
      BY <3>3, <3>4, InsertedKeeps
    <3> HIDE DEF list, tid
    <3>6. wallets' \in [Wallet -> Seq(Tid')]
      BY <1>2, <3>1, <3>3, <3>4, <3>5
    <3>7. answers' \subseteq [tid : Tid', hash : Ours]
      BY <1>2, <3>1, <3>3
    <3>8. nonce \in Nat
      BY <1>2
    <3>9. signer' \in [step : {"idle", "assign", "sign"}, tid : Tid' \cup {NoOne}, read : Nat]
      BY <3>1, <3>3, <3>8
    <3>10. QED
      BY <3>3, <3>6, <3>7, <3>9
  <2>3. ASSUME NEW t \in Tid, NEW r \in Transaction, transactions' = [transactions EXCEPT ![t] = r]
        PROVE  transactions' \in Seq(Transaction) /\ Tid' = Tid
    BY <2>3, ListTypes DEF Tid
  <2>4. \A t \in Tid : transactions[t] \in Transaction
    BY ListTypes
  <2>5. ASSUME SignAssign PROVE HeldOK'
    <3> DEFINE r == [transactions[signer.tid] EXCEPT !.nonce = signer.read, !.windowed = raising # {}]
    <3>1. signer.tid \in Tid /\ signer.read \in Nat
      BY <1>2, <2>5 DEF SignAssign, SignerOK
    <3>2. r \in Transaction
      BY <2>4, <3>1 DEF Transaction
    <3>3. transactions' = [transactions EXCEPT ![signer.tid] = r]
      BY <2>5 DEF SignAssign
    <3> HIDE DEF r
    <3>4. transactions' \in Seq(Transaction) /\ Tid' = Tid
      BY <2>3, <3>1, <3>2, <3>3
    <3>5. QED
      BY <1>2, <2>5, <3>4 DEF SignAssign, network
  <2>6. ASSUME Submit PROVE HeldOK'
    <3> DEFINE r == [transactions[signer.tid] EXCEPT !.status = "SIGNED"]
    <3>1. signer.tid \in Tid
      BY <2>6 DEF Submit, SignerOK
    <3>2. r \in Transaction
      BY <2>4, <3>1 DEF Transaction
    <3>3. transactions' = [transactions EXCEPT ![signer.tid] = r]
      BY <2>6 DEF Submit
    <3> HIDE DEF r
    <3>4. transactions' \in Seq(Transaction) /\ Tid' = Tid
      BY <2>3, <3>1, <3>2, <3>3
    <3>5. answers' \subseteq [tid : Tid, hash : Ours]
      <4>1. \/ answers' = answers
            \/ \E h \in Ours : answers' = answers \cup {[tid |-> signer.tid, hash |-> h]}
        BY <2>6 DEF Submit, network
      <4>2. QED
        BY <1>2, <3>1, <4>1
    <3>6. signer' \in [step : {"idle", "assign", "sign"}, tid : Tid \cup {NoOne}, read : Nat]
      BY <1>2, <2>6 DEF Submit
    <3>7. wallets' = wallets
      BY <2>6 DEF Submit
    <3>8. QED
      BY <1>2, <3>4, <3>5, <3>6, <3>7
  <2>7. ASSUME NEW a \in answers, AnnounceSubmitTransaction(a) PROVE HeldOK'
    <3> DEFINE r == [transactions[a.tid] EXCEPT !.status = "SUBMITTED", !.hash = a.hash]
    <3>1. a.tid \in Tid /\ a.hash \in Hash
      BY <1>2, HashAssumption
    <3>2. r \in Transaction
      BY <2>4, <3>1 DEF Transaction
    <3>3. transactions' = [transactions EXCEPT ![a.tid] = r]
      BY <2>7 DEF AnnounceSubmitTransaction
    <3> HIDE DEF r
    <3>4. transactions' \in Seq(Transaction) /\ Tid' = Tid
      BY <2>3, <3>1, <3>2, <3>3
    <3>5. QED
      BY <1>2, <2>7, <3>4 DEF AnnounceSubmitTransaction
  <2>8. ASSUME NEW h \in Hash, AnnounceTransaction(h) \/ AnnounceLog(h) PROVE HeldOK'
    <3>1. /\ UNCHANGED held \/ \E w \in Wallet : \E tid : Blocks(w, h, tid)
          /\ signer' = signer /\ answers' = answers
      BY <2>8, AnnounceBlocks DEF network
    <3>2. ASSUME NEW w \in Wallet, NEW tid, Blocks(w, h, tid) PROVE HeldOK'
      <4>1. /\ transactions' \in Seq(Transaction) /\ wallets' \in [Wallet -> Seq(Tid')]
            /\ Tid \subseteq Tid'
        BY <3>2 DEF Blocks
      <4>2. QED
        BY <1>2, <3>1, <4>1
    <3>3. QED
      BY <2>1, <3>1, <3>2
  <2>9. QED
    BY <2>1, <2>2, <2>5, <2>6, <2>7, <2>8 DEF Next, vars, held, network, Connect, Disconnect, ThreadStart, Poll, ThreadEnd, Mine, TestNonce, WriteNonce
<1>9. QED
  BY <1>3, <1>4, <1>5, <1>6, <1>7, <1>8

\* Assigning, submitting and hearing of a submission change fields of one
\* transaction: none of them makes it blocked, or moves it.
LEMMA FieldsKept ==
  ASSUME TypeOK, SignerOK, SignAssign \/ Submit \/ \E a \in answers : AnnounceSubmitTransaction(a)
  PROVE  /\ Tid' = Tid /\ wallets' = wallets
         /\ \A t \in Tid : /\ transactions'[t].made = transactions[t].made
                           /\ transactions'[t].ours = transactions[t].ours
                           /\ transactions'[t].place = transactions[t].place
                           /\ \/ transactions'[t].status = transactions[t].status
                              \/ transactions'[t].status # "BLOCKED"
                           /\ \/ transactions'[t].hash = transactions[t].hash
                              \/ transactions'[t].status # "BLOCKED"
                           /\ \/ /\ transactions'[t].nonce = transactions[t].nonce
                                 /\ transactions'[t].windowed = transactions[t].windowed
                              \/ SignAssign /\ t = signer.tid
<1>1. \A t \in Tid : transactions[t] \in Transaction
  BY ListTypes
<1>2. CASE SignAssign
  <2>1. signer.tid \in Tid
    BY <1>2 DEF SignAssign, SignerOK
  <2>2. transactions' = [transactions EXCEPT ![signer.tid].nonce = signer.read, ![signer.tid].windowed = raising # {}]
    BY <1>2 DEF SignAssign
  <2>3. wallets' = wallets
    BY <1>2 DEF SignAssign
  <2>4. QED
    BY <1>1, <1>2, <2>1, <2>2, <2>3 DEF Tid, Transaction
<1>3. CASE Submit
  <2>1. signer.tid \in Tid
    BY <1>3 DEF Submit, SignerOK
  <2>2. transactions' = [transactions EXCEPT ![signer.tid].status = "SIGNED"]
    BY <1>3 DEF Submit
  <2>3. wallets' = wallets
    BY <1>3 DEF Submit
  <2>4. QED
    BY <1>1, <2>1, <2>2, <2>3 DEF Tid, Transaction
<1>4. ASSUME NEW a \in answers, AnnounceSubmitTransaction(a)
      PROVE  /\ Tid' = Tid /\ wallets' = wallets
             /\ \A t \in Tid : /\ transactions'[t].made = transactions[t].made
                               /\ transactions'[t].ours = transactions[t].ours
                               /\ transactions'[t].place = transactions[t].place
                               /\ transactions'[t].nonce = transactions[t].nonce
                               /\ transactions'[t].windowed = transactions[t].windowed
                               /\ \/ /\ transactions'[t].status = transactions[t].status
                                     /\ transactions'[t].hash = transactions[t].hash
                                  \/ transactions'[t].status # "BLOCKED"
  <2>1. a.tid \in Tid
    BY DEF TypeOK
  <2>2. transactions' = [transactions EXCEPT ![a.tid].status = "SUBMITTED", ![a.tid].hash = a.hash]
    BY <1>4 DEF AnnounceSubmitTransaction
  <2>3. wallets' = wallets
    BY <1>4 DEF AnnounceSubmitTransaction
  <2>4. QED
    BY <1>1, <2>1, <2>2, <2>3 DEF Tid, Transaction
<1>5. QED
  BY <1>2, <1>3, <1>4

\* What is created: a transaction of the app without a nonce, in one wallet.
LEMMA Created ==
  ASSUME TypeOK, TypeOK', NEW w \in Wallet, CreateTransaction(w)
  PROVE  /\ Len(transactions) + 1 \notin Tid
         /\ Tid' = Tid \cup {Len(transactions) + 1}
         /\ \A t \in Tid : transactions'[t] = transactions[t]
         /\ LET new == transactions'[Len(transactions) + 1]
            IN  /\ new.made = "app" /\ new.ours /\ new.status = "CREATED" /\ new.hash = NoHash
                /\ new.nonce = NOT_ASSIGNED
         /\ \A v \in Wallet \ {w} : wallets'[v] = wallets[v]
         /\ wallets'[w] = InsertedSorted(wallets[w], Len(transactions) + 1, transactions')
         /\ wallets[w] \in Seq(1..Len(transactions'))
         /\ Len(transactions) + 1 \in 1..Len(transactions')
<1> DEFINE new == [made |-> "app", ours |-> TRUE, nonce |-> NOT_ASSIGNED, hash |-> NoHash,
                   status |-> "CREATED", place |-> <<0, 0>>, windowed |-> FALSE]
<1>1. /\ transactions' = Append(transactions, new)
      /\ wallets' = [wallets EXCEPT ![w] = InsertedSorted(@, Len(transactions) + 1, transactions')]
  BY DEF CreateTransaction
<1>2. new.made = "app" /\ new.ours /\ new.status = "CREATED" /\ new.hash = NoHash /\ new.nonce = NOT_ASSIGNED
  OBVIOUS
<1> HIDE DEF new
<1>3. /\ Len(transactions') = Len(transactions) + 1
      /\ \A t \in Tid : transactions'[t] = transactions[t]
      /\ transactions'[Len(transactions) + 1] = new
      /\ Tid' = Tid \cup {Len(transactions) + 1}
      /\ Len(transactions) + 1 \notin Tid
      /\ Len(transactions) + 1 \in 1..Len(transactions')
  BY <1>1, ListTypes DEF Tid
<1>4. wallets[w] \in Seq(1..Len(transactions'))
  <2> DEFINE S == 1..Len(transactions')
  <2>1. wallets[w] \in Seq(Tid) /\ Tid \subseteq S
    BY <1>3, ListTypes
  <2> HIDE DEF S
  <2>2. wallets[w] \in Seq(S)
    BY <2>1
  <2>3. QED
    BY <2>2 DEF S
<1>5. \A v \in Wallet \ {w} : wallets'[v] = wallets[v]
  BY <1>1, ListTypes
<1>6. wallets'[w] = InsertedSorted(wallets[w], Len(transactions) + 1, transactions')
  BY <1>1, ListTypes
<1>7. QED
  BY <1>2, <1>3, <1>4, <1>5, <1>6

\* The other actions leave what is held alone.
LEMMA HeldKept ==
  ASSUME \/ Connect \/ Disconnect \/ ThreadStart \/ Poll \/ ThreadEnd \/ UNCHANGED vars
         \/ \E hs \in Block : Mine(hs)
         \/ \E n \in nonces : TestNonce(n)
         \/ \E n \in raising : WriteNonce(n)
  PROVE  UNCHANGED held
BY DEF Connect, Disconnect, ThreadStart, Poll, ThreadEnd, vars, Mine, TestNonce, WriteNonce

\* An insertion of a new transaction and an update keep each list in order and
\* each transaction listed once; what only loses its blocked status needs no move.
LEMMA ListsInvariance ==
  ASSUME IInv, [Next]_vars, TypeOK'
  PROVE  ListedOnce' /\ BlockedInOrder'
<1> USE DEF IInv
<1> DEFINE Lists(ws, ts) == /\ \A w \in Wallet : OnceIn(ws[w]) /\ OrderedIn(ws[w], ts)
                            /\ \A v, w \in Wallet : v # w => Members(ws[v]) \cap Members(ws[w]) = {}
<1>1. Lists(wallets, transactions)
  BY ListedOnceParts, BlockedInOrderParts
<1>2. SUFFICES Lists(wallets', transactions')
  <2>1. (ListedOnce <=> /\ \A w \in Wallet : OnceIn(wallets[w])
                        /\ \A v, w \in Wallet : v # w => Members(wallets[v]) \cap Members(wallets[w]) = {})'
    BY ListedOnceParts, PTL
  <2>2. (BlockedInOrder <=> \A w \in Wallet : OrderedIn(wallets[w], transactions))'
    BY BlockedInOrderParts, PTL
  <2>3. QED
    BY <2>1, <2>2
<1>3. \A w \in Wallet : \A i \in 1..Len(wallets[w]) : wallets[w][i] \in Tid
  BY ListTypes
<1>4. ASSUME NEW w \in Wallet, NEW tid,
             \A v \in Wallet \ {w} : wallets'[v] = wallets[v] /\ tid \notin Members(wallets[v]),
             \A t \in Tid \ {tid} : transactions'[t] = transactions[t],
             OnceIn(wallets'[w]), Members(wallets'[w]) = Members(wallets[w]) \cup {tid},
             OrderedIn(wallets'[w], transactions')
      PROVE  Lists(wallets', transactions')
  <2>1. ASSUME NEW v \in Wallet \ {w} PROVE OnceIn(wallets'[v]) /\ OrderedIn(wallets'[v], transactions')
    <3>1. wallets'[v] = wallets[v] /\ OnceIn(wallets[v]) /\ OrderedIn(wallets[v], transactions)
      BY <1>1, <1>4
    <3>2. \A i \in 1..Len(wallets[v]) : wallets[v][i] \in Tid \ {tid}
      BY <1>3, <1>4 DEF Members
    <3>3. \A i \in 1..Len(wallets[v]) : transactions'[wallets[v][i]] = transactions[wallets[v][i]]
      BY <1>4, <3>2
    <3>4. QED
      BY <3>1, <3>3 DEF OrderedIn
  <2>2. \A u, v \in Wallet : u # v => Members(wallets'[u]) \cap Members(wallets'[v]) = {}
    <3>1. TAKE u, v \in Wallet
    <3>2. HAVE u # v
    <3>3. Members(wallets[u]) \cap Members(wallets[v]) = {}
      BY <1>1, <3>2
    <3>4. CASE u = w
      BY <1>4, <3>2, <3>3, <3>4
    <3>5. CASE v = w
      BY <1>4, <3>2, <3>3, <3>5
    <3>6. CASE u # w /\ v # w
      BY <1>4, <3>3, <3>6
    <3>7. QED
      BY ONLY <3>4, <3>5, <3>6
  <2>3. QED
    BY <1>4, <2>1, <2>2
<1>5. ASSUME UNCHANGED held PROVE Lists(wallets', transactions')
  BY <1>1, <1>5 DEF held
<1>6. ASSUME SignAssign \/ Submit \/ \E a \in answers : AnnounceSubmitTransaction(a)
      PROVE  Lists(wallets', transactions')
  <2>1. /\ wallets' = wallets
        /\ \A t \in Tid : /\ transactions'[t].place = transactions[t].place
                          /\ \/ transactions'[t].status = transactions[t].status
                             \/ transactions'[t].status # "BLOCKED"
    BY <1>6, FieldsKept
  <2>2. \A t, u \in Tid : InOrder(transactions[t], transactions[u]) => InOrder(transactions'[t], transactions'[u])
    BY <2>1 DEF InOrder
  <2>3. ASSUME NEW w \in Wallet PROVE OrderedIn(wallets[w], transactions')
    <3>1. OrderedIn(wallets[w], transactions)
      BY <1>1
    <3>2. QED
      BY <1>3, <2>2, <3>1 DEF OrderedIn
  <2>4. QED
    BY <1>1, <2>1, <2>3
<1>7. ASSUME NEW w \in Wallet, CreateTransaction(w) PROVE Lists(wallets', transactions')
  <2> DEFINE tid == Len(transactions) + 1
             list == InsertedSorted(wallets[w], tid, transactions')
  <2>1. /\ tid \notin Tid /\ \A t \in Tid : transactions'[t] = transactions[t]
        /\ \A v \in Wallet \ {w} : wallets'[v] = wallets[v]
        /\ wallets'[w] = list
        /\ wallets[w] \in Seq(1..Len(transactions')) /\ tid \in 1..Len(transactions')
    BY <1>7, Created
  <2>2. transactions' \in Seq(Transaction)
    BY DEF TypeOK
  <2>3. OrderedIn(wallets[w], transactions')
    <3>1. OrderedIn(wallets[w], transactions)
      BY <1>1
    <3>2. QED
      BY <1>3, <2>1, <3>1 DEF OrderedIn
  <2>4. \A v \in Wallet : tid \notin Members(wallets[v])
    BY <1>3, <2>1 DEF Members
  <2>5. /\ Members(list) = Members(wallets[w]) \cup {tid}
        /\ OnceIn(wallets[w]) /\ tid \notin Members(wallets[w]) => OnceIn(list)
        /\ OrderedIn(wallets[w], transactions') => OrderedIn(list, transactions')
    BY <2>1, <2>2, InsertedKeeps
  <2> HIDE DEF tid, list
  <2>6. OnceIn(list) /\ OrderedIn(list, transactions')
    BY <1>1, <2>3, <2>4, <2>5
  <2> HIDE DEF Lists
  <2>7. QED
    BY <1>4, <2>1, <2>4, <2>5, <2>6
<1>8. ASSUME NEW h \in Hash, AnnounceTransaction(h) \/ AnnounceLog(h) PROVE Lists(wallets', transactions')
  <2>1. UNCHANGED held \/ \E w \in Wallet : \E tid : Blocks(w, h, tid)
    BY <1>8, AnnounceBlocks
  <2>2. ASSUME NEW w \in Wallet, NEW tid, Blocks(w, h, tid) PROVE Lists(wallets', transactions')
    <3>1. OrderedIn(wallets[w], transactions)
      BY <1>1
    <3>2. /\ \A v \in Wallet \ {w} : wallets'[v] = wallets[v] /\ tid \notin Members(wallets[v])
          /\ \A t \in Tid \ {tid} : transactions'[t] = transactions[t]
          /\ OnceIn(wallets'[w]) /\ Members(wallets'[w]) = Members(wallets[w]) \cup {tid}
          /\ OrderedIn(wallets'[w], transactions')
      BY <2>2, <3>1 DEF Blocks
    <3> HIDE DEF Lists
    <3>3. QED
      BY <1>4, <3>2
  <2> HIDE DEF Lists
  <2>3. QED
    BY <1>5, <2>1, <2>2
<1> HIDE DEF Lists
<1>9. QED
  BY <1>5, <1>6, <1>7, <1>8, HeldKept DEF Next

\* A nonce that was given stays below the address's nonce, below every nonce that
\* is about to be written, and below the one the signer has read.
LEMMA NonceInvariance ==
  ASSUME IInv, [Next]_vars, TypeOK'
  PROVE  SignerOK' /\ NonceBelow' /\ NonceReuse'
<1> USE DEF IInv
<1>1. /\ nonce \in Nat /\ raising \subseteq Nat /\ nonces \subseteq Nat /\ signer.read \in Nat
      /\ NOT_ASSIGNED \in Nat
  BY BoundAssumption DEF TypeOK
<1>2. \A t \in Tid : transactions[t].nonce \in Nat
  <2>1. \A t \in Tid : transactions[t] \in Transaction
    BY ListTypes
  <2>2. QED
    BY <2>1 DEF Transaction
<1> DEFINE Given(t) == t.made = "app" /\ t.nonce # NOT_ASSIGNED
           Same(t) == /\ transactions'[t].made = transactions[t].made
                      /\ transactions'[t].ours = transactions[t].ours
                      /\ transactions'[t].nonce = transactions[t].nonce
                      /\ transactions'[t].windowed = transactions[t].windowed
           \* nothing that is new was given a nonce
           Fields == /\ Tid \subseteq Tid'
                     /\ \A t \in Tid : Same(t)
                     /\ \A t \in Tid' \ Tid : ~ Given(transactions'[t])
<1>3. ASSUME Fields PROVE NonceReuse'
  <2>1. \A t \in Tid' : Given(transactions'[t]) => t \in Tid
    BY <1>3
  <2>2. QED
    BY <1>3, <2>1 DEF NonceReuse
<1>4. ASSUME Fields, signer' = signer \/ signer'.step # "assign",
             \A t \in Tid : Given(transactions[t]) /\ ~ transactions[t].windowed =>
                /\ transactions[t].nonce < nonce' /\ \A n \in raising' : transactions[t].nonce < n
      PROVE  NonceBelow'
  <2>1. \A t \in Tid' : Given(transactions'[t]) => t \in Tid
    BY <1>4
  <2>2. QED
    BY <1>4, <2>1 DEF NonceBelow
<1>5. ASSUME Fields, signer' = signer, nonce' = nonce, raising' = raising,
             answers' \subseteq answers,
             signer.step = "assign" => transactions'[signer.tid].hash = transactions[signer.tid].hash
      PROVE  SignerOK' /\ NonceBelow' /\ NonceReuse'
  <2>1. SignerOK'
    <3>1. \A a \in answers : a.tid \in Tid
      BY DEF TypeOK
    <3>2. QED
      BY <1>5, <3>1 DEF SignerOK
  <2>2. \A t \in Tid : Given(transactions[t]) /\ ~ transactions[t].windowed =>
            /\ transactions[t].nonce < nonce' /\ \A n \in raising' : transactions[t].nonce < n
    BY <1>5 DEF NonceBelow
  <2> HIDE DEF Fields
  <2>3. NonceBelow'
    BY <1>4, <1>5, <2>2
  <2>4. QED
    BY <1>3, <1>5, <2>1, <2>3
<1>6. ASSUME UNCHANGED held, UNCHANGED <<nonce, raising, signer, answers>>
      PROVE  SignerOK' /\ NonceBelow' /\ NonceReuse'
  <2>1. Fields
    BY <1>6 DEF held, Tid
  <2> HIDE DEF Fields
  <2>2. QED
    BY <1>5, <1>6, <2>1 DEF held
<1>7. ASSUME NEW w \in Wallet, CreateTransaction(w)
      PROVE  SignerOK' /\ NonceBelow' /\ NonceReuse'
  <2> DEFINE tid == Len(transactions) + 1
  <2>1. /\ tid \notin Tid /\ Tid' = Tid \cup {tid}
        /\ \A t \in Tid : transactions'[t] = transactions[t]
        /\ transactions'[tid].made = "app" /\ transactions'[tid].ours
        /\ transactions'[tid].hash = NoHash /\ transactions'[tid].nonce = NOT_ASSIGNED
    BY <1>7, Created
  <2>2. /\ signer' = [step |-> "assign", tid |-> tid, read |-> nonce]
        /\ nonce' = nonce /\ raising' = raising /\ nonce + 1 < NOT_ASSIGNED /\ answers' = answers
    BY <1>7 DEF CreateTransaction, network
  <2> HIDE DEF tid
  <2>3. Fields
    BY <2>1
  <2>4. SignerOK'
    <3>1. nonce < NOT_ASSIGNED
      BY <1>1, <2>2
    <3>2. \A a \in answers : a.tid \in Tid
      BY DEF TypeOK
    <3>3. QED
      BY <2>1, <2>2, <3>1, <3>2 DEF SignerOK
  <2>5. NonceBelow'
    BY <2>1, <2>2 DEF NonceBelow
  <2> HIDE DEF Fields
  <2>6. QED
    BY <1>3, <2>3, <2>4, <2>5
<1>8. ASSUME SignAssign PROVE SignerOK' /\ NonceBelow' /\ NonceReuse'
  <2>1. /\ signer.step = "assign" /\ signer.tid \in Tid /\ transactions[signer.tid].made = "app"
        /\ signer.read < NOT_ASSIGNED
    BY <1>8 DEF SignAssign, SignerOK
  <2>2. /\ nonce' = signer.read + 1 /\ raising' = raising
        /\ signer' = [signer EXCEPT !.step = "sign"]
        /\ answers' = answers
    BY <1>8 DEF SignAssign, Incremented, network
  <2>3. /\ Tid' = Tid
        /\ \A t \in Tid \ {signer.tid} : transactions'[t] = transactions[t]
        /\ transactions'[signer.tid].nonce = signer.read
        /\ transactions'[signer.tid].windowed = (raising # {})
        /\ transactions'[signer.tid].made = "app"
    <3> DEFINE r == [transactions[signer.tid] EXCEPT !.nonce = signer.read, !.windowed = raising # {}]
    <3>1. transactions[signer.tid] \in Transaction
      BY <2>1, ListTypes
    <3>2. transactions' = [transactions EXCEPT ![signer.tid] = r]
      BY <1>8 DEF SignAssign
    <3>3. r.nonce = signer.read /\ r.windowed = (raising # {}) /\ r.made = "app"
      BY <2>1, <3>1 DEF Transaction
    <3> HIDE DEF r
    <3>4. Tid' = Tid /\ \A t \in Tid \ {signer.tid} : transactions'[t] = transactions[t]
      BY <3>2 DEF Tid
    <3>5. transactions'[signer.tid] = r
      BY <2>1, <3>2 DEF Tid
    <3>6. QED
      BY <3>3, <3>4, <3>5
  <2>4. signer'.step = "sign" /\ signer'.tid = signer.tid /\ signer'.read = signer.read
    BY <2>2 DEF TypeOK
  <2>5. SignerOK'
    <3>1. \A a \in answers : a.tid \in Tid /\ a.tid # signer.tid
      BY <2>1 DEF TypeOK, SignerOK
    <3>2. signer.read # NOT_ASSIGNED
      BY <1>1, <2>1
    <3>3. QED
      BY <2>1, <2>2, <2>3, <2>4, <3>1, <3>2 DEF SignerOK
  <2>6. \A t \in Tid : Given(transactions[t]) /\ ~ transactions[t].windowed =>
            /\ transactions[t].nonce < signer.read
            /\ \A n \in raising : transactions[t].nonce < n
    BY <2>1 DEF NonceBelow
  <2>7. NonceBelow'
    <3>1. ASSUME NEW t \in Tid', Given(transactions'[t]), ~ transactions'[t].windowed
          PROVE  transactions'[t].nonce < nonce' /\ \A n \in raising' : transactions'[t].nonce < n
      <4>1. CASE t = signer.tid
        <5>1. transactions'[t].nonce = signer.read /\ raising = {}
          BY <2>3, <3>1, <4>1
        <5>2. QED
          BY <1>1, <2>2, <5>1
      <4>2. CASE t # signer.tid
        <5>1. t \in Tid /\ transactions'[t] = transactions[t]
          BY <2>3, <4>2
        <5>2. /\ transactions[t].nonce < signer.read /\ transactions[t].nonce \in Nat
              /\ \A n \in raising : transactions[t].nonce < n
          BY <1>2, <2>6, <3>1, <5>1
        <5>3. QED
          BY <1>1, <2>2, <5>1, <5>2
      <4>3. QED
        BY ONLY <4>1, <4>2
    <3>2. QED
      BY <2>4, <3>1 DEF NonceBelow
  <2>8. NonceReuse'
    <3>1. \A t \in Tid \ {signer.tid} : Given(transactions[t]) /\ transactions[t].nonce = signer.read
              => transactions[t].windowed
      BY <1>1, <1>2, <2>6
    <3>2. ASSUME NEW t \in Tid', NEW u \in Tid', t # u, Given(transactions'[t]), Given(transactions'[u]),
                 transactions'[t].nonce = transactions'[u].nonce
          PROVE  transactions'[t].windowed \/ transactions'[u].windowed
      <4>1. CASE t = signer.tid
        BY <2>3, <3>1, <3>2, <4>1
      <4>2. CASE u = signer.tid
        BY <2>3, <3>1, <3>2, <4>2
      <4>3. CASE t # signer.tid /\ u # signer.tid
        BY <2>3, <3>2, <4>3 DEF NonceReuse
      <4>4. QED
        BY ONLY <4>1, <4>2, <4>3
    <3>3. QED
      BY <3>2 DEF NonceReuse
  <2>9. QED
    BY <2>5, <2>7, <2>8
<1>9. ASSUME Submit PROVE SignerOK' /\ NonceBelow' /\ NonceReuse'
  <2>1. signer.step = "sign" /\ signer' = [signer EXCEPT !.step = "idle"] /\ nonce' = nonce /\ raising' = raising
    BY <1>9 DEF Submit
  <2>2. signer'.step = "idle"
    BY <2>1 DEF TypeOK
  <2>3. ~ SignAssign
    BY <2>1 DEF SignAssign
  <2>4. Tid' = Tid /\ \A t \in Tid : Same(t)
    BY <1>9, <2>3, FieldsKept
  <2>5. Fields
    BY <2>4
  <2>6. \A t \in Tid : Given(transactions[t]) /\ ~ transactions[t].windowed =>
            /\ transactions[t].nonce < nonce' /\ \A n \in raising' : transactions[t].nonce < n
    BY <2>1 DEF NonceBelow
  <2>7. SignerOK'
    <3>1. \A a \in answers' : a \in answers \/ a.tid = signer.tid
      <4>1. \/ answers' = answers
            \/ \E h \in Ours : answers' = answers \cup {[tid |-> signer.tid, hash |-> h]}
        BY <1>9 DEF Submit, network
      <4>2. QED
        BY <4>1
    <3>2. \A a \in answers : a.tid \in Tid
      BY DEF TypeOK
    <3>3. transactions[signer.tid].nonce # NOT_ASSIGNED /\ signer.tid \in Tid
      BY <2>1 DEF SignerOK
    <3>4. \A a \in answers' : transactions'[a.tid].nonce # NOT_ASSIGNED
      BY <2>4, <3>1, <3>2, <3>3 DEF SignerOK
    <3>5. QED
      BY <2>2, <3>4 DEF SignerOK
  <2> HIDE DEF Fields
  <2>8. NonceBelow'
    BY <1>4, <2>2, <2>5, <2>6
  <2>9. QED
    BY <1>3, <2>5, <2>7, <2>8
<1>10. ASSUME NEW a \in answers, AnnounceSubmitTransaction(a) PROVE SignerOK' /\ NonceBelow' /\ NonceReuse'
  <2>1. signer' = signer /\ nonce' = nonce /\ raising' = raising /\ answers' \subseteq answers
    BY <1>10 DEF AnnounceSubmitTransaction
  <2>2. a.tid \in Tid /\ \A t \in Tid : transactions[t] \in Transaction
    BY ListTypes DEF TypeOK
  <2>3. Fields
    <3>1. transactions' = [transactions EXCEPT ![a.tid].status = "SUBMITTED", ![a.tid].hash = a.hash]
      BY <1>10 DEF AnnounceSubmitTransaction
    <3>2. Tid' = Tid
      BY <3>1 DEF Tid
    <3>3. \A t \in Tid : Same(t)
      BY <2>2, <3>1 DEF Tid, Transaction
    <3>4. QED
      BY <3>2, <3>3
  <2>4. signer.step = "assign" => transactions'[signer.tid].hash = transactions[signer.tid].hash
    <3>1. HAVE signer.step = "assign"
    <3>2. signer.tid \in Tid /\ signer.tid # a.tid
      BY <3>1 DEF SignerOK
    <3>3. transactions' = [transactions EXCEPT ![a.tid].status = "SUBMITTED", ![a.tid].hash = a.hash]
      BY <1>10 DEF AnnounceSubmitTransaction
    <3>4. QED
      BY <3>2, <3>3 DEF Tid
  <2> HIDE DEF Fields
  <2>5. QED
    BY <1>5, <2>1, <2>3, <2>4
<1>11. ASSUME NEW n \in nonces, TestNonce(n) PROVE SignerOK' /\ NonceBelow' /\ NonceReuse'
  <2>1. /\ UNCHANGED held /\ signer' = signer /\ nonce' = nonce /\ answers' = answers
        /\ \A r \in raising' : r \in raising \/ nonce < r
    BY <1>1, <1>11 DEF TestNonce, network
  <2>2. Fields
    BY <2>1 DEF held, Tid
  <2>3. \A t \in Tid : Given(transactions[t]) /\ ~ transactions[t].windowed =>
            /\ transactions[t].nonce < nonce' /\ \A r \in raising' : transactions[t].nonce < r
    <3>1. TAKE t \in Tid
    <3>2. HAVE Given(transactions[t]) /\ ~ transactions[t].windowed
    <3>3. transactions[t].nonce < nonce /\ \A r \in raising : transactions[t].nonce < r
      BY <3>2 DEF NonceBelow
    <3>4. raising' \subseteq Nat /\ transactions[t].nonce \in Nat
      BY <1>2 DEF TypeOK
    <3>5. QED
      BY <1>1, <2>1, <3>3, <3>4
  <2>4. SignerOK'
    BY <2>1 DEF SignerOK, held, Tid
  <2> HIDE DEF Fields
  <2>5. QED
    BY <1>3, <1>4, <2>1, <2>2, <2>3, <2>4
<1>12. ASSUME NEW n \in raising, WriteNonce(n) PROVE SignerOK' /\ NonceBelow' /\ NonceReuse'
  <2>1. /\ UNCHANGED held /\ signer' = signer /\ nonce' = n /\ answers' = answers /\ raising' \subseteq raising
    BY <1>12 DEF WriteNonce, network
  <2>2. Fields
    BY <2>1 DEF held, Tid
  <2>3. \A t \in Tid : Given(transactions[t]) /\ ~ transactions[t].windowed =>
            /\ transactions[t].nonce < nonce' /\ \A r \in raising' : transactions[t].nonce < r
    BY <2>1 DEF NonceBelow
  <2>4. SignerOK'
    BY <2>1 DEF SignerOK, held, Tid
  <2> HIDE DEF Fields
  <2>5. QED
    BY <1>3, <1>4, <2>1, <2>2, <2>3, <2>4
<1>13. ASSUME NEW h \in Hash, AnnounceTransaction(h) \/ AnnounceLog(h)
       PROVE  SignerOK' /\ NonceBelow' /\ NonceReuse'
  <2>1. /\ UNCHANGED held \/ \E w \in Wallet : \E tid : Blocks(w, h, tid)
        /\ UNCHANGED <<nonce, raising, signer, answers>>
    BY <1>13, AnnounceBlocks DEF network
  <2>2. ASSUME NEW w \in Wallet, NEW tid, Blocks(w, h, tid) PROVE SignerOK' /\ NonceBelow' /\ NonceReuse'
    <3>1. /\ \A t \in Tid : Same(t) /\ transactions'[t].hash = transactions[t].hash
          /\ \A t \in Tid' \ Tid : transactions'[t].made = "announced"
          /\ Tid \subseteq Tid'
      BY <2>2 DEF Blocks
    <3>2. Fields
      BY <3>1
    <3>3. signer.step = "assign" => transactions'[signer.tid].hash = transactions[signer.tid].hash
      BY <3>1 DEF SignerOK
    <3> HIDE DEF Fields
    <3>4. QED
      BY <1>5, <2>1, <3>2, <3>3
  <2>3. QED
    BY <1>6, <2>1, <2>2
<1>14. ASSUME \/ Connect \/ Disconnect \/ ThreadStart \/ Poll \/ ThreadEnd \/ UNCHANGED vars
              \/ \E hs \in Block : Mine(hs)
       PROVE  SignerOK' /\ NonceBelow' /\ NonceReuse'
  <2>1. UNCHANGED held
    BY <1>14, HeldKept
  <2>2. UNCHANGED <<nonce, raising, signer, answers>>
    BY <1>14 DEF Connect, Disconnect, ThreadStart, Poll, ThreadEnd, vars, Mine, network
  <2>3. QED
    BY <1>6, <2>1, <2>2
<1>15. QED
  BY <1>7, <1>8, <1>9, <1>10, <1>11, <1>12, <1>13, <1>14 DEF Next

\* What is mined stays where it is.
LEMMA ChainKept ==
  ASSUME TypeOK, AnnouncedIsMined, [Next]_vars
  PROVE  /\ \A h \in Mined : h \in Mined' /\ chain'[h] = chain[h]
         /\ \A h \in Mined' : chain'[h].nonce < NOT_ASSIGNED
<1>1. ASSUME NEW hs \in Block, Mine(hs)
      PROVE  /\ \A h \in Mined : h \in Mined' /\ chain'[h] = chain[h]
             /\ \A h \in Mined' : chain'[h].nonce < NOT_ASSIGNED
  BY <1>1, MineKeeps
<1>2. ASSUME chain' = chain
      PROVE  /\ \A h \in Mined : h \in Mined' /\ chain'[h] = chain[h]
             /\ \A h \in Mined' : chain'[h].nonce < NOT_ASSIGNED
  BY <1>2 DEF Mined, With, AnnouncedIsMined
<1>3. ASSUME Submit
      PROVE  /\ \A h \in Mined : h \in Mined' /\ chain'[h] = chain[h]
             /\ \A h \in Mined' : chain'[h].nonce < NOT_ASSIGNED
  <2>1. CASE chain' = chain
    BY <1>2, <2>1
  <2>2. CASE chain' # chain
    <3>1. PICK h \in Ours :
            /\ Fresh(h)
            /\ chain' = [chain EXCEPT ![h].status = "pending", ![h].nonce = transactions[signer.tid].nonce]
      BY <1>3, <2>2 DEF Submit, network
    <3>2. h \in Hash /\ h \notin Mined
      BY <3>1 DEF Fresh, Mined, With
    <3>3. \A g \in Hash : g # h => chain'[g] = chain[g]
      BY <3>1 DEF TypeOK
    <3>4. chain'[h].status = "pending"
      BY <3>1, <3>2 DEF TypeOK
    <3>5. QED
      BY <3>2, <3>3, <3>4 DEF Mined, With, AnnouncedIsMined
  <2>3. QED
    BY ONLY <2>1, <2>2
<1>4. \/ Connect \/ Disconnect \/ ThreadStart \/ Poll \/ ThreadEnd \/ SignAssign \/ UNCHANGED vars
      => chain' = chain
  BY DEF Connect, Disconnect, ThreadStart, Poll, ThreadEnd, SignAssign, vars, network
<1>5. /\ \A w \in Wallet : CreateTransaction(w) => chain' = chain
      /\ \A n \in nonces : TestNonce(n) => chain' = chain
      /\ \A n \in raising : WriteNonce(n) => chain' = chain
      /\ \A a \in answers : AnnounceSubmitTransaction(a) => chain' = chain
  BY DEF CreateTransaction, TestNonce, WriteNonce, AnnounceSubmitTransaction, network
<1>6. \A h \in Hash : AnnounceTransaction(h) \/ AnnounceLog(h) => chain' = chain
  BY DEF AnnounceTransaction, AnnounceLog, Announced, network
<1>7. QED
  BY <1>1, <1>2, <1>3, <1>4, <1>5, <1>6 DEF Next

\* Only what is mined is announced, so that what an announcement blocks is mined;
\* a nonce is assigned only to what is not blocked.
LEMMA MinedInvariance ==
  ASSUME IInv, [Next]_vars, TypeOK'
  PROVE  AnnouncedIsMined' /\ BlockedIsMined'
<1> USE DEF IInv
<1>1. /\ \A h \in Mined : h \in Mined' /\ chain'[h] = chain[h]
      /\ \A h \in Mined' : chain'[h].nonce < NOT_ASSIGNED
  BY ChainKept
<1>2. AnnouncedIsMined'
  <2>1. ASSUME Poll PROVE \A p \in toAnnounce' : p \in toAnnounce \/ p[2] \in Mined
    BY <2>1 DEF Poll
  <2>2. \/ Connect \/ Disconnect \/ ThreadStart \/ ThreadEnd \/ SignAssign \/ Submit \/ UNCHANGED vars
        => toAnnounce' = toAnnounce
    BY DEF Connect, Disconnect, ThreadStart, ThreadEnd, SignAssign, Submit, vars, replies
  <2>3. /\ \A w \in Wallet : CreateTransaction(w) => toAnnounce' = toAnnounce
        /\ \A hs \in Block : Mine(hs) => toAnnounce' = toAnnounce
        /\ \A n \in nonces : TestNonce(n) => toAnnounce' = toAnnounce
        /\ \A n \in raising : WriteNonce(n) => toAnnounce' = toAnnounce
        /\ \A a \in answers : AnnounceSubmitTransaction(a) => toAnnounce' = toAnnounce
    BY DEF CreateTransaction, Mine, TestNonce, WriteNonce, AnnounceSubmitTransaction, replies
  <2>4. \A h \in Hash : AnnounceTransaction(h) \/ AnnounceLog(h) => toAnnounce' \subseteq toAnnounce
    BY DEF AnnounceTransaction, AnnounceLog, Announced
  <2>5. \A p \in toAnnounce' : p \in toAnnounce \/ p[2] \in Mined
    BY <2>1, <2>2, <2>3, <2>4 DEF Next
  <2>6. QED
    BY <1>1, <2>5 DEF AnnouncedIsMined
<1> DEFINE IsMined(t) == t.status = "BLOCKED" => \E h \in Mined : Stands(t, h)
<1>3. \A tid \in Tid : IsMined(transactions[tid])
  BY DEF BlockedIsMined, Stands
<1>4. ASSUME NEW t, \E h \in Mined : Stands(t, h)
      PROVE  \E h \in Mined' : /\ t.place = chain'[h].place
                               /\ t.hash = h \/ (t.ours /\ h \in Ours /\ t.nonce = chain'[h].nonce)
  <2>1. PICK h \in Mined : Stands(t, h)
    BY <1>4
  <2>2. h \in Mined' /\ chain'[h] = chain[h]
    BY <1>1
  <2>3. QED
    BY <2>1, <2>2 DEF Stands
<1>5. SUFFICES \A tid \in Tid' : IsMined(transactions'[tid])
  BY <1>2, <1>4 DEF BlockedIsMined
<1>6. ASSUME UNCHANGED held PROVE \A tid \in Tid' : IsMined(transactions'[tid])
  BY <1>3, <1>6 DEF held, Tid
<1>7. ASSUME NEW w \in Wallet, CreateTransaction(w) PROVE \A tid \in Tid' : IsMined(transactions'[tid])
  BY <1>3, <1>7, Created
<1>8. ASSUME SignAssign \/ Submit \/ \E a \in answers : AnnounceSubmitTransaction(a)
      PROVE  \A tid \in Tid' : IsMined(transactions'[tid])
  <2>1. ASSUME NEW t \in Tid, transactions'[t].status = "BLOCKED"
        PROVE  \E h \in Mined : Stands(transactions'[t], h)
    <3>1. /\ transactions'[t].ours = transactions[t].ours
          /\ transactions'[t].place = transactions[t].place
          /\ transactions[t].status = "BLOCKED"
          /\ transactions'[t].hash = transactions[t].hash
          /\ transactions'[t].nonce = transactions[t].nonce \/ (SignAssign /\ t = signer.tid)
      BY <1>8, <2>1, FieldsKept
    <3>2. PICK h \in Mined : Stands(transactions[t], h)
      BY <1>3, <3>1
    <3>3. CASE SignAssign /\ t = signer.tid
      <4>1. transactions[t].nonce = NOT_ASSIGNED /\ transactions[t].hash = NoHash
        BY <3>3 DEF SignAssign, SignerOK
      <4>2. h \in Hash /\ chain[h].nonce \in Nat /\ chain[h].nonce < NOT_ASSIGNED /\ NOT_ASSIGNED \in Nat
        BY BoundAssumption DEF AnnouncedIsMined, Mined, With, TypeOK
      <4>3. chain[h].nonce # NOT_ASSIGNED /\ h # NoHash
        BY <4>2, HashAssumption
      <4>4. QED
        BY <3>2, <4>1, <4>3 DEF Stands
    <3>4. CASE transactions'[t].nonce = transactions[t].nonce
      BY <3>1, <3>2, <3>4 DEF Stands
    <3>5. QED
      BY ONLY <3>1, <3>3, <3>4
  <2>2. Tid' = Tid
    BY <1>8, FieldsKept
  <2>3. QED
    BY <2>1, <2>2
<1>9. ASSUME NEW h \in Hash, AnnounceTransaction(h) \/ AnnounceLog(h)
      PROVE  \A tid \in Tid' : IsMined(transactions'[tid])
  <2>1. /\ UNCHANGED held \/ \E w \in Wallet : \E tid : Blocks(w, h, tid)
        /\ \E w \in Wallet : <<w, h>> \in toAnnounce
    BY <1>9, AnnounceBlocks
  <2>2. h \in Mined
    BY <2>1 DEF AnnouncedIsMined
  <2>3. ASSUME NEW w \in Wallet, NEW tid, Blocks(w, h, tid)
        PROVE  \A t \in Tid' : IsMined(transactions'[t])
    <3>1. /\ Stands(transactions'[tid], h)
          /\ Tid' \subseteq Tid \cup {tid}
          /\ \A t \in Tid \ {tid} : transactions'[t] = transactions[t]
      BY <2>3 DEF Blocks
    <3>2. QED
      BY <1>3, <2>2, <3>1
  <2>4. QED
    BY <1>6, <2>1, <2>3
<1> HIDE DEF IsMined
<1>10. QED
  BY <1>6, <1>7, <1>8, <1>9, HeldKept DEF Next

\* The state from which a connect starts a thread is set by the thread's end.
LEMMA ThreadInvariance ==
  ASSUME IInv, [Next]_vars
  PROVE  OneThread'
<1> USE DEF IInv
<1>1. OneThread /\ (ThreadStart \/ Connect \/ Disconnect \/ ThreadEnd => OneThread')
  BY DEF OneThread, Startable, ThreadStart, Connect, Disconnect, Stopped, ThreadEnd
<1>2. Poll \/ SignAssign \/ Submit \/ UNCHANGED vars => UNCHANGED <<state, thread>>
  BY DEF Poll, SignAssign, Submit, vars, node
<1>3. /\ \A w \in Wallet : CreateTransaction(w) => UNCHANGED <<state, thread>>
      /\ \A hs \in Block : Mine(hs) => UNCHANGED <<state, thread>>
      /\ \A n \in nonces : TestNonce(n) => UNCHANGED <<state, thread>>
      /\ \A n \in raising : WriteNonce(n) => UNCHANGED <<state, thread>>
      /\ \A a \in answers : AnnounceSubmitTransaction(a) => UNCHANGED <<state, thread>>
  BY DEF CreateTransaction, Mine, TestNonce, WriteNonce, AnnounceSubmitTransaction, node
<1>4. \A h \in Hash : AnnounceTransaction(h) \/ AnnounceLog(h) => UNCHANGED <<state, thread>>
  BY DEF AnnounceTransaction, AnnounceLog, Announced, node
<1>5. UNCHANGED <<state, thread>> => OneThread'
  BY DEF OneThread
<1>6. QED
  BY <1>1, <1>2, <1>3, <1>4, <1>5 DEF Next

-----------------------------------------------------------------------------
(* Hashes: who holds which, and which answers are still to come.           *)

\* what the network has taken
Known == With("pending") \cup Mined

\* HeldOnce of one list, by its members
HeldOnceIn(w, list, ts) ==
  \A t, u \in Members(list) :
    t # u /\ ts[t].hash # NoHash /\ ts[t].hash = ts[u].hash =>
      w = "token" /\ ts[t].made # ts[u].made

\* HeldOnce, one wallet at a time.
LEMMA HeldOnceParts ==
  ASSUME TypeOK, ListedOnce
  PROVE  HeldOnce <=> \A w \in Wallet : HeldOnceIn(w, wallets[w], transactions)
<1>1. \A w \in Wallet : DOMAIN wallets[w] = 1..Len(wallets[w])
  BY ListTypes
<1>2. ASSUME HeldOnce, NEW w \in Wallet PROVE HeldOnceIn(w, wallets[w], transactions)
  BY <1>1, <1>2 DEF HeldOnce, HeldOnceIn, Members
<1>3. ASSUME \A w \in Wallet : HeldOnceIn(w, wallets[w], transactions) PROVE HeldOnce
  <2> SUFFICES ASSUME NEW w \in Wallet, NEW i \in DOMAIN wallets[w], NEW j \in DOMAIN wallets[w],
                      i # j, transactions[wallets[w][i]].hash # NoHash,
                      transactions[wallets[w][i]].hash = transactions[wallets[w][j]].hash
               PROVE  /\ w = "token"
                      /\ transactions[wallets[w][i]].made # transactions[wallets[w][j]].made
    BY DEF HeldOnce
  <2>1. wallets[w][i] \in Members(wallets[w]) /\ wallets[w][j] \in Members(wallets[w])
    BY <1>1 DEF Members
  <2>2. wallets[w][i] # wallets[w][j]
    BY DEF ListedOnce
  <2>3. QED
    BY <1>3, <2>1, <2>2 DEF HeldOnceIn
<1>4. QED
  BY <1>2, <1>3

\* Both are in the ether wallet.
BothEther(t, u) == t \in Members(wallets["ether"]) /\ u \in Members(wallets["ether"])

\* AnswersOK with the members of the list.
LEMMA AnswersOKParts ==
  ASSUME TypeOK
  PROVE  AnswersOK <=>
           \A answer \in answers :
             /\ transactions[answer.tid].made = "app"
             /\ answer.hash \in Known /\ chain[answer.hash].nonce = transactions[answer.tid].nonce
             /\ \A other \in answers : other.hash = answer.hash => other = answer
             /\ \A t \in Tid : transactions[t].hash = answer.hash =>
                  transactions[t].made = "announced" /\ ~ BothEther(t, answer.tid)
<1>1. ToSet(wallets["ether"]) = Members(wallets["ether"])
  BY ListTypes DEF ToSet, Members, Wallet
<1>2. QED
  BY <1>1 DEF AnswersOK, Known, BothEther

\* The same of the next state.
LEMMA AnswersOKNext ==
  ASSUME TypeOK'
  PROVE  (AnswersOK <=>
            \A answer \in answers :
              /\ transactions[answer.tid].made = "app"
              /\ answer.hash \in Known /\ chain[answer.hash].nonce = transactions[answer.tid].nonce
              /\ \A other \in answers : other.hash = answer.hash => other = answer
              /\ \A t \in Tid : transactions[t].hash = answer.hash =>
                   transactions[t].made = "announced" /\ ~ BothEther(t, answer.tid))'
BY AnswersOKParts, PTL

\* A step that gives no hash: what holds of the hashes goes on to hold.
LEMMA HashesKept ==
  ASSUME IInv, TypeOK', ListedOnce', Tid' = Tid, answers' = answers,
         \A t \in Tid : /\ transactions'[t].made = transactions[t].made
                        /\ transactions'[t].ours = transactions[t].ours
                        /\ transactions'[t].hash = transactions[t].hash,
         \A w \in Wallet : Members(wallets'[w]) = Members(wallets[w]),
         \A h \in Known : h \in Known',
         \A a \in answers : chain'[a.hash].nonce = transactions'[a.tid].nonce
  PROVE  HashesOK' /\ AnswersOK' /\ HeldOnce'
<1> USE DEF IInv
<1>1. HashesOK'
  BY DEF HashesOK, Known
<1>2. \A a \in answers : a.tid \in Tid
  BY DEF TypeOK
<1>3. "ether" \in Wallet
  BY DEF Wallet
<1>4. AnswersOK'
  <2>1. (AnswersOK <=>
           \A answer \in answers :
             /\ transactions[answer.tid].made = "app"
             /\ answer.hash \in Known /\ chain[answer.hash].nonce = transactions[answer.tid].nonce
             /\ \A other \in answers : other.hash = answer.hash => other = answer
             /\ \A t \in Tid : transactions[t].hash = answer.hash =>
                  transactions[t].made = "announced" /\ ~ BothEther(t, answer.tid))'
    BY AnswersOKNext
  <2>2. \A t, u : BothEther(t, u)' <=> BothEther(t, u)
    BY <1>3 DEF BothEther
  <2>3. QED
    BY <1>2, <2>1, <2>2, AnswersOKParts
<1>5. HeldOnce'
  <2>1. (HeldOnce <=> \A w \in Wallet : HeldOnceIn(w, wallets[w], transactions))'
    BY HeldOnceParts, PTL
  <2>2. ASSUME NEW w \in Wallet PROVE HeldOnceIn(w, wallets'[w], transactions')
    <3>1. HeldOnceIn(w, wallets[w], transactions)
      BY HeldOnceParts
    <3>2. Members(wallets'[w]) = Members(wallets[w]) /\ Members(wallets[w]) \subseteq Tid
      <4>1. wallets[w] \in Seq(Tid)
        BY ListTypes
      <4>2. QED
        BY <4>1 DEF Members
    <3>3. QED
      BY <3>1, <3>2 DEF HeldOnceIn
  <2>3. QED
    BY <2>1, <2>2
<1>6. QED
  BY <1>1, <1>4, <1>5

\* A transaction that is added has no hash yet, or the hash of an announcement that
\* nothing in its wallet was taken for.
LEMMA HashAdded ==
  ASSUME IInv, TypeOK', ListedOnce', NEW tid, tid \notin Tid, Tid' = Tid \cup {tid},
         answers' = answers, chain' = chain,
         \A t \in Tid : transactions'[t] = transactions[t],
         \A w \in Wallet : Members(wallets'[w]) \subseteq Members(wallets[w]) \cup {tid},
         \/ /\ transactions'[tid].made = "app" /\ transactions'[tid].ours
            /\ transactions'[tid].hash = NoHash
         \/ \E h \in Mined :
              /\ transactions'[tid].made = "announced" /\ transactions'[tid].hash = h
              /\ \A w \in Wallet : tid \in Members(wallets'[w]) => Unmatched(w, h)
  PROVE  HashesOK' /\ AnswersOK' /\ HeldOnce'
<1> USE DEF IInv
<1>1. Known' = Known /\ Mined \subseteq Known
  BY DEF Known, With, Mined
<1>2. \A a \in answers : a.tid \in Tid /\ a.hash \in Ours /\ a.hash # NoHash
  BY HashAssumption DEF TypeOK
<1>3. "ether" \in Wallet /\ \A w \in Wallet : Members(wallets[w]) \subseteq Tid
  BY ListTypes DEF Members, Wallet
<1>4. HashesOK'
  <2>1. ASSUME NEW t \in Tid'
        PROVE  /\ transactions'[t].made = "app" => transactions'[t].ours
               /\ transactions'[t].hash # NoHash => transactions'[t].hash \in Known'
    <3>1. CASE t \in Tid
      BY <1>1, <3>1 DEF HashesOK, Known
    <3>2. CASE t = tid
      BY <1>1, <3>2
    <3>3. QED
      BY <3>1, <3>2
  <2>2. ASSUME NEW t \in Tid', NEW u \in Tid', t # u, transactions'[t].made = "app",
               transactions'[u].made = "app", transactions'[t].hash # NoHash
        PROVE  transactions'[t].hash # transactions'[u].hash
    <3>1. t # tid
      BY <2>2
    <3>2. CASE u = tid
      BY <2>2, <3>2
    <3>3. CASE u # tid
      BY <2>2, <3>1, <3>3 DEF HashesOK
    <3>4. QED
      BY <3>2, <3>3
  <2>3. QED
    BY <2>1, <2>2 DEF HashesOK, Known
<1>5. AnswersOK'
  <2>1. (AnswersOK <=>
           \A answer \in answers :
             /\ transactions[answer.tid].made = "app"
             /\ answer.hash \in Known /\ chain[answer.hash].nonce = transactions[answer.tid].nonce
             /\ \A other \in answers : other.hash = answer.hash => other = answer
             /\ \A t \in Tid : transactions[t].hash = answer.hash =>
                  transactions[t].made = "announced" /\ ~ BothEther(t, answer.tid))'
    BY AnswersOKNext
  <2>2. ASSUME NEW a \in answers
        PROVE  /\ transactions[a.tid].made = "app"
               /\ a.hash \in Known /\ chain[a.hash].nonce = transactions[a.tid].nonce
               /\ \A b \in answers : b.hash = a.hash => b = a
               /\ \A t \in Tid : transactions[t].hash = a.hash =>
                    transactions[t].made = "announced" /\ ~ BothEther(t, a.tid)
    BY AnswersOKParts
  <2>3. ASSUME NEW a \in answers, NEW t \in Tid', transactions'[t].hash = a.hash
        PROVE  transactions'[t].made = "announced" /\ ~ BothEther(t, a.tid)'
    <3>1. CASE t \in Tid
      <4>1. t # tid /\ a.tid # tid
        BY <1>2, <3>1
      <4>2. BothEther(t, a.tid)' => BothEther(t, a.tid)
        BY <1>3, <4>1 DEF BothEther
      <4>3. QED
        BY <2>2, <2>3, <3>1, <4>2
    <3>2. CASE t = tid
      <4>1. /\ a.hash \in Mined /\ transactions'[tid].made = "announced"
            /\ \A w \in Wallet : tid \in Members(wallets'[w]) => Unmatched(w, a.hash)
        BY <1>2, <2>3, <3>2
      <4>2. ASSUME BothEther(tid, a.tid)' PROVE FALSE
        <5>1. tid \in Members(wallets'["ether"]) /\ a.tid \in Members(wallets["ether"])
          BY <1>2, <1>3, <4>2 DEF BothEther
        <5>2. Unmatched("ether", a.hash)
          BY <1>3, <4>1, <5>1
        <5>3. transactions[a.tid].ours
          BY <1>2, <2>2 DEF HashesOK
        <5>4. QED
          BY <1>2, <2>2, <5>1, <5>2, <5>3 DEF Unmatched
      <4>3. QED
        BY <3>2, <4>1, <4>2
    <3>3. QED
      BY <3>1, <3>2
  <2>4. QED
    BY <1>1, <1>2, <2>1, <2>2, <2>3
<1>6. HeldOnce'
  <2>1. (HeldOnce <=> \A w \in Wallet : HeldOnceIn(w, wallets[w], transactions))'
    BY HeldOnceParts, PTL
  <2>2. ASSUME NEW w \in Wallet, NEW t \in Members(wallets'[w]), t \in Tid,
               tid \in Members(wallets'[w]), transactions'[tid].hash # NoHash
        PROVE  transactions[t].hash # transactions'[tid].hash
    <3>1. t \in Members(wallets[w])
      BY <2>2
    <3>2. Unmatched(w, transactions'[tid].hash)
      BY <2>2
    <3>3. QED
      BY <3>1, <3>2 DEF Unmatched
  <2>3. ASSUME NEW w \in Wallet, NEW t \in Members(wallets'[w]), NEW u \in Members(wallets'[w]),
               t # u, transactions'[t].hash # NoHash, transactions'[t].hash = transactions'[u].hash
        PROVE  w = "token" /\ transactions'[t].made # transactions'[u].made
    <3>1. t \in Tid \/ t = tid
      BY <1>3
    <3>2. u \in Tid \/ u = tid
      BY <1>3
    <3>3. CASE t \in Tid /\ u \in Tid
      <4>1. t \in Members(wallets[w]) /\ u \in Members(wallets[w])
        BY <3>3
      <4>2. HeldOnceIn(w, wallets[w], transactions)
        BY HeldOnceParts
      <4>3. QED
        BY <2>3, <3>3, <4>1, <4>2 DEF HeldOnceIn
    <3>4. CASE t = tid /\ u \in Tid
      BY <2>2, <2>3, <3>4
    <3>5. CASE t \in Tid /\ u = tid
      BY <2>2, <2>3, <3>5
    <3>6. QED
      BY <2>3, <3>1, <3>2, <3>3, <3>4, <3>5
  <2>4. QED
    BY <2>1, <2>3 DEF HeldOnceIn
<1>7. QED
  BY <1>4, <1>5, <1>6

\* What the network keeps of the hashes that it knows.
LEMMA KnownKept ==
  ASSUME TypeOK, AnnouncedIsMined, NEW hs \in Block, Mine(hs)
  PROVE  \A h \in Known : h \in Known' /\ (h \in Ours => chain'[h].nonce = chain[h].nonce)
<1>1. /\ \A h \in Mined : h \in Mined' /\ chain'[h] = chain[h]
      /\ \A h \in With("pending") : /\ h \in (With("pending") \cup Mined)'
                                    /\ h \in Ours => chain'[h].nonce = chain[h].nonce
  BY MineKeeps
<1>2. QED
  BY <1>1 DEF Known

\* Whatever comes, in whatever order: no hash is held that the network does not know,
\* no answer is for a hash that the submission's wallet shows already, and none is
\* held twice but by the one exception.
LEMMA HashInvariance ==
  ASSUME IInv, [Next]_vars, TypeOK', ListedOnce'
  PROVE  HashesOK' /\ AnswersOK' /\ HeldOnce'
<1> USE DEF IInv
<1> DEFINE Goal == HashesOK' /\ AnswersOK' /\ HeldOnce'
<1>1. \A t \in Tid : transactions[t] \in Transaction
  BY ListTypes
<1>2. \A a \in answers : a.tid \in Tid /\ a.hash \in Ours /\ a.hash \in Known
                         /\ chain[a.hash].nonce = transactions[a.tid].nonce
  BY AnswersOKParts DEF TypeOK
<1>3. ASSUME UNCHANGED <<held, answers, chain>> PROVE Goal
  <2>1. Tid' = Tid /\ Known' = Known
    BY <1>3 DEF held, Tid, Known, With, Mined
  <2>2. QED
    BY <1>2, <1>3, <2>1, HashesKept DEF held
<1>4. ASSUME NEW hs \in Block, Mine(hs) PROVE Goal
  <2>1. UNCHANGED held /\ answers' = answers
    BY <1>4 DEF Mine
  <2>2. Tid' = Tid
    BY <2>1 DEF held, Tid
  <2>3. \A h \in Known : h \in Known'
    BY <1>4, KnownKept
  <2>4. \A a \in answers : chain'[a.hash].nonce = transactions'[a.tid].nonce
    BY <1>2, <1>4, <2>1, KnownKept DEF held
  <2>5. QED
    BY <2>1, <2>2, <2>3, <2>4, HashesKept DEF held
<1>5. ASSUME NEW w \in Wallet, CreateTransaction(w) PROVE Goal
  <2> DEFINE tid == Len(transactions) + 1
  <2>1. /\ tid \notin Tid /\ Tid' = Tid \cup {tid}
        /\ \A t \in Tid : transactions'[t] = transactions[t]
        /\ transactions'[tid].made = "app" /\ transactions'[tid].ours
        /\ transactions'[tid].hash = NoHash
        /\ \A v \in Wallet \ {w} : wallets'[v] = wallets[v]
        /\ wallets'[w] = InsertedSorted(wallets[w], tid, transactions')
        /\ wallets[w] \in Seq(1..Len(transactions')) /\ tid \in 1..Len(transactions')
    BY <1>5, Created
  <2>2. transactions' \in Seq(Transaction)
    BY DEF TypeOK
  <2>3. UNCHANGED <<answers, chain>>
    BY <1>5 DEF CreateTransaction, network
  <2> HIDE DEF tid
  <2>4. Members(wallets'[w]) = Members(wallets[w]) \cup {tid}
    BY <2>1, <2>2, InsertedKeeps
  <2>5. \A v \in Wallet : Members(wallets'[v]) \subseteq Members(wallets[v]) \cup {tid}
    BY <2>1, <2>4
  <2>6. QED
    BY <2>1, <2>3, <2>5, HashAdded
<1>6. ASSUME SignAssign PROVE Goal
  <2> DEFINE r == [transactions[signer.tid] EXCEPT !.nonce = signer.read, !.windowed = raising # {}]
  <2>1. /\ signer.tid \in Tid /\ transactions' = [transactions EXCEPT ![signer.tid] = r]
        /\ UNCHANGED <<wallets, answers, chain>>
        /\ \A a \in answers : a.tid # signer.tid
    BY <1>6 DEF SignAssign, SignerOK, network
  <2>2. /\ r.made = transactions[signer.tid].made /\ r.ours = transactions[signer.tid].ours
        /\ r.hash = transactions[signer.tid].hash
    BY <1>1, <2>1 DEF Transaction
  <2> HIDE DEF r
  <2>3. /\ Tid' = Tid
        /\ \A t \in Tid : transactions'[t] = IF t = signer.tid THEN r ELSE transactions[t]
    BY <2>1, ListTypes DEF Tid
  <2>4. /\ \A t \in Tid : /\ transactions'[t].made = transactions[t].made
                          /\ transactions'[t].ours = transactions[t].ours
                          /\ transactions'[t].hash = transactions[t].hash
        /\ \A a \in answers : transactions'[a.tid].nonce = transactions[a.tid].nonce
    BY <1>2, <2>1, <2>2, <2>3
  <2>5. Known' = Known
    BY <2>1 DEF Known, With, Mined
  <2>6. QED
    BY <1>2, <2>1, <2>3, <2>4, <2>5, HashesKept
<1>7. ASSUME Submit PROVE Goal
  <2>1. signer.tid \in Tid /\ transactions[signer.tid].made = "app" /\ wallets' = wallets
    BY <1>7 DEF Submit, SignerOK
  <2>2. /\ Tid' = Tid
        /\ \A t \in Tid : /\ transactions'[t].made = transactions[t].made
                          /\ transactions'[t].ours = transactions[t].ours
                          /\ transactions'[t].hash = transactions[t].hash
                          /\ transactions'[t].nonce = transactions[t].nonce
    <3> DEFINE r == [transactions[signer.tid] EXCEPT !.status = "SIGNED"]
    <3>1. transactions' = [transactions EXCEPT ![signer.tid] = r]
      BY <1>7 DEF Submit
    <3>2. /\ r.made = transactions[signer.tid].made /\ r.ours = transactions[signer.tid].ours
          /\ r.hash = transactions[signer.tid].hash /\ r.nonce = transactions[signer.tid].nonce
      BY <1>1, <2>1 DEF Transaction
    <3> HIDE DEF r
    <3>3. /\ Tid' = Tid
          /\ \A t \in Tid : transactions'[t] = IF t = signer.tid THEN r ELSE transactions[t]
      BY <2>1, <3>1, ListTypes DEF Tid
    <3>4. QED
      BY <3>2, <3>3
  <2>3. CASE UNCHANGED network
    <3>1. Known' = Known
      BY <2>3 DEF network, Known, With, Mined
    <3>2. QED
      BY <1>2, <2>1, <2>2, <2>3, <3>1, HashesKept DEF network
  <2>4. CASE ~ UNCHANGED network
    <3> DEFINE n == transactions[signer.tid].nonce
    <3>1. PICK h \in Ours :
            /\ Fresh(h)
            /\ chain' = [chain EXCEPT ![h].status = "pending", ![h].nonce = n]
            /\ answers' = answers \cup {[tid |-> signer.tid, hash |-> h]}
      BY <1>7, <2>4 DEF Submit
    <3>2. h \in Hash /\ h \notin Known /\ h # NoHash
      BY <3>1, HashAssumption DEF Fresh, Known, With, Mined
    <3>3. /\ \A g \in Hash \ {h} : chain'[g] = chain[g]
          /\ chain'[h].status = "pending" /\ chain'[h].nonce = n
      BY <3>1, <3>2 DEF TypeOK
    <3>4. Known' = Known \cup {h}
      BY <3>2, <3>3 DEF Known, With, Mined
    <3>5. \A t \in Tid : transactions[t].hash # h
      BY <3>2 DEF HashesOK, Known
    <3> DEFINE new == [tid |-> signer.tid, hash |-> h]
    <3>6. \A a \in answers' : a \in answers \/ a = new
      BY <3>1
    <3>7. \A t, u : BothEther(t, u)' <=> BothEther(t, u)
      BY <2>1 DEF BothEther
    <3>8. \A a \in answers : a.hash # h /\ a.hash \in Hash
      BY <1>2, <3>2, HashAssumption
    <3>9. HashesOK'
      BY <2>2, <3>4 DEF HashesOK, Known
    <3>10. AnswersOK'
      <4>1. ASSUME NEW a \in answers
            PROVE  /\ transactions'[a.tid].made = "app"
                   /\ a.hash \in Known' /\ chain'[a.hash].nonce = transactions'[a.tid].nonce
                   /\ \A b \in answers' : b.hash = a.hash => b = a
                   /\ \A t \in Tid' : transactions'[t].hash = a.hash =>
                        transactions'[t].made = "announced" /\ ~ BothEther(t, a.tid)'
        <5>1. /\ transactions[a.tid].made = "app"
              /\ a.hash \in Known /\ chain[a.hash].nonce = transactions[a.tid].nonce
              /\ \A b \in answers : b.hash = a.hash => b = a
              /\ \A t \in Tid : transactions[t].hash = a.hash =>
                   transactions[t].made = "announced" /\ ~ BothEther(t, a.tid)
          BY AnswersOKParts
        <5>2. chain'[a.hash] = chain[a.hash] /\ new.hash = h
          BY <3>3, <3>8
        <5>3. QED
          BY <1>2, <2>2, <3>4, <3>6, <3>7, <3>8, <5>1, <5>2
      <4>2. /\ new.tid = signer.tid /\ new.hash = h
            /\ transactions'[new.tid].made = "app"
            /\ new.hash \in Known' /\ chain'[new.hash].nonce = transactions'[new.tid].nonce
            /\ \A b \in answers' : b.hash = new.hash => b = new
            /\ \A t \in Tid' : transactions'[t].hash # new.hash
        BY <2>1, <2>2, <3>3, <3>4, <3>5, <3>6, <3>8
      <4>3. (AnswersOK <=>
               \A answer \in answers :
                 /\ transactions[answer.tid].made = "app"
                 /\ answer.hash \in Known /\ chain[answer.hash].nonce = transactions[answer.tid].nonce
                 /\ \A other \in answers : other.hash = answer.hash => other = answer
                 /\ \A t \in Tid : transactions[t].hash = answer.hash =>
                      transactions[t].made = "announced" /\ ~ BothEther(t, answer.tid))'
        BY AnswersOKNext
      <4> HIDE DEF new
      <4>4. QED
        BY <3>6, <4>1, <4>2, <4>3
    <3>11. HeldOnce'
      <4>1. (HeldOnce <=> \A w \in Wallet : HeldOnceIn(w, wallets[w], transactions))'
        BY HeldOnceParts, PTL
      <4>2. ASSUME NEW w \in Wallet PROVE HeldOnceIn(w, wallets'[w], transactions')
        <5>1. HeldOnceIn(w, wallets[w], transactions) /\ Members(wallets[w]) \subseteq Tid
          BY HeldOnceParts, ListTypes DEF Members
        <5>2. QED
          BY <2>1, <2>2, <5>1 DEF HeldOnceIn
      <4>3. QED
        BY <4>1, <4>2
    <3>12. QED
      BY <3>9, <3>10, <3>11
  <2>5. QED
    BY <2>3, <2>4
<1>8. ASSUME NEW a \in answers, AnnounceSubmitTransaction(a) PROVE Goal
  <2> DEFINE r == [transactions[a.tid] EXCEPT !.status = "SUBMITTED", !.hash = a.hash]
  <2>1. /\ a.tid \in Tid /\ transactions' = [transactions EXCEPT ![a.tid] = r]
        /\ answers' = answers \ {a} /\ UNCHANGED <<wallets, chain>>
    BY <1>2, <1>8 DEF AnnounceSubmitTransaction
  <2>2. /\ r.made = transactions[a.tid].made /\ r.ours = transactions[a.tid].ours
        /\ r.hash = a.hash /\ r.nonce = transactions[a.tid].nonce
    BY <1>1, <2>1 DEF Transaction
  <2> HIDE DEF r
  <2>3. /\ Tid' = Tid
        /\ \A t \in Tid : transactions'[t] = IF t = a.tid THEN r ELSE transactions[t]
    BY <2>1, ListTypes DEF Tid
  <2>4. /\ \A t \in Tid : /\ transactions'[t].made = transactions[t].made
                          /\ transactions'[t].ours = transactions[t].ours
                          /\ transactions'[t].nonce = transactions[t].nonce
                          /\ t # a.tid => transactions'[t].hash = transactions[t].hash
        /\ transactions'[a.tid].hash = a.hash
    BY <2>1, <2>2, <2>3
  <2>5. \A b \in answers :
          /\ transactions[b.tid].made = "app"
          /\ b.hash \in Known /\ chain[b.hash].nonce = transactions[b.tid].nonce
          /\ \A c \in answers : c.hash = b.hash => c = b
          /\ \A t \in Tid : transactions[t].hash = b.hash =>
               transactions[t].made = "announced" /\ ~ BothEther(t, b.tid)
    BY AnswersOKParts
  <2>6. Known' = Known /\ \A t, u : BothEther(t, u)' <=> BothEther(t, u)
    BY <2>1 DEF Known, With, Mined, BothEther
  <2>7. HashesOK'
    <3>1. ASSUME NEW t \in Tid
          PROVE  /\ transactions'[t].made = "app" => transactions'[t].ours
                 /\ transactions'[t].hash # NoHash => transactions'[t].hash \in Known
      BY <1>2, <2>4 DEF HashesOK, Known
    <3>2. ASSUME NEW t \in Tid, NEW u \in Tid, t # u, transactions'[t].made = "app",
                 transactions'[u].made = "app"
          PROVE  transactions'[t].hash = NoHash \/ transactions'[t].hash # transactions'[u].hash
      <4>1. CASE t = a.tid
        BY <2>4, <2>5, <3>2, <4>1
      <4>2. CASE u = a.tid
        BY <2>4, <2>5, <3>2, <4>2
      <4>3. CASE t # a.tid /\ u # a.tid
        BY <2>4, <3>2, <4>3 DEF HashesOK
      <4>4. QED
        BY ONLY <4>1, <4>2, <4>3
    <3>3. QED
      BY <2>3, <2>6, <3>1, <3>2 DEF HashesOK, Known
  <2>8. AnswersOK'
    <3>1. (AnswersOK <=>
             \A answer \in answers :
               /\ transactions[answer.tid].made = "app"
               /\ answer.hash \in Known /\ chain[answer.hash].nonce = transactions[answer.tid].nonce
               /\ \A other \in answers : other.hash = answer.hash => other = answer
               /\ \A t \in Tid : transactions[t].hash = answer.hash =>
                    transactions[t].made = "announced" /\ ~ BothEther(t, answer.tid))'
      BY AnswersOKNext
    <3>2. ASSUME NEW b \in answers'
          PROVE  /\ transactions'[b.tid].made = "app"
                 /\ b.hash \in Known' /\ chain'[b.hash].nonce = transactions'[b.tid].nonce
                 /\ \A c \in answers' : c.hash = b.hash => c = b
                 /\ \A t \in Tid' : transactions'[t].hash = b.hash =>
                      transactions'[t].made = "announced" /\ ~ BothEther(t, b.tid)'
      <4>1. b \in answers /\ b.hash # a.hash /\ b.tid \in Tid
        BY <1>2, <2>1, <2>5
      <4>2. QED
        BY <2>1, <2>3, <2>4, <2>5, <2>6, <4>1
    <3>3. QED
      BY <3>1, <3>2
  <2>9. HeldOnce'
    <3>1. (HeldOnce <=> \A w \in Wallet : HeldOnceIn(w, wallets[w], transactions))'
      BY HeldOnceParts, PTL
    <3>2. ASSUME NEW w \in Wallet, NEW t \in Members(wallets[w]), NEW u \in Members(wallets[w]),
                 t # u, transactions'[t].hash # NoHash, transactions'[t].hash = transactions'[u].hash
          PROVE  w = "token" /\ transactions'[t].made # transactions'[u].made
      <4>1. t \in Tid /\ u \in Tid
        BY ListTypes DEF Members
      <4>2. CASE t = a.tid
        <5>1. transactions[u].made = "announced" /\ ~ BothEther(u, t) /\ transactions[t].made = "app"
          BY <2>4, <2>5, <3>2, <4>1, <4>2
        <5>2. QED
          BY <2>4, <3>2, <4>1, <5>1 DEF BothEther, Wallet
      <4>3. CASE u = a.tid
        <5>1. transactions[t].made = "announced" /\ ~ BothEther(t, u) /\ transactions[u].made = "app"
          BY <2>4, <2>5, <3>2, <4>1, <4>3
        <5>2. QED
          BY <2>4, <3>2, <4>1, <5>1 DEF BothEther, Wallet
      <4>4. CASE t # a.tid /\ u # a.tid
        <5>1. HeldOnceIn(w, wallets[w], transactions)
          BY HeldOnceParts
        <5>2. QED
          BY <2>4, <3>2, <4>1, <4>4, <5>1 DEF HeldOnceIn
      <4>5. QED
        BY ONLY <4>2, <4>3, <4>4
    <3>3. QED
      BY <2>1, <3>1, <3>2 DEF HeldOnceIn
  <2>10. QED
    BY <2>7, <2>8, <2>9
<1>9. ASSUME NEW h \in Hash, AnnounceTransaction(h) \/ AnnounceLog(h) PROVE Goal
  <2>1. /\ UNCHANGED held \/ \E w \in Wallet : \E tid : Blocks(w, h, tid)
        /\ UNCHANGED network
        /\ \E w \in Wallet : <<w, h>> \in toAnnounce
    BY <1>9, AnnounceBlocks
  <2>2. h \in Mined /\ answers' = answers /\ chain' = chain
    BY <2>1 DEF AnnouncedIsMined, network
  <2>3. ASSUME NEW w \in Wallet, NEW tid, Blocks(w, h, tid), tid \in Tid PROVE Goal
    <3>1. /\ Tid' = Tid
          /\ \A t \in Tid : /\ transactions'[t].made = transactions[t].made
                            /\ transactions'[t].ours = transactions[t].ours
                            /\ transactions'[t].hash = transactions[t].hash
                            /\ transactions'[t].nonce = transactions[t].nonce
          /\ \A v \in Wallet : Members(wallets'[v]) = Members(wallets[v])
      BY <2>3 DEF Blocks
    <3>2. Known' = Known /\ \A a \in answers : chain'[a.hash].nonce = transactions'[a.tid].nonce
      BY <1>2, <2>2, <3>1 DEF Known, With, Mined
    <3>3. QED
      BY <2>2, <3>1, <3>2, HashesKept
  <2>4. ASSUME NEW w \in Wallet, NEW tid, Blocks(w, h, tid), tid \notin Tid PROVE Goal
    <3>1. /\ Tid' = Tid \cup {tid} /\ \A t \in Tid : transactions'[t] = transactions[t]
          /\ transactions'[tid].made = "announced" /\ transactions'[tid].hash = h
          /\ Unmatched(w, h)
          /\ \A v \in Wallet \ {w} : Members(wallets'[v]) = Members(wallets[v])
                                     /\ tid \notin Members(wallets[v])
          /\ Members(wallets'[w]) = Members(wallets[w]) \cup {tid}
      BY <2>4 DEF Blocks
    <3>2. \A v \in Wallet : Members(wallets'[v]) \subseteq Members(wallets[v]) \cup {tid}
      BY <3>1
    <3>3. \A v \in Wallet : tid \in Members(wallets'[v]) => Unmatched(v, h)
      BY <3>1
    <3>4. QED
      BY <2>2, <2>4, <3>1, <3>2, <3>3, HashAdded
  <2>5. QED
    BY <1>3, <2>1, <2>2, <2>3, <2>4
<1>10. \/ Connect \/ Disconnect \/ ThreadStart \/ Poll \/ ThreadEnd \/ UNCHANGED vars
       => UNCHANGED <<held, answers, chain>>
  BY DEF Connect, Disconnect, ThreadStart, Poll, ThreadEnd, vars, network
<1>11. /\ \A n \in nonces : TestNonce(n) => UNCHANGED <<held, answers, chain>>
       /\ \A n \in raising : WriteNonce(n) => UNCHANGED <<held, answers, chain>>
  BY DEF TestNonce, WriteNonce, network
<1> HIDE DEF Goal
<1>12. QED
  BY <1>3, <1>4, <1>5, <1>6, <1>7, <1>8, <1>9, <1>10, <1>11 DEF Next, Goal

-----------------------------------------------------------------------------
(* The theorems.                                                           *)

\* In every behaviour IInv holds: types, each transaction listed once, nonces
\* below what can become the next, and all the safety properties below.
THEOREM Invariance == Spec => []IInv
<1>1. Init => IInv
  BY InitIInv
<1>2. IInv /\ [Next]_vars => IInv'
  <2>1. ASSUME IInv, [Next]_vars PROVE TypeOK'
    BY <2>1, TypeInvariance
  <2>2. ASSUME IInv, [Next]_vars PROVE IInv'
    BY <2>1, <2>2, ListsInvariance, NonceInvariance, MinedInvariance, ThreadInvariance,
       HashInvariance DEF IInv
  <2>3. QED
    BY <2>2
<1>3. QED
  BY <1>1, <1>2, PTL DEF Spec

\* The blocked transactions of a wallet are listed in the order of the chain
\* (walletInsertTransactionSorted, walletUpdateTransactionSorted).
THEOREM BlockedAlwaysInOrder == Spec => []BlockedInOrder
<1>1. IInv => BlockedInOrder
  BY DEF IInv
<1>2. QED
  BY <1>1, Invariance, PTL

\* What is shown as blocked stands where the network mined it
\* (lightNodeAnnounceTransaction, lightNodeAnnounceLog).
THEOREM BlockedAlwaysMined == Spec => []BlockedIsMined
<1>1. IInv => BlockedIsMined
  BY DEF IInv
<1>2. QED
  BY <1>1, Invariance, PTL

\* Only a nonce given while addressSetNonce was between its test and its write
\* can be given twice (addressGetThenIncrementNonce).
THEOREM NonceGivenOnce == Spec => []NonceReuse
<1>1. IInv => NonceReuse
  BY DEF IInv
<1>2. QED
  BY <1>1, Invariance, PTL

\* No wallet holds two entries for one hash, but a token transfer whose log overtook
\* the answer to its submission (lightNodeAnnounceSubmitTransaction).
THEOREM HashHeldOnce == Spec => []HeldOnce
<1>1. IInv => HeldOnce
  BY DEF IInv
<1>2. QED
  BY <1>1, Invariance, PTL

\* No second polling thread is started (lightNodeConnect).
THEOREM NeverTwoThreads == Spec => []OneThread
<1>1. IInv => OneThread
  BY DEF IInv
<1>2. QED
  BY <1>1, Invariance, PTL

=============================================================================
