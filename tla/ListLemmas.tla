---------------------------- MODULE ListLemmas ----------------------------
(***************************************************************************)
(* Facts about the list operators that Wallet and LightNode keep their     *)
(* lists with, and about the extremes of sets of numbers they choose.      *)
(***************************************************************************)
EXTENDS Integers, SequencesExt, SequenceTheorems, WellFoundedInduction, TLAPS

-----------------------------------------------------------------------------
\* Every nonempty set of naturals has a least member: what justifies a CHOOSE of it.
LEMMA LeastNat ==
  ASSUME NEW S \in SUBSET Nat, S # {}
  PROVE  \E n \in S : \A m \in S : n <= m
<1> DEFINE Less == {p \in Nat \X Nat : p[1] < p[2]}
<1>1. IsWellFoundedOn(Less, Nat)
  BY NatLessThanWellFounded, Zenon DEF OpToRel
<1>2. PICK n \in S : \A m \in S : <<m, n>> \notin Less
  BY <1>1, WFMin, Zenon
<1>3. ASSUME NEW m \in S PROVE n <= m
  <2>1. m \in Nat /\ n \in Nat
    OBVIOUS
  <2>2. ~(m < n)
    BY <1>2, <2>1
  <2>3. QED
    BY ONLY <2>1, <2>2
<1>4. QED
  BY <1>3, Zenon

\* The members of a list.
LEMMA ToSetElements ==
  ASSUME NEW S, NEW s \in Seq(S)
  PROVE  \A x : x \in ToSet(s) <=> \E i \in 1..Len(s) : x = s[i]
BY DEF ToSet

\* Removing position i closes the gap and keeps the order.
LEMMA RemoveAtElements ==
  ASSUME NEW S, NEW s \in Seq(S), NEW i \in 1..Len(s)
  PROVE  /\ RemoveAt(s, i) \in Seq(S)
         /\ Len(RemoveAt(s, i)) = Len(s) - 1
         /\ \A k \in 1..(Len(s) - 1) : RemoveAt(s, i)[k] = IF k < i THEN s[k] ELSE s[k + 1]
<1> DEFINE p == SubSeq(s, 1, i - 1)
           q == SubSeq(s, i + 1, Len(s))
<1>1. p \in Seq(S) /\ Len(p) = i - 1
  OBVIOUS
<1>2. q \in Seq(S) /\ Len(q) = Len(s) - i
  OBVIOUS
<1>3. \A k \in 1..(i - 1) : p[k] = s[k]
  OBVIOUS
<1>4. \A k \in 1..(Len(s) - i) : q[k] = s[k + i]
  OBVIOUS
<1>5. RemoveAt(s, i) = p \o q
  BY DEF RemoveAt
<1> HIDE DEF p, q
<1>6. /\ p \o q \in Seq(S)
      /\ Len(p \o q) = Len(p) + Len(q)
      /\ \A k \in 1..(Len(p) + Len(q)) : (p \o q)[k] = IF k <= Len(p) THEN p[k] ELSE q[k - Len(p)]
  BY <1>1, <1>2, ConcatProperties
<1>7. ASSUME NEW k \in 1..(Len(s) - 1)
      PROVE  (p \o q)[k] = IF k < i THEN s[k] ELSE s[k + 1]
  <2>1. CASE k < i
    BY <1>1, <1>2, <1>3, <1>6, <2>1
  <2>2. CASE k >= i
    <3>1. (p \o q)[k] = q[k - (i - 1)]
      BY <1>1, <1>2, <1>6, <2>2
    <3>2. k - (i - 1) \in 1..(Len(s) - i) /\ (k - (i - 1)) + i = k + 1
      BY <2>2
    <3>3. q[k - (i - 1)] = s[k + 1]
      BY <1>4, <3>2
    <3>4. QED
      BY <2>2, <3>1, <3>3
  <2>3. k < i \/ k >= i
    OBVIOUS
  <2>4. QED
    BY ONLY <2>1, <2>2, <2>3
<1>8. QED
  BY <1>1, <1>2, <1>5, <1>6, <1>7

\* Inserting before position k + 1 moves what follows and keeps the order.
LEMMA InsertAtElements ==
  ASSUME NEW S, NEW s \in Seq(S), NEW e \in S, NEW k \in 0..Len(s)
  PROVE  /\ InsertAt(s, k + 1, e) \in Seq(S)
         /\ Len(InsertAt(s, k + 1, e)) = Len(s) + 1
         /\ \A i \in 1..(Len(s) + 1) :
              InsertAt(s, k + 1, e)[i] = IF i <= k THEN s[i] ELSE IF i = k + 1 THEN e ELSE s[i - 1]
<1> DEFINE l == SubSeq(s, 1, k)
           m == SubSeq(s, k + 1, Len(s))
           lm == l \o <<e>>
<1>1. l \in Seq(S) /\ Len(l) = k
  OBVIOUS
<1>2. m \in Seq(S) /\ Len(m) = Len(s) - k
  OBVIOUS
<1>3. \A i \in 1..k : l[i] = s[i]
  OBVIOUS
<1>4. \A i \in 1..(Len(s) - k) : m[i] = s[i + k]
  OBVIOUS
<1>5. InsertAt(s, k + 1, e) = lm \o m
  <2>1. (k + 1) - 1 = k
    OBVIOUS
  <2>2. QED
    BY <2>1 DEF InsertAt
<1>6. <<e>> \in Seq(S) /\ Len(<<e>>) = 1 /\ <<e>>[1] = e
  OBVIOUS
<1> HIDE DEF l, m
<1>7. /\ l \o <<e>> \in Seq(S)
      /\ Len(l \o <<e>>) = Len(l) + Len(<<e>>)
      /\ \A i \in 1..(Len(l) + Len(<<e>>)) :
           (l \o <<e>>)[i] = IF i <= Len(l) THEN l[i] ELSE <<e>>[i - Len(l)]
  BY <1>1, <1>6, ConcatProperties
<1>8. lm \in Seq(S) /\ Len(lm) = k + 1 /\ lm[k + 1] = e /\ \A i \in 1..k : lm[i] = s[i]
  <2>1. lm \in Seq(S) /\ Len(lm) = k + 1
    BY <1>1, <1>6, <1>7
  <2>2. lm[k + 1] = e
    BY <1>1, <1>6, <1>7
  <2>3. \A i \in 1..k : lm[i] = s[i]
    BY <1>1, <1>3, <1>6, <1>7
  <2>4. QED
    BY <2>1, <2>2, <2>3
<1> HIDE DEF lm
<1>9. /\ lm \o m \in Seq(S)
      /\ Len(lm \o m) = Len(lm) + Len(m)
      /\ \A i \in 1..(Len(lm) + Len(m)) :
           (lm \o m)[i] = IF i <= Len(lm) THEN lm[i] ELSE m[i - Len(lm)]
  BY <1>2, <1>8, ConcatProperties
<1>10. ASSUME NEW i \in 1..(Len(s) + 1)
       PROVE  (lm \o m)[i] = IF i <= k THEN s[i] ELSE IF i = k + 1 THEN e ELSE s[i - 1]
  <2>1. CASE i <= k + 1
    BY <1>2, <1>8, <1>9, <2>1
  <2>2. CASE i > k + 1
    <3>1. (lm \o m)[i] = m[i - (k + 1)]
      BY <1>2, <1>8, <1>9, <2>2
    <3>2. i - (k + 1) \in 1..(Len(s) - k) /\ (i - (k + 1)) + k = i - 1
      BY <2>2
    <3>3. m[i - (k + 1)] = s[i - 1]
      BY <1>4, <3>2
    <3>4. ~(i <= k) /\ i # k + 1
      BY <2>2
    <3>5. QED
      BY ONLY <3>1, <3>3, <3>4
  <2>3. i <= k + 1 \/ i > k + 1
    OBVIOUS
  <2>4. QED
    BY ONLY <2>1, <2>2, <2>3
<1>11. Len(lm \o m) = Len(s) + 1
  BY <1>2, <1>8, <1>9
<1>12. QED
  BY <1>5, <1>9, <1>10, <1>11

\* A set of numbers up to n that has a member has a greatest.
LEMMA GreatestNat ==
  ASSUME NEW n \in Nat, NEW S \in SUBSET (0..n), S # {}
  PROVE  \E m \in S : \A k \in S : k <= m
<1> DEFINE T == {n - k : k \in S}
<1>1. T \in SUBSET Nat
  OBVIOUS
<1>2. T # {}
  OBVIOUS
<1> HIDE DEF T
<1>3. PICK t \in T : \A u \in T : t <= u
  BY <1>1, <1>2, LeastNat
<1>4. PICK m \in S : t = n - m
  BY DEF T
<1>5. ASSUME NEW k \in S PROVE k <= m
  <2>1. n - k \in T
    BY DEF T
  <2>2. n - m <= n - k
    BY <1>3, <1>4, <2>1
  <2>3. QED
    BY <2>2, k \in 0..n, m \in 0..n
<1>6. QED
  BY <1>5

=============================================================================
