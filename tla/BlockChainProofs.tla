--------------------------- MODULE BlockChainProofs ---------------------------
(***************************************************************************)
(* Invariants of BlockChain for every tree of blocks, any number of peers, *)
(* rescans and restarts.                                                   *)
(***************************************************************************)
EXTENDS BlockChain, ListLemmas, SequenceTheorems, TLAPS

-----------------------------------------------------------------------------
(***************************************************************************)
(* Walking back along a branch.                                            *)
(***************************************************************************)

LEMMA AncestorsDef ==
  ASSUME NEW b \in Block
  PROVE  /\ Ancestors[b] \subseteq Block
         /\ \A a \in Block : a \in Ancestors[b] <=>
              \A S \in SUBSET Block : b \in S /\ ClosedUnderPrev(S) => a \in S
BY DEF Ancestors

\* An ancestor is in every set that holds the block and its members' parents:
\* the induction along a branch.
LEMMA AncestorIn ==
  ASSUME NEW b \in Block, NEW a \in Ancestors[b], NEW S \in SUBSET Block,
         b \in S, \A c \in S : Prev[c] # NoBlock => Prev[c] \in S
  PROVE  a \in S
BY AncestorsDef DEF ClosedUnderPrev

LEMMA SelfAncestor ==
  ASSUME NEW b \in Block
  PROVE  b \in Ancestors[b]
BY AncestorsDef

LEMMA ParentAncestor ==
  ASSUME NEW b \in Block, NEW a \in Ancestors[b], Prev[a] # NoBlock
  PROVE  Prev[a] \in Ancestors[b]
<1>1. a \in Block /\ Prev[a] \in Block
  BY AncestorsDef, BlockChainAssumption
<1>2. ASSUME NEW S \in SUBSET Block, b \in S, ClosedUnderPrev(S)
      PROVE  Prev[a] \in S
  <2>1. a \in S
    BY <1>1, <1>2, AncestorsDef
  <2>2. QED
    BY <1>2, <2>1 DEF ClosedUnderPrev
<1>3. QED
  BY <1>1, <1>2, AncestorsDef

\* No ancestor is higher.
LEMMA AncestorLower ==
  ASSUME NEW b \in Block, NEW a \in Ancestors[b]
  PROVE  Height[a] <= Height[b]
<1> DEFINE S == {c \in Block : Height[c] <= Height[b]}
<1>1. b \in S
  BY BlockChainAssumption
<1>2. ASSUME NEW c \in S, Prev[c] # NoBlock PROVE Prev[c] \in S
  <2>1. Prev[c] \in Block /\ Height[c] = Height[Prev[c]] + 1
    BY <1>2, BlockChainAssumption
  <2>2. Height[c] \in Nat /\ Height[Prev[c]] \in Nat /\ Height[b] \in Nat
    BY <2>1, BlockChainAssumption
  <2>3. QED
    BY <2>1, <2>2
<1>3. a \in S
  <2> HIDE DEF S
  <2>1. S \in SUBSET Block
    BY DEF S
  <2>2. QED
    BY <1>1, <1>2, <2>1, AncestorIn
<1>4. QED
  BY <1>3

\* Whoever is an ancestor of a block is the block or an ancestor of its parent.
LEMMA AncestorOfParent ==
  ASSUME NEW c \in Block, NEW a \in Ancestors[c], a # c, Prev[c] # NoBlock
  PROVE  a \in Ancestors[Prev[c]]
<1>1. Prev[c] \in Block
  BY BlockChainAssumption
<1> DEFINE S == {c} \cup Ancestors[Prev[c]]
<1>2. c \in S /\ S \in SUBSET Block
  BY <1>1, AncestorsDef
<1>3. ASSUME NEW d \in S, Prev[d] # NoBlock PROVE Prev[d] \in S
  BY <1>1, <1>3, SelfAncestor, ParentAncestor
<1>4. a \in S
  <2> HIDE DEF S
  <2>1. QED
    BY <1>2, <1>3, AncestorIn
<1>5. QED
  BY <1>4

\* A block without a parent is the lowest of every branch it is on.
LEMMA RootIsLowest ==
  ASSUME NEW b \in Block, NEW a \in Ancestors[b], Prev[a] = NoBlock,
         NEW s \in Ancestors[b]
  PROVE  Height[a] <= Height[s]
<1> DEFINE S == {c \in Block : a \in Ancestors[c]}
<1>1. b \in S /\ S \in SUBSET Block
  OBVIOUS
<1>2. ASSUME NEW c \in S, Prev[c] # NoBlock PROVE Prev[c] \in S
  <2>1. a # c /\ Prev[c] \in Block
    BY <1>2, BlockChainAssumption
  <2>2. a \in Ancestors[Prev[c]]
    BY <1>2, <2>1, AncestorOfParent
  <2>3. QED
    BY <2>1, <2>2
<1>3. s \in S
  <2> HIDE DEF S
  <2>1. QED
    BY <1>1, <1>2, AncestorIn
<1>4. QED
  BY <1>3, AncestorLower

\* An ancestor of an ancestor is one.
LEMMA AncestorOfAncestor ==
  ASSUME NEW b \in Block, NEW j \in Ancestors[b], NEW a \in Ancestors[j]
  PROVE  a \in Ancestors[b]
<1>1. j \in Block /\ Ancestors[b] \in SUBSET Block
  BY AncestorsDef
<1>2. \A c \in Ancestors[b] : Prev[c] # NoBlock => Prev[c] \in Ancestors[b]
  BY ParentAncestor
<1>3. QED
  BY <1>1, <1>2, AncestorIn

\* Only the block itself is as high as the block.
LEMMA AncestorStrictlyLower ==
  ASSUME NEW b \in Block, NEW a \in Ancestors[b], a # b
  PROVE  Height[a] < Height[b]
<1>1. CASE Prev[b] = NoBlock
  <2>1. b \in {b} /\ {b} \in SUBSET Block /\ \A c \in {b} : Prev[c] # NoBlock => Prev[c] \in {b}
    BY <1>1
  <2>2. a \in {b}
    BY <2>1, AncestorIn
  <2>3. QED
    BY <2>2
<1>2. CASE Prev[b] # NoBlock
  <2>1. Prev[b] \in Block /\ Height[b] = Height[Prev[b]] + 1
    BY <1>2, BlockChainAssumption
  <2>2. a \in Ancestors[Prev[b]] /\ a \in Block
    BY <1>2, AncestorOfParent, AncestorsDef
  <2>3. Height[a] <= Height[Prev[b]]
    BY <2>1, <2>2, AncestorLower
  <2>4. Height[a] \in Nat /\ Height[b] \in Nat /\ Height[Prev[b]] \in Nat
    BY <2>1, <2>2, BlockChainAssumption
  <2>5. QED
    BY <2>1, <2>3, <2>4
<1>3. QED
  BY <1>1, <1>2

\* What a block builds on is a chain: of two ancestors the lower one is an ancestor
\* of the higher one.
LEMMA AncestorsAreChain ==
  ASSUME NEW b \in Block, NEW a \in Ancestors[b], NEW j \in Ancestors[b],
         Height[a] <= Height[j]
  PROVE  a \in Ancestors[j]
<1>1. a \in Block /\ j \in Block
  BY AncestorsDef
<1> DEFINE S == {c \in Block : j \in Ancestors[c] \/ c \in Ancestors[j]}
<1>2. b \in S /\ S \in SUBSET Block
  OBVIOUS
<1>3. ASSUME NEW c \in S, Prev[c] # NoBlock PROVE Prev[c] \in S
  <2>1. Prev[c] \in Block
    BY <1>3, BlockChainAssumption
  <2>2. CASE c \in Ancestors[j]
    BY <1>1, <1>3, <2>1, <2>2, ParentAncestor
  <2>3. CASE j \in Ancestors[c] /\ c # j
    BY <1>1, <1>3, <2>1, <2>3, AncestorOfParent
  <2>4. CASE c = j
    BY <1>1, <1>3, <2>1, <2>4, SelfAncestor, ParentAncestor
  <2>5. QED
    BY <2>2, <2>3, <2>4
<1>4. a \in S
  <2> HIDE DEF S
  <2>1. QED
    BY <1>2, <1>3, AncestorIn
<1>5. CASE j \in Ancestors[a]
  <2>1. Height[j] \in Nat /\ Height[a] \in Nat
    BY <1>1, BlockChainAssumption
  <2>2. j = a
    BY <1>1, <1>5, <2>1, AncestorStrictlyLower
  <2>3. QED
    BY <1>1, <2>2, SelfAncestor
<1>6. QED
  BY <1>4, <1>5

LEMMA OneAncestorPerHeight ==
  ASSUME NEW b \in Block, NEW a \in Ancestors[b], NEW j \in Ancestors[b],
         Height[a] = Height[j]
  PROVE  a = j
<1>1. a \in Block /\ j \in Block
  BY AncestorsDef
<1>2. Height[a] \in Nat /\ Height[j] \in Nat
  BY <1>1, BlockChainAssumption
<1>3. a \in Ancestors[j]
  BY <1>2, AncestorsAreChain
<1>4. QED
  BY <1>1, <1>2, <1>3, AncestorStrictlyLower

\* There is no gap in the heights of a branch.
LEMMA AncestorAtHeight ==
  ASSUME NEW b \in Block, NEW s \in Ancestors[b], NEW h \in Nat,
         Height[s] <= h, h <= Height[b]
  PROVE  \E d \in Ancestors[b] : Height[d] = h
<1> DEFINE S == {c \in Ancestors[b] : Height[c] <= h => \E d \in Ancestors[b] : Height[d] = h}
<1>1. \A c \in Ancestors[b] : c \in Block /\ Height[c] \in Nat
  BY AncestorsDef, BlockChainAssumption
<1>2. b \in S
  BY <1>1, SelfAncestor
<1>3. S \in SUBSET Block
  BY <1>1
<1>4. ASSUME NEW c \in S, Prev[c] # NoBlock PROVE Prev[c] \in S
  <2>1. Prev[c] \in Ancestors[b]
    BY <1>4, ParentAncestor
  <2>2. Height[c] = Height[Prev[c]] + 1
    BY <1>1, <1>4, BlockChainAssumption
  <2>3. Height[Prev[c]] <= h => Height[Prev[c]] = h \/ Height[c] <= h
    BY <1>1, <2>1, <2>2
  <2>4. QED
    BY <2>1, <2>3
<1>5. s \in S
  <2> HIDE DEF S
  <2>1. QED
    BY <1>2, <1>3, <1>4, AncestorIn
<1>6. QED
  BY <1>5

\* A block builds on itself and on what its parent builds on.
LEMMA AncestorsOfChild ==
  ASSUME NEW b \in Block, Prev[b] # NoBlock
  PROVE  Ancestors[b] = {b} \cup Ancestors[Prev[b]]
<1>1. Prev[b] \in Block /\ Prev[b] \in Ancestors[b]
  BY BlockChainAssumption, SelfAncestor, ParentAncestor
<1>2. \A a \in Ancestors[Prev[b]] : a \in Ancestors[b]
  BY <1>1, AncestorOfAncestor
<1>3. \A a \in Ancestors[b] : a = b \/ a \in Ancestors[Prev[b]]
  BY AncestorOfParent
<1>4. QED
  BY <1>2, <1>3, SelfAncestor

\* Some block of a branch is the lowest.
LEMMA LowestAncestor ==
  ASSUME NEW b \in Block
  PROVE  \E e \in Ancestors[b] : \A a \in Ancestors[b] : Height[e] <= Height[a]
<1> DEFINE S == {n \in Nat : \E a \in Ancestors[b] : Height[a] = n}
<1>1. \A a \in Ancestors[b] : Height[a] \in Nat
  BY AncestorsDef, BlockChainAssumption
<1>2. S \in SUBSET Nat /\ S # {}
  BY <1>1, SelfAncestor
<1>3. PICK n \in S : \A m \in S : n <= m
  <2> HIDE DEF S
  <2>1. QED
    BY <1>2, LeastNat
<1>4. QED
  BY <1>1, <1>3

-----------------------------------------------------------------------------
(***************************************************************************)
(* The held part of a branch, and the heights of transitions.              *)
(***************************************************************************)

\* Above a block that the walk reaches nothing is missing.
LEMMA HeldAbove ==
  ASSUME NEW bs, NEW b \in Block, NEW a \in Held(bs, b), NEW d \in Ancestors[b],
         Height[a] <= Height[d]
  PROVE  d \in Held(bs, b) /\ d \in bs \cup {b}
<1>1. \A c \in Ancestors[b] : Height[c] \in Nat
  BY AncestorsDef, BlockChainAssumption
<1>2. a \in Ancestors[b]
  BY DEF Held
<1> DEFINE gaps == Ancestors[b] \ (bs \cup {b})
<1>3. \A c \in gaps : Height[c] < Height[a]
  BY DEF Held
<1>4. \A c \in gaps : Height[c] < Height[d]
  BY <1>1, <1>2, <1>3
<1>5. d \in bs \cup {b}
  BY <1>1, <1>4
<1>6. QED
  BY <1>4, <1>5 DEF Held

\* The walk reaches a block above which nothing is missing.
LEMMA HeldReaches ==
  ASSUME NEW bs, NEW b \in Block, NEW a \in Ancestors[b],
         \A d \in Ancestors[b] : Height[a] <= Height[d] => d \in bs \cup {b}
  PROVE  a \in Held(bs, b)
<1>1. \A c \in Ancestors[b] : Height[c] \in Nat
  BY AncestorsDef, BlockChainAssumption
<1>2. \A c \in Ancestors[b] \ (bs \cup {b}) : Height[c] < Height[a]
  BY <1>1
<1>3. QED
  BY <1>2 DEF Held

LEMMA HeldOfParent ==
  ASSUME NEW bs, NEW b \in Block, Prev[b] \in bs, Prev[b] \in Block
  PROVE  Held(bs, Prev[b]) \subseteq Held(bs, b)
<1>1. Ancestors[b] = {b} \cup Ancestors[Prev[b]]
  BY AncestorsOfChild, BlockChainAssumption
<1>2. Ancestors[b] \ (bs \cup {b}) \subseteq Ancestors[Prev[b]] \ (bs \cup {Prev[b]})
  BY <1>1
<1>3. QED
  BY <1>1, <1>2 DEF Held

\* The transition that starts the interval of a height.
LEMMA LastTransitionFacts ==
  ASSUME NEW h \in Nat
  PROVE  /\ LastTransition(h) \in Nat
         /\ LastTransition(h) <= h /\ h < LastTransition(h) + Interval
         /\ LastTransition(h) % Interval = 0
<1>1. Interval \in Nat /\ Interval > 0
  BY BlockChainAssumption
<1> DEFINE q == h \div Interval
           r == h % Interval
<1>2. q \in Nat /\ r \in 0..(Interval - 1) /\ h = Interval * q + r
  BY <1>1
<1> HIDE DEF q
<1>3. LastTransition(h) = Interval * q
  BY <1>1, <1>2 DEF LastTransition
<1>4. Interval * q \in Nat
  BY <1>1, <1>2
<1>5. (Interval * q) % Interval = 0
  BY <1>1, <1>2
<1>6. QED
  BY <1>1, <1>2, <1>3, <1>4, <1>5

\* A transition is never above the last one at or below a height.
LEMMA TransitionBelow ==
  ASSUME NEW h \in Nat, NEW t \in Nat, t % Interval = 0, t <= h
  PROVE  t <= LastTransition(h)
<1>1. Interval \in Nat /\ Interval > 0
  BY BlockChainAssumption
<1> DEFINE q == h \div Interval
           m == t \div Interval
<1>2. q \in Nat /\ h % Interval \in 0..(Interval - 1) /\ h = Interval * q + (h % Interval)
  BY <1>1
<1>3. m \in Nat /\ t = Interval * m
  BY <1>1
<1> HIDE DEF q, m
<1>4. LastTransition(h) = Interval * q
  BY <1>1, <1>2 DEF LastTransition
<1>5. CASE m <= q
  <2>1. Interval * (q - m) >= 0
    BY <1>1, <1>2, <1>3, <1>5
  <2>2. Interval * q = Interval * m + Interval * (q - m)
    BY <1>1, <1>2, <1>3
  <2>3. QED
    BY <1>3, <1>4, <2>1, <2>2, <1>1, <1>2
<1>6. CASE m >= q + 1
  <2>1. Interval * (m - q - 1) >= 0
    BY <1>1, <1>2, <1>3, <1>6
  <2>2. Interval * m = Interval * q + Interval + Interval * (m - q - 1)
    BY <1>1, <1>2, <1>3
  <2>3. QED
    BY <1>1, <1>2, <1>3, <2>1, <2>2
<1>7. QED
  BY <1>2, <1>3, <1>5, <1>6

LEMMA LastTransitionMonotone ==
  ASSUME NEW h \in Nat, NEW k \in Nat, h <= k
  PROVE  LastTransition(h) <= LastTransition(k)
BY LastTransitionFacts, TransitionBelow

\* The transitions before and after a height are one interval apart.
LEMMA NextTransition ==
  ASSUME NEW h \in Nat
  PROVE  LastTransition(h + 1) - Interval <= LastTransition(h)
<1>1. Interval \in Nat /\ Interval > 0
  BY BlockChainAssumption
<1>2. /\ LastTransition(h) \in Nat /\ LastTransition(h + 1) \in Nat
      /\ LastTransition(h + 1) <= h + 1 /\ LastTransition(h + 1) % Interval = 0
      /\ h < LastTransition(h) + Interval
  BY LastTransitionFacts
<1>3. CASE LastTransition(h + 1) = h + 1
  BY <1>1, <1>2, <1>3
<1>4. CASE LastTransition(h + 1) <= h
  BY <1>1, <1>2, <1>4, TransitionBelow
<1>5. QED
  BY <1>2, <1>3, <1>4

LEMMA TransitionAfter ==
  ASSUME NEW h \in Nat, (h + 1) % Interval = 0
  PROVE  LastTransition(h) + Interval = h + 1
<1>1. Interval \in Nat /\ Interval > 0
  BY BlockChainAssumption
<1>2. LastTransition(h) \in Nat /\ LastTransition(h) <= h /\ h < LastTransition(h) + Interval
  BY LastTransitionFacts
<1> DEFINE q == h \div Interval
           m == (h + 1) \div Interval
<1>3. q \in Nat /\ h % Interval \in 0..(Interval - 1) /\ h = Interval * q + (h % Interval)
  BY <1>1
<1>4. m \in Nat /\ h + 1 = Interval * m
  BY <1>1
<1> HIDE DEF q, m
<1>5. LastTransition(h) = Interval * q
  BY <1>1, <1>3 DEF LastTransition
<1>6. Interval * m > Interval * q
  BY <1>2, <1>4, <1>5, <1>1, <1>3
<1>7. m >= q + 1
  <2>1. CASE m <= q
    <3>1. Interval * (q - m) >= 0
      BY <1>1, <1>3, <1>4, <2>1
    <3>2. Interval * q = Interval * m + Interval * (q - m)
      BY <1>1, <1>3, <1>4
    <3>3. QED
      BY <1>1, <1>3, <1>4, <1>6, <3>1, <3>2
  <2>2. QED
    BY <1>3, <1>4, <2>1
<1>8. Interval * (m - q - 1) >= 0
  BY <1>1, <1>3, <1>4, <1>7
<1>9. Interval * m = Interval * q + Interval + Interval * (m - q - 1)
  BY <1>1, <1>3, <1>4
<1>10. h + 1 >= LastTransition(h) + Interval
  BY <1>1, <1>2, <1>3, <1>4, <1>5, <1>8, <1>9
<1>11. QED
  BY <1>1, <1>2, <1>10

-----------------------------------------------------------------------------
(***************************************************************************)
(* What is saved.                                                          *)
(***************************************************************************)
SaveJobType == [replace : BOOLEAN, blocks : SUBSET Block]

LEMMA SaveJobTyped ==
  ASSUME NEW bs, NEW b \in Block, NEW count \in Nat
  PROVE  SaveJob(bs, b, count) \in SaveJobType
<1>1. Held(bs, b) \subseteq Block
  BY AncestorsDef DEF Held
<1>2. QED
  BY <1>1 DEF SaveJob, SaveJobType

\* The blocks of one save reach back to a transition: whichever block the cut
\* leaves, its parent is left too.
LEMMA SaveJobFromTransition ==
  ASSUME NEW bs, NEW b \in Block, NEW count \in Nat
  PROVE  FromTransition(SaveJob(bs, b, count).blocks)
<1> DEFINE gaps == Ancestors[b] \ (bs \cup {b})
           walked == {a \in Held(bs, b) : Height[a] + count > Height[b]}
           chosen == {a \in walked :
                        \E s \in walked : IsTransition(s) /\ Height[s] <= Height[a]}
<1>1. SaveJob(bs, b, count).blocks = chosen
  BY DEF SaveJob
<1>2. ASSUME NEW a \in chosen, ~IsTransition(a)
      PROVE  Prev[a] \in chosen
  <2>1. PICK s \in walked : IsTransition(s) /\ Height[s] <= Height[a]
    OBVIOUS
  <2>2. a \in Ancestors[b] /\ s \in Ancestors[b] /\ a \in Block /\ s \in Block
    BY AncestorsDef DEF Held
  <2>3. Height[a] \in Nat /\ Height[s] \in Nat /\ Height[b] \in Nat
    BY <2>2, BlockChainAssumption
  <2>4. Height[s] # Height[a]
    BY <1>2, <2>1 DEF IsTransition
  <2>5. Height[s] < Height[a]
    BY <2>1, <2>3, <2>4
  <2>6. Prev[a] # NoBlock
    BY <2>2, <2>3, <2>5, RootIsLowest
  <2>7. Prev[a] \in Ancestors[b] /\ Prev[a] \in Block
    BY <2>2, <2>6, ParentAncestor, AncestorsDef
  <2>8. Height[Prev[a]] \in Nat /\ Height[a] = Height[Prev[a]] + 1
    BY <2>2, <2>6, <2>7, BlockChainAssumption
  <2>9. Height[s] <= Height[Prev[a]]
    BY <2>3, <2>5, <2>8
  <2>10. \A c \in gaps : Height[c] < Height[s]
    BY DEF Held
  <2>11. \A c \in gaps : Height[c] < Height[Prev[a]]
    <3>1. \A c \in gaps : Height[c] \in Nat
      BY AncestorsDef, BlockChainAssumption
    <3>2. QED
      BY <2>3, <2>8, <2>9, <2>10, <3>1
  <2>12. Prev[a] \in Held(bs, b)
    BY <2>7, <2>11 DEF Held
  <2>13. Height[Prev[a]] + count > Height[b]
    BY <2>3, <2>8, <2>9
  <2>14. QED
    BY <2>1, <2>9, <2>12, <2>13
<1>3. QED
  BY <1>1, <1>2 DEF FromTransition

LEMMA SaveCountNat ==
  ASSUME NEW b \in Block, NEW e
  PROVE  SaveCount(b, e) \in Nat
<1>1. Height[b] \in Nat /\ Interval \in Nat /\ Interval > 0
  BY BlockChainAssumption
<1>2. Height[b] % Interval \in Nat
  BY <1>1
<1>3. QED
  BY <1>1, <1>2 DEF SaveCount

-----------------------------------------------------------------------------
(***************************************************************************)
(* The parts of a handler.                                                 *)
(***************************************************************************)
ThreadType == [save : SaveJobType, next : Block \cup {NoBlock}]

\* The lock is held and there was no rescan: the tip is held and nothing that
\* is not a checkpoint is above it.
Caught == rescans = 0 /\ ~crashed

LEMMA NoSaveFacts ==
  /\ NoSave \in SaveJobType
  /\ Idle \in ThreadType
  /\ FromTransition(NoSave.blocks)
BY DEF NoSave, Idle, SaveJobType, ThreadType, FromTransition

\* What makes consecutive transitions an interval of one.
LEMMA UnitFactor ==
  ASSUME NEW i \in Nat, i >= 1, NEW n \in Int, NEW m \in Int, i * (m - n) = 1
  PROVE  i = 1
<1> DEFINE d == m - n
<1>1. d \in Int /\ i * d = 1
  OBVIOUS
<1> HIDE DEF d
<1>2. CASE d <= 0
  <2>1. i * (-d) >= 0
    BY <1>1, <1>2
  <2>2. i * d + i * (-d) = 0
    BY <1>1
  <2>3. QED
    BY <1>1, <2>1, <2>2
<1>3. CASE d >= 1
  <2>1. i * (d - 1) >= 0
    BY <1>1, <1>3
  <2>2. i * d = i + i * (d - 1)
    BY <1>1
  <2>3. QED
    BY <1>1, <2>1, <2>2
<1>4. QED
  BY <1>1, <1>2, <1>3

\* Without a rescan a transition whose parent is held is at most one higher than the
\* tip; or it builds on a checkpoint above it, and every block is a transition.
LEMMA TransitionNearTip ==
  ASSUME TypeOK, TipIsHighest, Caught, NEW b \in Block, Prev[b] \in blocks, IsTransition(b)
  PROVE  Height[b] <= Height[lastBlock] + 1 \/ Interval = 1
<1>1. lastBlock \in Block /\ Prev[b] \in Block /\ Prev[b] # NoBlock
  BY BlockChainAssumption DEF TypeOK
<1>2. /\ Height[lastBlock] \in Nat /\ Height[b] \in Nat /\ Height[Prev[b]] \in Nat
      /\ Height[b] = Height[Prev[b]] + 1 /\ Interval \in Nat /\ Interval >= 1
  BY <1>1, BlockChainAssumption
<1>3. CASE Prev[b] \notin Checkpoint
  <2>1. Height[Prev[b]] <= Height[lastBlock]
    BY <1>3 DEF TipIsHighest, Caught
  <2>2. QED
    BY <1>2, <2>1
<1>4. CASE Prev[b] \in Checkpoint
  <2>1. Height[Prev[b]] % Interval = 0 /\ Height[b] % Interval = 0
    BY <1>4, BlockChainAssumption DEF IsTransition
  <2> DEFINE x == Height[Prev[b]]
             n == x \div Interval
             m == (x + 1) \div Interval
  <2>2. n \in Int /\ m \in Int /\ x = Interval * n /\ x + 1 = Interval * m
    <3>1. x \in Nat /\ x % Interval = 0 /\ (x + 1) % Interval = 0
      BY <1>2, <2>1
    <3> HIDE DEF x
    <3>2. QED
      BY <1>2, <3>1
  <2> HIDE DEF n, m, x
  <2>3. Interval * (m - n) = 1
    BY <1>2, <2>2
  <2>4. QED
    BY <1>2, <2>2, <2>3, UnitFactor
<1>5. QED
  BY <1>3, <1>4

\* Without a rescan verification never frees the tip.
LEMMA TipSurvives ==
  ASSUME TypeOK, TipIsHighest, TipHeld, Caught, NEW b \in Block, Prev[b] \in blocks
  PROVE  lastBlock \in Pruned(blocks, b)
<1> SUFFICES ASSUME lastBlock \notin Pruned(blocks, b)
             PROVE  FALSE
  OBVIOUS
<1>1. /\ IsTransition(b) /\ ~IsTransition(lastBlock)
      /\ ~(Height[lastBlock] + Interval >= Height[b])
  BY DEF Pruned, TipHeld, Caught
<1>2. lastBlock \in Block
  BY DEF TypeOK
<1>3. /\ Height[lastBlock] \in Nat /\ Height[b] \in Nat
      /\ Interval \in Nat /\ Interval >= 1
  BY <1>2, BlockChainAssumption
<1>4. CASE Interval = 1
  <2>1. Height[lastBlock] % Interval = 0
    BY <1>3, <1>4
  <2>2. QED
    BY <1>1, <2>1 DEF IsTransition
<1>5. QED
  BY <1>1, <1>3, <1>4, TransitionNearTip

\* What verification frees is on no walk from the tip's height: it is below the limit.
LEMMA FreedBelowLimit ==
  ASSUME TypeOK, TipIsHighest, Caught, NEW b \in Block, Prev[b] \in blocks,
         NEW d \in blocks, d \notin Pruned(blocks, b)
  PROVE  Height[d] < WalkLimit /\ Height[d] + Interval < Height[b]
<1>1. /\ IsTransition(b) /\ ~IsTransition(d)
      /\ ~(Height[d] + Interval >= Height[b])
  BY DEF Pruned
<1>2. lastBlock \in Block /\ d \in Block
  BY DEF TypeOK
<1>3. /\ Height[lastBlock] \in Nat /\ Height[b] \in Nat /\ Height[d] \in Nat
      /\ Interval \in Nat /\ Interval >= 1
  BY <1>2, BlockChainAssumption
<1>4. Interval # 1
  <2>1. ASSUME Interval = 1 PROVE FALSE
    <3>1. Height[d] % Interval = 0
      BY <1>3, <2>1
    <3>2. QED
      BY <1>1, <3>1 DEF IsTransition
  <2>2. QED
    BY <2>1
<1>5. Height[b] <= Height[lastBlock] + 1 /\ Height[b] % Interval = 0
  BY <1>1, <1>4, TransitionNearTip DEF IsTransition
<1>6. Height[b] <= LastTransition(Height[lastBlock] + 1)
  BY <1>3, <1>5, TransitionBelow
<1>7. LastTransition(Height[lastBlock] + 1) \in Nat
  <2>1. Height[lastBlock] + 1 \in Nat
    BY <1>3
  <2>2. QED
    BY ONLY <2>1, LastTransitionFacts
<1>8. QED
  BY <1>1, <1>3, <1>6, <1>7 DEF WalkLimit

LEMMA PrunedSubset ==
  ASSUME NEW bs, NEW b
  PROVE  Pruned(bs, b) \subseteq bs
BY DEF Pruned

LEMMA WithOrphanFacts ==
  ASSUME TypeOK, OneOrphanPerParent, NEW b \in Block
  PROVE  /\ WithOrphan(b) \subseteq Block
         /\ \A o1, o2 \in WithOrphan(b) : Prev[o1] = Prev[o2] => o1 = o2
         /\ WithOrphan(b) \subseteq orphans \cup {b}
BY DEF WithOrphan, TypeOK, OneOrphanPerParent

LEMMA OrphansOnceDoneFacts ==
  ASSUME NEW b, NEW os \in OrphansOnceDone(b)
  PROVE  os \subseteq orphans
BY DEF OrphansOnceDone, AfterMempools

LEMMA PlacedFacts ==
  ASSUME TypeOK, JobsFromTransition, NEW p \in Peer, NEW b \in Block,
         NEW os \in SUBSET Block, NEW save \in SaveJobType, FromTransition(save.blocks),
         Placed(p, b, os, save)
  PROVE  /\ estimatedHeight' \in Nat
         /\ orphans' = {o \in os : Prev[o] # b}
         /\ thread' \in [Peer -> ThreadType]
         /\ \A q \in Peer : FromTransition(thread'[q].save.blocks)
<1> DEFINE next == Waiting(os, b)
           n == IF next = {} THEN NoBlock ELSE CHOOSE o \in next : TRUE
           th == [save |-> save, next |-> n]
<1>1. estimatedHeight' \in Nat
  BY BlockChainAssumption DEF Placed, TypeOK
<1>2. orphans' = {o \in os : Prev[o] # b}
  BY DEF Placed, Waiting
<1>3. n \in Block \cup {NoBlock}
  BY DEF Waiting
<1>4. thread' = [thread EXCEPT ![p] = th]
  BY DEF Placed
<1>5. th \in ThreadType /\ th.save = save
  <2> HIDE DEF n
  <2>1. QED
    BY <1>3 DEF ThreadType
<1>6. thread \in [Peer -> ThreadType]
  BY DEF TypeOK, ThreadType, SaveJobType
<1> HIDE DEF th
<1>7. thread' \in [Peer -> ThreadType]
  BY <1>4, <1>5, <1>6
<1>8. ASSUME NEW q \in Peer PROVE FromTransition(thread'[q].save.blocks)
  <2>1. CASE q = p
    <3>1. thread'[q] = th
      BY <2>1, <1>4, <1>6
    <3>2. QED
      BY <3>1, <1>5
  <2>2. CASE q # p
    <3>1. thread'[q] = thread[q]
      BY <2>2, <1>4, <1>6
    <3>2. QED
      BY <3>1 DEF JobsFromTransition
  <2>3. QED
    BY <2>1, <2>2
<1>9. QED
  BY <1>1, <1>2, <1>7, <1>8

\* A thread that has nothing left to save.
LEMMA IdleFacts ==
  ASSUME TypeOK, JobsFromTransition, NEW p \in Peer, thread' = [thread EXCEPT ![p] = Idle]
  PROVE  /\ thread' \in [Peer -> ThreadType]
         /\ \A q \in Peer : FromTransition(thread'[q].save.blocks)
<1>1. thread \in [Peer -> ThreadType]
  BY DEF TypeOK, ThreadType, SaveJobType
<1>2. thread' \in [Peer -> ThreadType]
  BY <1>1, NoSaveFacts
<1>3. ASSUME NEW q \in Peer PROVE FromTransition(thread'[q].save.blocks)
  <2>1. CASE q = p
    <3>1. thread'[q] = Idle
      BY <2>1, <1>1
    <3>2. QED
      BY <3>1, NoSaveFacts DEF Idle
  <2>2. CASE q # p
    <3>1. thread'[q] = thread[q]
      BY <2>2, <1>1
    <3>2. QED
      BY <3>1 DEF JobsFromTransition
  <2>3. QED
    BY <2>1, <2>2
<1>4. QED
  BY <1>2, <1>3

LEMMA ConfirmTyped ==
  ASSUME NEW h \in [Tx -> Nat], NEW b \in Block
  PROVE  Confirm(h, b) \in [Tx -> Nat]
BY BlockChainAssumption DEF Confirm

LEMMA UnconfirmedTyped ==
  ASSUME NEW h \in [Tx -> Nat], NEW n
  PROVE  UnconfirmedAfter(h, n) \in [Tx -> Nat]
BY BlockChainAssumption DEF UnconfirmedAfter

LEMMA ReorganisedTyped ==
  ASSUME NEW h \in [Tx -> Nat], NEW bs, NEW b \in Block, NEW join
  PROVE  Reorganised(h, bs, b, join) \in [Tx -> Nat]
<1> DEFINE branch == {a \in Held(bs, b) : Height[a] > Height[join]}
<1>1. branch \subseteq Block
  BY AncestorsDef DEF Held
<1>2. Height \in [Block -> Nat] /\ TX_UNCONFIRMED \in Nat
  BY BlockChainAssumption
<1> HIDE DEF branch
<1>3. ASSUME NEW t \in Tx, \E a \in branch : t \in TxIn[a]
      PROVE  Height[CHOOSE a \in branch : t \in TxIn[a]] \in Nat
  <2>1. (CHOOSE a \in branch : t \in TxIn[a]) \in branch
    BY <1>3
  <2>2. QED
    BY <1>1, <1>2, <2>1
<1>4. Reorganised(h, bs, b, join) =
        [t \in Tx |-> IF \E a \in branch : t \in TxIn[a]
                        THEN Height[CHOOSE a \in branch : t \in TxIn[a]]
                        ELSE UnconfirmedAfter(h, Height[join])[t]]
  BY DEF Reorganised, branch
<1>5. \A t \in Tx : UnconfirmedAfter(h, Height[join])[t] \in Nat
  <2> DEFINE u == UnconfirmedAfter(h, Height[join])
  <2>1. u \in [Tx -> Nat]
    BY UnconfirmedTyped
  <2> HIDE DEF u
  <2>2. \A t \in Tx : u[t] \in Nat
    BY <2>1
  <2>3. QED
    BY <2>2 DEF u
<1>6. QED
  BY <1>2, <1>3, <1>4, <1>5

-----------------------------------------------------------------------------
(***************************************************************************)
(* The handler of a relayed block.  Kept is what TreeInv' asks of the         *)
(* variables that it changes.                                              *)
(***************************************************************************)
Kept ==
  /\ blocks' \subseteq Block /\ orphans' \subseteq Block /\ lastBlock' \in Block
  /\ estimatedHeight' \in Nat /\ thread' \in [Peer -> ThreadType]
  /\ txHeight' \in [Tx -> Nat] /\ crashed' \in BOOLEAN
  /\ OneOrphanPerParent'
  /\ TipIsHighest' /\ TipHeld' /\ NoStrandedOrphan'
  /\ \A q \in Peer : FromTransition(thread'[q].save.blocks)

Quiet == UNCHANGED <<rescans, restarts>>

\* What TreeInv says of the state in which a handler starts.
LEMMA Starts ==
  ASSUME TreeInv
  PROVE  /\ TypeOK /\ OneOrphanPerParent /\ TipIsHighest /\ TipHeld
         /\ NoStrandedOrphan /\ JobsFromTransition
         /\ blocks \subseteq Block /\ orphans \subseteq Block /\ lastBlock \in Block
         /\ estimatedHeight \in Nat /\ thread \in [Peer -> ThreadType]
         /\ txHeight \in [Tx -> Nat] /\ crashed \in BOOLEAN
         /\ \A q \in Peer : FromTransition(thread[q].save.blocks)
BY DEF TreeInv, TypeOK, JobsFromTransition, ThreadType, SaveJobType

\* A block that comes to nothing: verification has pruned the tree at most.
LEMMA PrunedKept ==
  ASSUME TreeInv, Quiet, ~crashed, NEW b \in Block, Prev[b] \in blocks,
         blocks' = Pruned(blocks, b), UNCHANGED <<lastBlock, estimatedHeight, txHeight>>,
         orphans' \subseteq orphans, crashed' \in BOOLEAN,
         thread' \in [Peer -> ThreadType],
         \A q \in Peer : FromTransition(thread'[q].save.blocks)
  PROVE  Kept
<1>1. blocks' \subseteq blocks
  BY PrunedSubset
<1>2. OneOrphanPerParent'
  BY Starts DEF OneOrphanPerParent
<1>3. TipIsHighest'
  BY <1>1, Starts DEF TipIsHighest, Quiet
<1>4. TipHeld'
  BY Starts, TipSurvives DEF TipHeld, Quiet, Caught
<1>5. NoStrandedOrphan'
  BY <1>1, Starts DEF NoStrandedOrphan, Quiet
<1>6. QED
  BY <1>1, <1>2, <1>3, <1>4, <1>5, Starts DEF Kept

\* The fault of a freed tip: it takes a rescan.
LEMMA FaultKept ==
  ASSUME TreeInv, Quiet, ~crashed, NEW b \in Block, Prev[b] \in blocks,
         Pruned(blocks, b) \subseteq blocks', blocks' \subseteq blocks \cup {b}, Fault
  PROVE  Kept
<1>1. /\ crashed' = TRUE /\ orphans' = orphans /\ lastBlock' = lastBlock
      /\ estimatedHeight' = estimatedHeight /\ thread' = thread /\ txHeight' = txHeight
  BY DEF Fault
<1>2. OneOrphanPerParent'
  BY <1>1, Starts DEF OneOrphanPerParent
<1>3. TipIsHighest' /\ NoStrandedOrphan'
  BY <1>1 DEF TipIsHighest, NoStrandedOrphan
<1>4. TipHeld'
  BY <1>1, Starts, TipSurvives DEF TipHeld, Quiet, Caught
<1>5. QED
  BY <1>1, <1>2, <1>3, <1>4, Starts DEF Kept

LEMMA FilterMissingKept ==
  ASSUME TreeInv, Quiet, NEW p \in Peer, NEW b \in Block, FilterMissing(p, b)
  PROVE  Kept
<1>1. /\ UNCHANGED <<blocks, orphans, lastBlock, estimatedHeight, txHeight, crashed>>
      /\ thread' = [thread EXCEPT ![p] = Idle]
  BY DEF FilterMissing, Dropped
<1>2. /\ thread' \in [Peer -> ThreadType]
      /\ \A q \in Peer : FromTransition(thread'[q].save.blocks)
  BY <1>1, IdleFacts, Starts
<1>3. OneOrphanPerParent' /\ TipIsHighest' /\ TipHeld' /\ NoStrandedOrphan'
  BY <1>1, Starts DEF OneOrphanPerParent, TipIsHighest, TipHeld, NoStrandedOrphan, Quiet
<1>4. QED
  BY <1>1, <1>2, <1>3, Starts DEF Kept

LEMMA OrphanedKept ==
  ASSUME TreeInv, Quiet, NEW p \in Peer, NEW b \in Block, Orphaned(p, b)
  PROVE  Kept
<1>1. /\ UNCHANGED <<blocks, lastBlock, estimatedHeight, txHeight, crashed>>
      /\ thread' = [thread EXCEPT ![p] = Idle]
      /\ Prev[b] \notin blocks
      /\ orphans' = orphans \/ orphans' = WithOrphan(b)
  BY DEF Orphaned, Dropped
<1>2. /\ thread' \in [Peer -> ThreadType]
      /\ \A q \in Peer : FromTransition(thread'[q].save.blocks)
  BY <1>1, IdleFacts, Starts
<1>3. orphans' \subseteq Block /\ orphans' \subseteq orphans \cup {b}
  BY <1>1, Starts, WithOrphanFacts
<1>4. OneOrphanPerParent'
  BY <1>1, Starts, WithOrphanFacts DEF OneOrphanPerParent
<1>5. TipIsHighest' /\ TipHeld'
  BY <1>1, Starts DEF TipIsHighest, TipHeld, Quiet
<1>6. NoStrandedOrphan'
  BY <1>1, <1>3, Starts DEF NoStrandedOrphan, Quiet
<1>7. QED
  BY <1>1, <1>2, <1>3, <1>4, <1>5, <1>6, Starts DEF Kept

\* A block that is dropped after verification.
LEMMA DroppedKept ==
  ASSUME TreeInv, Quiet, ~crashed, NEW p \in Peer, NEW b \in Block, Prev[b] \in blocks,
         blocks' = Pruned(blocks, b), IF TipFreed(b) THEN Fault ELSE Dropped(p)
  PROVE  Kept
<1>1. CASE Fault
  BY <1>1, FaultKept, PrunedSubset
<1>2. CASE Dropped(p)
  <2>1. /\ UNCHANGED <<orphans, lastBlock, estimatedHeight, txHeight, crashed>>
        /\ thread' = [thread EXCEPT ![p] = Idle]
    BY <1>2 DEF Dropped
  <2>2. /\ thread' \in [Peer -> ThreadType]
        /\ \A q \in Peer : FromTransition(thread'[q].save.blocks)
    BY <2>1, IdleFacts, Starts
  <2>3. QED
    BY <2>1, <2>2, PrunedKept, Starts
<1>3. QED
  BY <1>1, <1>2

LEMMA ExtendsChainKept ==
  ASSUME TreeInv, Quiet, ~crashed, NEW p \in Peer, NEW b \in Block, ExtendsChain(p, b)
  PROVE  Kept
<1>1. Prev[b] \in blocks /\ Prev[b] = lastBlock /\ blocks' = Pruned(blocks, b) \cup {b}
  BY DEF ExtendsChain, Verified
<1>2. CASE Fault
  BY <1>1, <1>2, FaultKept, PrunedSubset
<1>3. CASE ~TipFreed(b)
  <2>1. lastBlock' = b /\ txHeight' = Confirm(txHeight, b) /\ crashed' = crashed
    BY <1>3 DEF ExtendsChain
  <2>2. PICK os \in OrphansOnceDone(b) :
          Placed(p, b, os, SaveJob(blocks', b, SaveCount(b, TRUE)))
    BY <1>3 DEF ExtendsChain
  <2>3. os \subseteq orphans /\ os \subseteq Block
    BY OrphansOnceDoneFacts, Starts
  <2>4. /\ estimatedHeight' \in Nat
        /\ orphans' = {o \in os : Prev[o] # b}
        /\ thread' \in [Peer -> ThreadType]
        /\ \A q \in Peer : FromTransition(thread'[q].save.blocks)
    <3>1. SaveCount(b, TRUE) \in Nat
      BY SaveCountNat
    <3> DEFINE job == SaveJob(blocks', b, SaveCount(b, TRUE))
    <3>2. job \in SaveJobType /\ FromTransition(job.blocks)
      BY <3>1, SaveJobTyped, SaveJobFromTransition
    <3> HIDE DEF job
    <3>3. Placed(p, b, os, job)
      BY <2>2 DEF job
    <3>4. QED
      BY <2>3, <3>2, <3>3, Starts, PlacedFacts
  <2>5. blocks' \subseteq blocks \cup {b} /\ blocks' \subseteq Block /\ b \in blocks'
    BY <1>1, PrunedSubset, Starts
  <2>6. txHeight' \in [Tx -> Nat]
    BY <2>1, ConfirmTyped, Starts
  <2>7. OneOrphanPerParent'
    BY <2>3, <2>4, Starts DEF OneOrphanPerParent
  <2>8. TipIsHighest'
    <3>1. Prev[b] \in Block /\ Prev[b] # NoBlock
      BY <1>1, Starts, BlockChainAssumption
    <3>2. Height[b] = Height[lastBlock] + 1 /\ \A c \in Block : Height[c] \in Nat
      BY <1>1, <3>1, BlockChainAssumption
    <3>3. QED
      BY <2>1, <2>5, <3>1, <3>2, Starts DEF TipIsHighest, Quiet
  <2>9. TipHeld'
    BY <2>1, <2>5 DEF TipHeld
  <2>10. NoStrandedOrphan'
    BY <2>3, <2>4, <2>5, Starts DEF NoStrandedOrphan, Quiet
  <2>11. QED
    BY <2>1, <2>4, <2>3, <2>5, <2>6, <2>7, <2>8, <2>9, <2>10, Starts DEF Kept
<1>4. QED
  BY <1>2, <1>3 DEF ExtendsChain

LEMMA AlreadyHeldKept ==
  ASSUME TreeInv, Quiet, ~crashed, NEW p \in Peer, NEW b \in Block, AlreadyHeld(p, b)
  PROVE  Kept
<1>1. Prev[b] \in blocks /\ blocks' = Pruned(blocks, b)
  BY DEF AlreadyHeld, Verified
<1>2. CASE Fault
  BY <1>1, <1>2, FaultKept, PrunedSubset
<1>3. CASE ~Fault
  <2>1. /\ txHeight' = Confirm(txHeight, b) \/ txHeight' = txHeight
        /\ Placed(p, b, orphans, NoSave)
        /\ UNCHANGED <<lastBlock, crashed>>
    BY <1>3 DEF AlreadyHeld
  <2>2. /\ estimatedHeight' \in Nat
        /\ orphans' \subseteq orphans
        /\ thread' \in [Peer -> ThreadType]
        /\ \A q \in Peer : FromTransition(thread'[q].save.blocks)
    <3>1. orphans \in SUBSET Block /\ TypeOK /\ JobsFromTransition
      BY Starts
    <3>2. /\ estimatedHeight' \in Nat
          /\ orphans' = {o \in orphans : Prev[o] # b}
          /\ thread' \in [Peer -> ThreadType]
          /\ \A q \in Peer : FromTransition(thread'[q].save.blocks)
      BY <2>1, <3>1, NoSaveFacts, PlacedFacts
    <3>3. QED
      BY <3>2
  <2>3. blocks' \subseteq blocks
    BY <1>1, PrunedSubset
  <2>4. txHeight' \in [Tx -> Nat]
    BY <2>1, ConfirmTyped, Starts
  <2>5. OneOrphanPerParent'
    BY <2>2, Starts DEF OneOrphanPerParent
  <2>6. TipIsHighest' /\ NoStrandedOrphan'
    BY <2>1, <2>2, <2>3, Starts DEF TipIsHighest, NoStrandedOrphan, Quiet
  <2>7. TipHeld'
    BY <1>1, <2>1, Starts, TipSurvives DEF TipHeld, Quiet, Caught
  <2>8. QED
    BY <2>1, <2>2, <2>3, <2>4, <2>5, <2>6, <2>7, Starts DEF Kept
<1>4. QED
  BY <1>2, <1>3

\* A postponed block builds on a block above the tip: without a rescan only a
\* checkpoint is that high.
LEMMA MinedDuringRescanKept ==
  ASSUME TreeInv, Quiet, ~crashed, NEW p \in Peer, NEW b \in Block, MinedDuringRescan(p, b)
  PROVE  Kept
<1>1. Prev[b] \in blocks /\ blocks' = Pruned(blocks, b) /\ Postponed(p, b)
  BY DEF MinedDuringRescan, Verified
<1>2. CASE Fault
  BY <1>1, <1>2, FaultKept, PrunedSubset
<1>3. CASE ~Fault
  <2>1. Placed(p, b, WithOrphan(b), NoSave) /\ UNCHANGED <<lastBlock, txHeight, crashed>>
    BY <1>3 DEF MinedDuringRescan
  <2>2. /\ WithOrphan(b) \subseteq Block /\ WithOrphan(b) \subseteq orphans \cup {b}
        /\ \A o1, o2 \in WithOrphan(b) : Prev[o1] = Prev[o2] => o1 = o2
    BY Starts, WithOrphanFacts
  <2>3. /\ estimatedHeight' \in Nat
        /\ orphans' \subseteq WithOrphan(b)
        /\ thread' \in [Peer -> ThreadType]
        /\ \A q \in Peer : FromTransition(thread'[q].save.blocks)
    BY <2>1, <2>2, Starts, NoSaveFacts, PlacedFacts
  <2>4. blocks' \subseteq blocks
    BY <1>1, PrunedSubset
  <2>5. OneOrphanPerParent'
    BY <2>2, <2>3 DEF OneOrphanPerParent
  <2>6. TipIsHighest'
    BY <2>1, <2>4, Starts DEF TipIsHighest, Quiet
  <2>7. TipHeld'
    BY <1>1, <2>1, Starts, TipSurvives DEF TipHeld, Quiet, Caught
  <2>8. NoStrandedOrphan'
    <3> SUFFICES ASSUME rescans = 0, restarts = 0, NEW o \in orphans',
                        Prev[o] \in blocks \ Checkpoint
                 PROVE  FALSE
      BY <2>4 DEF NoStrandedOrphan, Quiet
    <3>1. o = b
      BY <2>2, <2>3, Starts DEF NoStrandedOrphan
    <3>2. Prev[b] \in Block /\ Prev[b] # NoBlock
      BY <1>1, Starts, BlockChainAssumption
    <3>3. Height[b] = Height[Prev[b]] + 1 /\ \A c \in Block : Height[c] \in Nat
      BY <3>2, BlockChainAssumption
    <3>4. Height[Prev[b]] <= Height[lastBlock]
      BY <3>1, Starts DEF TipIsHighest
    <3>5. Height[b] > Height[lastBlock] + 1
      BY <1>1 DEF Postponed
    <3>6. QED
      BY <3>2, <3>3, <3>4, <3>5, Starts
  <2>9. QED
    BY <2>1, <2>2, <2>3, <2>4, <2>5, <2>6, <2>7, <2>8, Starts DEF Kept
<1>4. QED
  BY <1>2, <1>3

LEMMA ForksChainKept ==
  ASSUME TreeInv, Quiet, ~crashed, NEW p \in Peer, NEW b \in Block, ForksChain(p, b)
  PROVE  Kept
<1>1. Prev[b] \in blocks /\ blocks' = Pruned(blocks, b) \cup {b} /\ ~Longer(b)
  BY DEF ForksChain, IsFork, Verified
<1>2. CASE Fault
  BY <1>1, <1>2, FaultKept, PrunedSubset
<1>3. CASE ~Fault
  <2>1. Placed(p, b, orphans, NoSave) /\ UNCHANGED <<lastBlock, txHeight, crashed>>
    BY <1>3 DEF ForksChain
  <2>2. /\ estimatedHeight' \in Nat
        /\ orphans' = {o \in orphans : Prev[o] # b}
        /\ thread' \in [Peer -> ThreadType]
        /\ \A q \in Peer : FromTransition(thread'[q].save.blocks)
    BY <2>1, Starts, NoSaveFacts, PlacedFacts
  <2>3. blocks' \subseteq blocks \cup {b}
    BY <1>1, PrunedSubset
  <2>4. Height[b] <= Height[lastBlock]
    <3>1. Height[b] \in Nat /\ Height[lastBlock] \in Nat
      BY Starts, BlockChainAssumption
    <3>2. QED
      BY <1>1, <3>1 DEF Longer
  <2>5. OneOrphanPerParent'
    BY <2>2, Starts DEF OneOrphanPerParent
  <2>6. TipIsHighest' /\ NoStrandedOrphan'
    BY <2>1, <2>2, <2>3, <2>4, Starts DEF TipIsHighest, NoStrandedOrphan, Quiet
  <2>7. TipHeld'
    BY <1>1, <2>1, Starts, TipSurvives DEF TipHeld, Quiet, Caught
  <2>8. QED
    BY <2>1, <2>2, <2>3, <2>5, <2>6, <2>7, Starts DEF Kept
<1>4. QED
  BY <1>2, <1>3

LEMMA ReorganisesKept ==
  ASSUME TreeInv, Quiet, ~crashed, NEW p \in Peer, NEW b \in Block, Reorganises(p, b)
  PROVE  Kept
<1>1. Prev[b] \in blocks /\ blocks' = Pruned(blocks, b) \cup {b} /\ Longer(b)
  BY DEF Reorganises, IsFork, Verified
<1>2. CASE Fault
  BY <1>1, <1>2, FaultKept, PrunedSubset
<1>3. CASE ~Fault
  <2>1. /\ lastBlock' = b /\ crashed' = crashed
        /\ SwitchesTo(b, Joins(blocks', b, lastBlock), StopsAt(blocks', b, lastBlock))
    BY <1>3 DEF Reorganises
  <2>2. PICK os \in OrphansOnceDone(b) :
          Placed(p, b, os, SaveJob(blocks', b, SaveCount(b, FALSE)))
    BY <1>3 DEF Reorganises
  <2>3. os \subseteq orphans /\ os \subseteq Block
    BY OrphansOnceDoneFacts, Starts
  <2>4. /\ estimatedHeight' \in Nat
        /\ orphans' = {o \in os : Prev[o] # b}
        /\ thread' \in [Peer -> ThreadType]
        /\ \A q \in Peer : FromTransition(thread'[q].save.blocks)
    <3>1. SaveCount(b, FALSE) \in Nat
      BY SaveCountNat
    <3> DEFINE job == SaveJob(blocks', b, SaveCount(b, FALSE))
    <3>2. job \in SaveJobType /\ FromTransition(job.blocks)
      BY <3>1, SaveJobTyped, SaveJobFromTransition
    <3> HIDE DEF job
    <3>3. Placed(p, b, os, job)
      BY <2>2 DEF job
    <3>4. QED
      BY <2>3, <3>2, <3>3, Starts, PlacedFacts
  <2>5. blocks' \subseteq blocks \cup {b} /\ blocks' \subseteq Block /\ b \in blocks'
    BY <1>1, PrunedSubset, Starts
  <2>6. txHeight' \in [Tx -> Nat]
    <3>1. CASE \E j \in Joins(blocks', b, lastBlock) :
                 txHeight' = Reorganised(txHeight, blocks', b, j)
      <4>1. PICK j \in Joins(blocks', b, lastBlock) :
              txHeight' = Reorganised(txHeight, blocks', b, j)
        BY <3>1
      <4>2. Reorganised(txHeight, blocks', b, j) \in [Tx -> Nat]
        BY ReorganisedTyped, Starts
      <4>3. QED
        BY <4>1, <4>2
    <3>2. CASE \E a \in StopsAt(blocks', b, lastBlock) :
                 txHeight' = UnconfirmedAfter(txHeight, Height[a])
      BY <3>2, UnconfirmedTyped, Starts
    <3>3. QED
      BY <2>1, <3>1, <3>2 DEF SwitchesTo
  <2>7. OneOrphanPerParent'
    BY <2>3, <2>4, Starts DEF OneOrphanPerParent
  <2>8. TipIsHighest'
    <3>1. Height[b] > Height[lastBlock] /\ \A c \in Block : Height[c] \in Nat
      BY <1>1, BlockChainAssumption DEF Longer
    <3>2. QED
      BY <2>1, <2>5, <3>1, Starts DEF TipIsHighest, Quiet
  <2>9. TipHeld'
    BY <2>1, <2>5 DEF TipHeld
  <2>10. NoStrandedOrphan'
    BY <2>1, <2>3, <2>4, <2>5, Starts DEF NoStrandedOrphan, Quiet
  <2>11. QED
    BY <2>1, <2>3, <2>4, <2>5, <2>6, <2>7, <2>8, <2>9, <2>10, Starts DEF Kept
<1>4. QED
  BY <1>2, <1>3

LEMMA DeliverKept ==
  ASSUME TreeInv, NEW p \in Peer, NEW b \in Block, Deliver(p, b)
  PROVE  TreeInv'
<1>1. ~crashed /\ Quiet /\ UNCHANGED <<peerVars, storeVars, countVars>>
  BY DEF Deliver, Quiet, countVars
<1>2. Kept
  <2>1. CASE FilterMissing(p, b)
    BY <1>1, <2>1, FilterMissingKept
  <2>2. CASE Orphaned(p, b)
    BY <1>1, <2>2, OrphanedKept
  <2>3. CASE Rejected(p, b)
    BY <1>1, <2>3, DroppedKept DEF Rejected
  <2>4. CASE ExtendsChain(p, b)
    BY <1>1, <2>4, ExtendsChainKept
  <2>5. CASE AlreadyHeld(p, b)
    BY <1>1, <2>5, AlreadyHeldKept
  <2>6. CASE MinedDuringRescan(p, b)
    BY <1>1, <2>6, MinedDuringRescanKept
  <2>7. CASE ForksBelowCheckpoint(p, b)
    BY <1>1, <2>7, DroppedKept DEF ForksBelowCheckpoint, Verified
  <2>8. CASE ForksChain(p, b)
    BY <1>1, <2>8, ForksChainKept
  <2>9. CASE Reorganises(p, b)
    BY <1>1, <2>9, ReorganisesKept
  <2>10. QED
    BY <2>1, <2>2, <2>3, <2>4, <2>5, <2>6, <2>7, <2>8, <2>9 DEF Deliver
<1>3. TypeOK'
  <2>1. unjoined \in BOOLEAN
    BY Starts DEF TypeOK
  <2>2. unjoined' \in BOOLEAN
    BY <2>1 DEF Deliver, Reorganises, SwitchesTo
  <2>3. QED
    BY <1>1, <1>2, <2>2
       DEF TreeInv, Kept, TypeOK, ThreadType, SaveJobType, peerVars, storeVars, countVars
<1>4. SavedFromTransition'
  BY <1>1 DEF TreeInv, SavedFromTransition, storeVars
<1>5. JobsFromTransition'
  BY <1>1, <1>2 DEF TreeInv, Kept, JobsFromTransition, storeVars
<1>6. QED
  BY <1>2, <1>3, <1>4, <1>5 DEF TreeInv, Kept

-----------------------------------------------------------------------------
(***************************************************************************)
(* Saves and restarts.                                                     *)
(***************************************************************************)
LEMMA SaveBlocksKept ==
  ASSUME TreeInv, NEW p \in Peer, SaveBlocks(p)
  PROVE  TreeInv'
<1>1. /\ saveQueue' = Append(saveQueue, thread[p].save)
      /\ thread' = [thread EXCEPT ![p].save = NoSave]
      /\ UNCHANGED <<blocks, orphans, lastBlock, estimatedHeight, connected, downloadPeer,
                     filter, filterPing, txHeight, saved, deleted, crashed, unjoined,
                     connects, filters, rescans, restarts>>
  BY DEF SaveBlocks, treeVars, peerVars, faultVars, countVars
<1>2. saveQueue \in Seq(SaveJobType) /\ thread[p].save \in SaveJobType
  BY Starts DEF TypeOK, SaveJobType, ThreadType
<1>3. /\ saveQueue' \in Seq(SaveJobType)
      /\ Len(saveQueue') = Len(saveQueue) + 1
      /\ \A i \in 1..Len(saveQueue) : saveQueue'[i] = saveQueue[i]
      /\ saveQueue'[Len(saveQueue) + 1] = thread[p].save
  BY <1>1, <1>2, AppendProperties
<1>4. thread' \in [Peer -> ThreadType]
  BY <1>1, Starts, NoSaveFacts DEF ThreadType
<1>5. \A q \in Peer : thread'[q].save = IF q = p THEN NoSave ELSE thread[q].save
  BY <1>1, Starts DEF ThreadType
<1>6. TypeOK'
  BY <1>1, <1>3, <1>4 DEF TreeInv, TypeOK, ThreadType, SaveJobType
<1>7. \A q \in Peer : FromTransition(thread'[q].save.blocks)
  BY <1>5, Starts, NoSaveFacts
<1>8. \A i \in DOMAIN saveQueue' : FromTransition(saveQueue'[i].blocks)
  <2>1. DOMAIN saveQueue' = 1..(Len(saveQueue) + 1) /\ DOMAIN saveQueue = 1..Len(saveQueue)
        /\ Len(saveQueue) \in Nat
    BY <1>2, <1>3
  <2>2. \A i \in 1..Len(saveQueue) : FromTransition(saveQueue'[i].blocks)
    BY <1>3, <2>1 DEF TreeInv, JobsFromTransition
  <2>3. FromTransition(saveQueue'[Len(saveQueue) + 1].blocks)
    BY <1>3, Starts
  <2>4. \A i \in 1..(Len(saveQueue) + 1) : i \in 1..Len(saveQueue) \/ i = Len(saveQueue) + 1
    BY <2>1
  <2>5. QED
    BY <2>1, <2>2, <2>3, <2>4
<1>9. JobsFromTransition'
  BY <1>7, <1>8 DEF JobsFromTransition
<1>10. QED
  BY <1>1, <1>6, <1>9
     DEF TreeInv, OneOrphanPerParent, TipIsHighest, TipHeld, NoStrandedOrphan, SavedFromTransition

LEMMA DeleteSavedKept ==
  ASSUME TreeInv, DeleteSaved
  PROVE  TreeInv'
<1>1. /\ saved' = {} /\ deleted' = TRUE
      /\ UNCHANGED <<blocks, orphans, lastBlock, estimatedHeight, connected, downloadPeer,
                     filter, filterPing, thread, txHeight, saveQueue, crashed, unjoined,
                     connects, filters, rescans, restarts>>
  BY DEF DeleteSaved, treeVars, peerVars, faultVars, countVars
<1>2. QED
  BY <1>1 DEF TreeInv, TypeOK, OneOrphanPerParent, TipIsHighest, TipHeld, NoStrandedOrphan,
              SavedFromTransition, JobsFromTransition, FromTransition

LEMMA InsertSavedKept ==
  ASSUME TreeInv, InsertSaved
  PROVE  TreeInv'
<1>1. /\ saveQueue # <<>>
      /\ saved' = saved \cup Head(saveQueue).blocks
      /\ saveQueue' = Tail(saveQueue) /\ deleted' = FALSE
      /\ UNCHANGED <<blocks, orphans, lastBlock, estimatedHeight, connected, downloadPeer,
                     filter, filterPing, thread, txHeight, crashed, unjoined,
                     connects, filters, rescans, restarts>>
  BY DEF InsertSaved, treeVars, peerVars, faultVars, countVars
<1>2. saveQueue \in Seq(SaveJobType)
  BY Starts DEF TypeOK, SaveJobType
<1>3. /\ Head(saveQueue) = saveQueue[1] /\ Head(saveQueue) \in SaveJobType
      /\ 1 \in DOMAIN saveQueue
      /\ Tail(saveQueue) \in Seq(SaveJobType)
      /\ \A i \in DOMAIN Tail(saveQueue) :
           i + 1 \in DOMAIN saveQueue /\ Tail(saveQueue)[i] = saveQueue[i + 1]
  BY <1>1, <1>2, HeadTailProperties
<1>4. TypeOK'
  BY <1>1, <1>3 DEF TreeInv, TypeOK, SaveJobType
<1>5. SavedFromTransition'
  <2>1. FromTransition(saved) /\ FromTransition(Head(saveQueue).blocks)
    BY <1>3 DEF TreeInv, SavedFromTransition, JobsFromTransition
  <2>2. QED
    BY <1>1, <2>1 DEF SavedFromTransition, FromTransition
<1>6. JobsFromTransition'
  BY <1>1, <1>3 DEF TreeInv, JobsFromTransition
<1>7. QED
  BY <1>1, <1>4, <1>5, <1>6
     DEF TreeInv, OneOrphanPerParent, TipIsHighest, TipHeld, NoStrandedOrphan

LEMMA RestartKept ==
  ASSUME TreeInv, Restart
  PROVE  TreeInv'
<1>1. /\ restarts' = restarts + 1 /\ restarts' \in Nat /\ restarts' # 0
      /\ estimatedHeight' = 0 /\ connected' = {} /\ downloadPeer' = NoPeer
      /\ filter' = "none" /\ filterPing' = [p \in Peer |-> "none"]
      /\ thread' = [p \in Peer |-> Idle] /\ saveQueue' = <<>> /\ deleted' = FALSE
      /\ crashed' = FALSE
      /\ UNCHANGED <<txHeight, saved, unjoined, connects, filters, rescans>>
  BY Starts DEF Restart, TypeOK
<1>2. PICK os \in OnePerParent(saved) :
        \/ /\ blocks' = Checkpoint /\ lastBlock' = Birthday /\ orphans' = os
        \/ \E first \in LastTransitions(saved) :
             LET chain == Rebuilt(os, first)
             IN /\ blocks' = Checkpoint \cup chain
                /\ lastBlock' \in {b \in chain : \A c \in chain : Height[c] <= Height[b]}
                /\ orphans' = {o \in os : \A b \in chain : Prev[b] # Prev[o]}
  BY DEF Restart
<1>3. os \subseteq Block /\ \A o1, o2 \in os : Prev[o1] = Prev[o2] => o1 = o2
  <2>1. os \subseteq saved /\ saved \subseteq Block
    BY Starts DEF OnePerParent, TypeOK
  <2>2. QED
    BY <2>1 DEF OnePerParent
<1>4. orphans' \subseteq os
  BY <1>2
<1>5. /\ blocks' \subseteq Block /\ lastBlock' \in blocks'
      /\ \A b \in blocks' \ Checkpoint : Height[b] <= Height[lastBlock']
  <2>1. CASE blocks' = Checkpoint /\ lastBlock' = Birthday
    BY <2>1, BlockChainAssumption
  <2>2. CASE \E first \in LastTransitions(saved) :
               LET chain == Rebuilt(os, first)
               IN /\ blocks' = Checkpoint \cup chain
                  /\ lastBlock' \in {b \in chain : \A c \in chain : Height[c] <= Height[b]}
    <3>1. PICK first \in LastTransitions(saved) :
               /\ blocks' = Checkpoint \cup Rebuilt(os, first)
               /\ lastBlock' \in {b \in Rebuilt(os, first) :
                                    \A c \in Rebuilt(os, first) : Height[c] <= Height[b]}
      BY <2>2
    <3>2. Rebuilt(os, first) \subseteq Block
      BY <1>3, Starts DEF Rebuilt, LastTransitions, TypeOK
    <3>3. QED
      BY <3>1, <3>2, BlockChainAssumption
  <2>3. QED
    BY <1>2, <2>1, <2>2
<1>6. TypeOK'
  <2>1. saveQueue' \in Seq([replace : BOOLEAN, blocks : SUBSET Block])
    BY <1>1
  <2>2. thread' \in [Peer -> [save : [replace : BOOLEAN, blocks : SUBSET Block],
                              next : Block \cup {NoBlock}]]
    BY <1>1, NoSaveFacts DEF ThreadType, SaveJobType
  <2>3. QED
    BY <1>1, <1>3, <1>4, <1>5, <2>1, <2>2 DEF TreeInv, TypeOK
<1>7. OneOrphanPerParent' /\ TipIsHighest' /\ TipHeld'
  BY <1>3, <1>4, <1>5 DEF OneOrphanPerParent, TipIsHighest, TipHeld
<1>8. NoStrandedOrphan'
  BY <1>1 DEF NoStrandedOrphan
<1>9. SavedFromTransition'
  BY <1>1 DEF TreeInv, SavedFromTransition
<1>10. JobsFromTransition'
  <2>1. \A q \in Peer : FromTransition(thread'[q].save.blocks)
    BY <1>1, NoSaveFacts DEF Idle
  <2>2. DOMAIN saveQueue' = {}
    BY <1>1
  <2>3. QED
    BY <2>1, <2>2 DEF JobsFromTransition
<1>11. QED
  BY <1>6, <1>7, <1>8, <1>9, <1>10 DEF TreeInv

-----------------------------------------------------------------------------
(***************************************************************************)
(* Peers.                                                                  *)
(***************************************************************************)

\* The steps of a peer leave the tree and the saves alone; at most the orphans go.
LEMMA PeerStepKept ==
  ASSUME TreeInv, TypeOK', orphans' \subseteq orphans,
         UNCHANGED <<blocks, lastBlock, thread, saveQueue, saved, crashed, rescans, restarts>>
  PROVE  TreeInv'
BY DEF TreeInv, OneOrphanPerParent, TipIsHighest, TipHeld, NoStrandedOrphan,
       SavedFromTransition, JobsFromTransition

LEMMA PeerConnectedKept ==
  ASSUME TreeInv, NEW p \in Peer, PeerConnected(p)
  PROVE  TreeInv'
<1>1. /\ connects' = connects + 1 /\ connected' = connected \cup {p}
      /\ UNCHANGED <<blocks, lastBlock, filterPing, thread, txHeight, saveQueue, saved,
                     deleted, crashed, unjoined, filters, rescans, restarts>>
  BY DEF PeerConnected, storeVars, faultVars
<1>2. /\ orphans' \subseteq orphans /\ filter' \in {"loaded", "none"}
      /\ downloadPeer' \in Peer \cup {NoPeer} /\ estimatedHeight' \in Nat
  <2>1. connected' \subseteq Peer
    BY <1>1, Starts DEF TypeOK
  <2>2. QED
    BY <1>1, <2>1, Starts, BlockChainAssumption DEF PeerConnected, LoadBloomFilter, TypeOK
<1>3. TypeOK'
  BY <1>1, <1>2 DEF TreeInv, TypeOK
<1>4. QED
  BY <1>1, <1>2, <1>3, PeerStepKept

LEMMA PeerDisconnectedKept ==
  ASSUME TreeInv, NEW p \in Peer, PeerDisconnected(p)
  PROVE  TreeInv'
<1>1. TypeOK'
  BY DEF TreeInv, TypeOK, PeerDisconnected, treeVars, storeVars, faultVars, countVars
<1>2. QED
  BY <1>1, PeerStepKept DEF PeerDisconnected, treeVars, storeVars, faultVars, countVars

LEMMA FilterStepsKept ==
  ASSUME TreeInv, FilterOutdated \/ \E p \in Peer : UpdateFilter(p) \/ FilterLoadDone(p)
  PROVE  TreeInv'
<1>1. CASE FilterOutdated
  <2>1. TypeOK'
    BY <1>1 DEF TreeInv, TypeOK, FilterOutdated, treeVars, storeVars, faultVars
  <2>2. QED
    BY <1>1, <2>1, PeerStepKept DEF FilterOutdated, treeVars, storeVars, faultVars
<1>2. ASSUME NEW p \in Peer, UpdateFilter(p) PROVE TreeInv'
  <2>1. TypeOK'
    BY <1>2 DEF TreeInv, TypeOK, UpdateFilter, LoadBloomFilter, storeVars, faultVars, countVars
  <2>2. orphans' \subseteq orphans
    BY <1>2 DEF UpdateFilter, LoadBloomFilter
  <2>3. QED
    BY <1>2, <2>1, <2>2, PeerStepKept DEF UpdateFilter, storeVars, faultVars, countVars
<1>3. ASSUME NEW p \in Peer, FilterLoadDone(p) PROVE TreeInv'
  <2>1. TypeOK'
    BY <1>3 DEF TreeInv, TypeOK, FilterLoadDone, treeVars, storeVars, faultVars, countVars
  <2>2. QED
    BY <1>3, <2>1, PeerStepKept DEF FilterLoadDone, treeVars, storeVars, faultVars, countVars
<1>4. QED
  BY <1>1, <1>2, <1>3

LEMMA RescanKept ==
  ASSUME TreeInv, NEW b \in Block, Rescan(b)
  PROVE  TreeInv'
<1>1. /\ rescans' = rescans + 1 /\ lastBlock' = b /\ rescans' \in Nat /\ rescans' # 0
      /\ UNCHANGED <<blocks, orphans, estimatedHeight, connected, downloadPeer, filter,
                     filterPing, thread, txHeight, saveQueue, saved, deleted, crashed, unjoined,
                     connects, filters, restarts>>
  BY Starts DEF Rescan, peerVars, storeVars, faultVars, TypeOK
<1>2. TypeOK'
  BY <1>1 DEF TreeInv, TypeOK
<1>3. QED
  BY <1>1, <1>2
     DEF TreeInv, OneOrphanPerParent, TipIsHighest, TipHeld, NoStrandedOrphan,
         SavedFromTransition, JobsFromTransition

-----------------------------------------------------------------------------
(***************************************************************************)
(* The theorems.                                                           *)
(***************************************************************************)
LEMMA InitTreeInv == Init => TreeInv
<1> SUFFICES ASSUME Init PROVE TreeInv
  OBVIOUS
<1>1. TypeOK
  <2>1. saveQueue \in Seq([replace : BOOLEAN, blocks : SUBSET Block])
    BY DEF Init
  <2>2. thread \in [Peer -> [save : [replace : BOOLEAN, blocks : SUBSET Block],
                             next : Block \cup {NoBlock}]]
    BY NoSaveFacts DEF Init, ThreadType, SaveJobType
  <2>3. QED
    BY <2>1, <2>2, BlockChainAssumption DEF Init, TypeOK
<1>2. OneOrphanPerParent /\ TipIsHighest /\ TipHeld /\ NoStrandedOrphan
  BY BlockChainAssumption DEF Init, OneOrphanPerParent, TipIsHighest, TipHeld, NoStrandedOrphan
<1>3. SavedFromTransition
  BY DEF Init, SavedFromTransition, FromTransition
<1>4. JobsFromTransition
  <2>1. \A p \in Peer : FromTransition(thread[p].save.blocks)
    BY NoSaveFacts DEF Init, Idle
  <2>2. DOMAIN saveQueue = {}
    BY DEF Init
  <2>3. QED
    BY <2>1, <2>2 DEF JobsFromTransition
<1>5. QED
  BY <1>1, <1>2, <1>3, <1>4 DEF TreeInv

LEMMA StutterKept ==
  ASSUME TreeInv, UNCHANGED vars
  PROVE  TreeInv'
BY DEF vars, treeVars, peerVars, storeVars, faultVars, countVars, TreeInv, TypeOK, OneOrphanPerParent,
       TipIsHighest, TipHeld, NoStrandedOrphan, SavedFromTransition, JobsFromTransition

LEMMA NextTreeInv == TreeInv /\ [Next]_vars => TreeInv'
<1> SUFFICES ASSUME TreeInv, [Next]_vars PROVE TreeInv'
  OBVIOUS
<1>1. ASSUME NEW p \in Peer, NEW b \in Block, RelayedBlock(p, b) PROVE TreeInv'
  BY <1>1, DeliverKept DEF RelayedBlock
<1>2. ASSUME NEW p \in Peer, RelayNext(p) PROVE TreeInv'
  <2>1. thread[p].next \in Block
    BY <1>2, Starts DEF RelayNext, ThreadType
  <2>2. QED
    BY <1>2, <2>1, DeliverKept DEF RelayNext
<1>3. ASSUME NEW p \in Peer, SaveBlocks(p) PROVE TreeInv'
  BY <1>3, SaveBlocksKept
<1>4. ASSUME NEW p \in Peer, PeerConnected(p) PROVE TreeInv'
  BY <1>4, PeerConnectedKept
<1>5. ASSUME NEW p \in Peer, PeerDisconnected(p) PROVE TreeInv'
  BY <1>5, PeerDisconnectedKept
<1>6. CASE FilterOutdated \/ \E p \in Peer : UpdateFilter(p) \/ FilterLoadDone(p)
  BY <1>6, FilterStepsKept
<1>7. CASE DeleteSaved
  BY <1>7, DeleteSavedKept
<1>8. CASE InsertSaved
  BY <1>8, InsertSavedKept
<1>9. CASE Restart
  BY <1>9, RestartKept
<1>10. ASSUME NEW b \in Block, Rescan(b) PROVE TreeInv'
  BY <1>10, RescanKept
<1>11. CASE UNCHANGED vars
  BY <1>11, StutterKept
<1>12. QED
  BY <1>1, <1>2, <1>3, <1>4, <1>5, <1>6, <1>7, <1>8, <1>9, <1>10, <1>11 DEF Next

-----------------------------------------------------------------------------
(***************************************************************************)
(* Branches: what verification frees and what a restart keeps.             *)
(***************************************************************************)
LEMMA TreeTyped ==
  ASSUME TreeInv
  PROVE  /\ blocks \subseteq Block /\ lastBlock \in Block
         /\ \A a \in Block : Height[a] \in Nat
         /\ Interval \in Nat /\ Interval > 0
         /\ NoBlock \notin Block
         /\ rescans \in Nat /\ restarts \in Nat /\ crashed \in BOOLEAN /\ unjoined \in BOOLEAN
         /\ txHeight \in [Tx -> Nat]
BY BlockChainAssumption DEF TreeInv, TypeOK

LEMMA LimitFacts ==
  ASSUME NEW h \in Nat
  PROVE  /\ LastTransition(h + 1) \in Nat
         /\ LastTransition(h + 1) - Interval <= LastTransition(h)
         /\ \A k \in Nat : h <= k => LastTransition(h + 1) <= LastTransition(k + 1)
<1>1. h + 1 \in Nat
  OBVIOUS
<1>2. ASSUME NEW k \in Nat, h <= k PROVE LastTransition(h + 1) <= LastTransition(k + 1)
  <2>1. k + 1 \in Nat /\ h + 1 <= k + 1
    BY <1>2
  <2>2. QED
    BY <1>1, <2>1, LastTransitionMonotone
<1>3. QED
  BY <1>1, <1>2, LastTransitionFacts, NextTransition

\* From a held block as high as the tip nothing is missing down to the transition
\* that starts its interval.
LEMMA WalkToTransition ==
  ASSUME TreeInv, BranchesHeld, Caught, NEW c \in blocks, Height[c] = Height[lastBlock]
  PROVE  \E a \in Held(blocks, c) : Height[a] = LastTransition(Height[c])
<1> DEFINE f == LastTransition(Height[c])
<1>1. c \in Block /\ Height[c] \in Nat /\ blocks \subseteq Block
  BY TreeTyped
<1>2. f \in Nat /\ f <= Height[c] /\ WalkLimit <= f
  <2>1. WalkLimit = LastTransition(Height[c] + 1) - Interval
    BY DEF WalkLimit
  <2>2. QED
    BY <1>1, <2>1, LastTransitionFacts, LimitFacts
<1>3. \A d \in Ancestors[c] : d \in Block /\ Height[d] \in Nat /\ Height[d] <= Height[c]
  BY <1>1, AncestorsDef, AncestorLower, TreeTyped
<1>4. ASSUME NEW d \in Ancestors[c], d \in blocks, Height[d] > f
      PROVE  Prev[d] \in blocks
  <2>1. ~IsTransition(d)
    BY <1>1, <1>2, <1>3, <1>4, TransitionBelow DEF IsTransition
  <2>2. d \notin Checkpoint
    BY <2>1, BlockChainAssumption DEF IsTransition
  <2>3. Height[d] > WalkLimit
    <3>1. WalkLimit \in Int
      BY <1>1, LimitFacts, TreeTyped DEF WalkLimit
    <3>2. QED
      BY <1>2, <1>3, <1>4, <3>1
  <2>4. QED
    BY <1>4, <2>1, <2>2, <2>3 DEF BranchesHeld, Caught
<1> HIDE DEF f
<1>5. ASSUME NEW d \in Ancestors[c], f <= Height[d]
      PROVE  d \in blocks
  <2> DEFINE S == {x \in Ancestors[c] : f <= Height[x] => x \in blocks}
  <2>1. c \in S /\ S \in SUBSET Block
    BY <1>1, <1>3, SelfAncestor
  <2>2. ASSUME NEW x \in S, Prev[x] # NoBlock PROVE Prev[x] \in S
    <3>1. Prev[x] \in Ancestors[c]
      BY <1>1, <2>2, ParentAncestor
    <3>2. Height[x] = Height[Prev[x]] + 1
      BY <1>3, <2>2, BlockChainAssumption
    <3>3. f <= Height[Prev[x]] => Height[x] > f
      BY <1>2, <1>3, <3>1, <3>2
    <3>4. QED
      BY <1>2, <1>3, <1>4, <3>1, <3>3
  <2>3. d \in S
    <3> HIDE DEF S
    <3>1. QED
      BY <1>1, <2>1, <2>2, AncestorIn
  <2>4. QED
    BY <1>5, <2>3
<1>6. PICK e \in Ancestors[c] : \A a \in Ancestors[c] : Height[e] <= Height[a]
  BY <1>1, LowestAncestor
<1>7. Height[e] <= f
  <2>1. SUFFICES ASSUME Height[e] > f PROVE FALSE
    BY <1>2, <1>3
  <2>2. e \in blocks /\ Prev[e] \in blocks
    BY <1>2, <1>3, <1>4, <1>5, <2>1
  <2>3. Prev[e] \in Ancestors[c] /\ Height[e] = Height[Prev[e]] + 1
    BY <1>1, <1>3, <2>2, ParentAncestor, BlockChainAssumption
  <2>4. QED
    BY <1>3, <1>6, <2>3
<1>8. PICK a \in Ancestors[c] : Height[a] = f
  BY <1>1, <1>2, <1>7, AncestorAtHeight
<1>9. a \in Held(blocks, c)
  BY <1>1, <1>5, <1>8, HeldReaches
<1>10. QED
  BY <1>8, <1>9 DEF f

\* A step of a handler keeps the branches when the tip does not fall, what joins the
\* tree has its parent there, and the block the main chain began with stays below it.
LEMMA BranchesKept ==
  ASSUME TreeInv, BranchesHeld, Caught, NEW b \in Block, Prev[b] \in blocks,
         Pruned(blocks, b) \subseteq blocks', blocks' \subseteq blocks \cup {b},
         lastBlock' \in Block, Height[lastBlock] <= Height[lastBlock'],
         unjoined => unjoined',
         ~unjoined' => \A e \in blocks : Prev[e] \notin blocks' /\ e \in Ancestors[lastBlock]
                                         => e \in Ancestors[lastBlock']
  PROVE  BranchesHeld'
<1> SUFFICES ASSUME NEW x \in blocks', x \notin Checkpoint, Height[x] > WalkLimit',
                    Prev[x] \notin blocks'
             PROVE  IsTransition(x) /\ (~unjoined' => x \in Ancestors[lastBlock'])
  BY DEF BranchesHeld
<1>1. /\ x \in Block /\ Height[x] \in Nat /\ Height[lastBlock] \in Nat
      /\ Height[lastBlock'] \in Nat /\ Interval \in Nat /\ Interval > 0
  BY TreeTyped
<1>2. WalkLimit \in Int /\ WalkLimit' \in Int /\ WalkLimit <= WalkLimit'
  <2>1. /\ WalkLimit = LastTransition(Height[lastBlock] + 1) - Interval
        /\ WalkLimit' = LastTransition(Height[lastBlock'] + 1) - Interval
    BY DEF WalkLimit
  <2>2. /\ LastTransition(Height[lastBlock] + 1) \in Nat
        /\ LastTransition(Height[lastBlock'] + 1) \in Nat
        /\ LastTransition(Height[lastBlock] + 1) <= LastTransition(Height[lastBlock'] + 1)
    BY <1>1, LimitFacts
  <2>3. QED
    BY <1>1, <2>1, <2>2
<1>3. ASSUME Prev[x] \in blocks
      PROVE  FALSE
  <2>1. Prev[x] \notin Pruned(blocks, b) /\ Prev[x] \in Block /\ Prev[x] # NoBlock
    BY <1>3, TreeTyped
  <2>2. Height[Prev[x]] < WalkLimit /\ Height[x] = Height[Prev[x]] + 1
    BY <1>1, <1>3, <2>1, FreedBelowLimit, BlockChainAssumption DEF TreeInv
  <2>3. Height[Prev[x]] \in Nat
    BY <2>1, TreeTyped
  <2>4. QED
    BY <1>1, <1>2, <2>2, <2>3
<1>4. x \in blocks
  BY <1>3
<1>5. IsTransition(x) /\ (~unjoined => x \in Ancestors[lastBlock])
  BY <1>1, <1>2, <1>3, <1>4 DEF BranchesHeld, Caught
<1>6. QED
  BY <1>4, <1>5

\* A reorganisation that finds its join keeps what the main chain began with.
LEMMA JoinKeepsRoot ==
  ASSUME NEW bs, NEW b \in Block, NEW tip \in Block, NEW j \in Joins(bs, b, tip),
         NEW e \in Ancestors[tip], Prev[e] \notin bs
  PROVE  e \in Ancestors[b]
<1>1. j \in Held(bs, b) /\ j \in Held(bs, tip) /\ j \in Ancestors[b] /\ j \in Ancestors[tip]
  BY DEF Joins, Held
<1>2. \A a \in Ancestors[tip] : a \in Block /\ Height[a] \in Nat /\ Height[a] <= Height[tip]
  BY AncestorsDef, AncestorLower, BlockChainAssumption
<1>3. Height[e] <= Height[j]
  <2>1. SUFFICES ASSUME Height[j] < Height[e] PROVE FALSE
    BY <1>1, <1>2
  <2>2. Prev[e] # NoBlock
    BY <1>1, <1>2, <2>1, RootIsLowest
  <2>3. Prev[e] \in Ancestors[tip] /\ Height[e] = Height[Prev[e]] + 1
    BY <1>2, <2>2, ParentAncestor, BlockChainAssumption
  <2>4. Height[j] <= Height[Prev[e]] /\ Prev[e] # tip
    BY <1>1, <1>2, <2>1, <2>3
  <2>5. QED
    BY <1>1, <2>3, <2>4, HeldAbove
<1>4. e \in Ancestors[j]
  BY <1>1, <1>3, AncestorsAreChain
<1>5. QED
  BY <1>1, <1>4, AncestorOfAncestor

LEMMA DeliverBranches ==
  ASSUME TreeInv, BranchesHeld, NEW p \in Peer, NEW b \in Block, Deliver(p, b)
  PROVE  BranchesHeld'
<1> SUFFICES ASSUME rescans' = 0, ~crashed'
             PROVE  BranchesHeld'
  BY DEF BranchesHeld
<1>1. Caught
  BY DEF Deliver, countVars, Caught
<1>2. b \in Block /\ Height[b] \in Nat /\ lastBlock \in Block /\ Height[lastBlock] \in Nat
  BY TreeTyped
<1>3. CASE FilterMissing(p, b) \/ Orphaned(p, b)
  <2>1. UNCHANGED <<blocks, lastBlock, crashed, unjoined, rescans>>
    <3>1. UNCHANGED <<blocks, lastBlock, crashed>>
      BY <1>3 DEF FilterMissing, Orphaned, Dropped
    <3>2. unjoined' = unjoined
      BY <1>3, <3>1 DEF Deliver, FilterMissing, Orphaned, Reorganises, IsFork, Verified
    <3>3. QED
      BY <3>1, <3>2 DEF Deliver, countVars
  <2>2. QED
    BY <2>1 DEF BranchesHeld, WalkLimit
<1>4. CASE /\ \/ Rejected(p, b) \/ AlreadyHeld(p, b) \/ MinedDuringRescan(p, b)
              \/ ForksBelowCheckpoint(p, b) \/ ForksChain(p, b)
           /\ unjoined' = unjoined
  <2>1. Prev[b] \in blocks /\ (blocks' = Pruned(blocks, b) \/ blocks' = Pruned(blocks, b) \cup {b})
    BY <1>4 DEF Rejected, AlreadyHeld, MinedDuringRescan, ForksBelowCheckpoint, ForksChain,
                IsFork, Verified
  <2>2. lastBlock' = lastBlock
    BY <1>4 DEF Rejected, AlreadyHeld, MinedDuringRescan, ForksBelowCheckpoint, ForksChain,
                Fault, Dropped
  <2>3. Pruned(blocks, b) \subseteq blocks' /\ blocks' \subseteq blocks \cup {b}
    BY <2>1, PrunedSubset
  <2>4. QED
    BY <1>1, <1>2, <1>4, <2>1, <2>2, <2>3, BranchesKept
<1>5. CASE ExtendsChain(p, b) /\ unjoined' = unjoined
  <2>1. Prev[b] \in blocks /\ Prev[b] = lastBlock /\ blocks' = Pruned(blocks, b) \cup {b}
    BY <1>5 DEF ExtendsChain, Verified
  <2>2. lastBlock' = b
    BY <1>5 DEF ExtendsChain, Fault
  <2>3. Prev[b] # NoBlock /\ Height[b] = Height[lastBlock] + 1
    BY <1>2, <2>1, TreeTyped, BlockChainAssumption
  <2>4. Ancestors[lastBlock] \subseteq Ancestors[lastBlock']
    BY <2>1, <2>2, <2>3, AncestorsOfChild
  <2>5. Pruned(blocks, b) \subseteq blocks' /\ blocks' \subseteq blocks \cup {b}
    BY <2>1, PrunedSubset
  <2>6. QED
    BY <1>1, <1>2, <1>5, <2>1, <2>2, <2>3, <2>4, <2>5, BranchesKept
<1>6. CASE Reorganises(p, b)
  <2>1. Prev[b] \in blocks /\ blocks' = Pruned(blocks, b) \cup {b} /\ Height[b] > Height[lastBlock]
    BY <1>6 DEF Reorganises, IsFork, Verified, Longer
  <2>2. lastBlock' = b /\ SwitchesTo(b, Joins(blocks', b, lastBlock), StopsAt(blocks', b, lastBlock))
    BY <1>6 DEF Reorganises, Fault
  <2>3. unjoined => unjoined'
    BY <2>2 DEF SwitchesTo
  <2>4. ASSUME ~unjoined', NEW e \in blocks, Prev[e] \notin blocks', e \in Ancestors[lastBlock]
        PROVE  e \in Ancestors[lastBlock']
    <3>1. PICK j : j \in Joins(blocks', b, lastBlock)
      BY <2>2, <2>4 DEF SwitchesTo
    <3>2. QED
      BY <1>2, <2>2, <2>4, <3>1, JoinKeepsRoot
  <2>5. Pruned(blocks, b) \subseteq blocks' /\ blocks' \subseteq blocks \cup {b}
    BY <2>1, PrunedSubset
  <2>6. QED
    BY <1>1, <1>2, <2>1, <2>2, <2>3, <2>4, <2>5, BranchesKept
<1>7. QED
  BY <1>3, <1>4, <1>5, <1>6 DEF Deliver

\* After a restart only the transition that the chain is rebuilt from lacks its parent.
LEMMA RestartBranches ==
  ASSUME TreeInv, Restart
  PROVE  BranchesHeld'
<1>1. PICK os \in OnePerParent(saved) :
        \/ blocks' = Checkpoint
        \/ \E first \in LastTransitions(saved) :
             /\ blocks' = Checkpoint \cup Rebuilt(os, first)
             /\ lastBlock' \in Rebuilt(os, first)
  BY DEF Restart
<1>2. CASE blocks' = Checkpoint
  BY <1>2 DEF BranchesHeld
<1>3. ASSUME NEW first \in LastTransitions(saved),
             blocks' = Checkpoint \cup Rebuilt(os, first), lastBlock' \in Rebuilt(os, first)
      PROVE  BranchesHeld'
  <2>1. os \subseteq Block /\ first \in Block /\ IsTransition(first)
    BY DEF TreeInv, TypeOK, OnePerParent, LastTransitions
  <2>2. ASSUME NEW x \in Rebuilt(os, first), x # first
        PROVE  Prev[x] \in Rebuilt(os, first)
    <3>1. /\ x \in Block /\ first \in Ancestors[x]
          /\ \A a \in Ancestors[x] : Height[a] > Height[first] => a \in os
      BY <2>1, <2>2 DEF Rebuilt
    <3>2. Height[first] < Height[x]
      BY <2>2, <3>1, AncestorStrictlyLower
    <3>3. Prev[x] # NoBlock
      BY <2>1, <3>1, <3>2, SelfAncestor, RootIsLowest, BlockChainAssumption
    <3>4. Prev[x] \in Block /\ Height[x] = Height[Prev[x]] + 1 /\ Prev[x] \in Ancestors[x]
      BY <3>1, <3>3, SelfAncestor, ParentAncestor, BlockChainAssumption
    <3>5. first \in Ancestors[Prev[x]] /\ Ancestors[Prev[x]] \subseteq Ancestors[x]
      BY <2>2, <3>1, <3>3, AncestorsOfChild
    <3>6. Prev[x] = first \/ Prev[x] \in os
      <4>1. CASE Prev[x] = first
        BY <4>1
      <4>2. CASE Prev[x] # first
        BY <3>1, <3>4, <3>5, <4>2, AncestorStrictlyLower
      <4>3. QED
        BY <4>1, <4>2
    <3>7. QED
      BY <3>1, <3>5, <3>6 DEF Rebuilt
  <2>3. first \in Ancestors[lastBlock']
    BY <1>3 DEF Rebuilt
  <2>4. QED
    BY <1>3, <2>1, <2>2, <2>3 DEF BranchesHeld
<1>4. QED
  BY <1>1, <1>2, <1>3

LEMMA NextBranches ==
  ASSUME TreeInv, BranchesHeld, [Next]_vars
  PROVE  BranchesHeld'
<1>1. ASSUME NEW p \in Peer, NEW b \in Block, RelayedBlock(p, b) PROVE BranchesHeld'
  BY <1>1, DeliverBranches DEF RelayedBlock
<1>2. ASSUME NEW p \in Peer, RelayNext(p) PROVE BranchesHeld'
  <2>1. thread[p].next \in Block
    BY <1>2, Starts DEF RelayNext, ThreadType
  <2>2. QED
    BY <1>2, <2>1, DeliverBranches DEF RelayNext
<1>3. ASSUME UNCHANGED <<blocks, lastBlock, crashed, unjoined, rescans>> PROVE BranchesHeld'
  BY <1>3 DEF BranchesHeld, WalkLimit
<1>4. ASSUME NEW p \in Peer,
             SaveBlocks(p) \/ PeerConnected(p) \/ PeerDisconnected(p) \/ UpdateFilter(p) \/ FilterLoadDone(p)
      PROVE  BranchesHeld'
  <2>1. UNCHANGED <<blocks, lastBlock, crashed, unjoined, rescans>>
    BY <1>4 DEF SaveBlocks, PeerConnected, PeerDisconnected, UpdateFilter, FilterLoadDone,
                treeVars, faultVars, countVars
  <2>2. QED
    BY <1>3, <2>1
<1>5. CASE FilterOutdated \/ DeleteSaved \/ InsertSaved \/ UNCHANGED vars
  <2>1. UNCHANGED <<blocks, lastBlock, crashed, unjoined, rescans>>
    BY <1>5 DEF FilterOutdated, DeleteSaved, InsertSaved, vars, treeVars, faultVars, countVars
  <2>2. QED
    BY <1>3, <2>1
<1>6. CASE Restart
  BY <1>6, RestartBranches
<1>7. ASSUME NEW b \in Block, Rescan(b) PROVE BranchesHeld'
  BY <1>7, TreeTyped DEF Rescan, BranchesHeld
<1>8. QED
  BY <1>1, <1>2, <1>4, <1>5, <1>6, <1>7 DEF Next

-----------------------------------------------------------------------------
(***************************************************************************)
(* The heights of the wallet's transactions.                               *)
(***************************************************************************)
HeightsOf(heights, tip) ==
  \A t \in Tx : \/ \E a \in Ancestors[tip] : t \in TxIn[a] /\ heights[t] = Height[a]
                \/ /\ \A a \in Ancestors[tip] : t \notin TxIn[a]
                   /\ heights[t] = TX_UNCONFIRMED

LEMMA ExtensionConfirms ==
  ASSUME NEW h \in [Tx -> Nat], NEW tip \in Block, NEW b \in Block, HeightsOf(h, tip),
         Ancestors[b] = {b} \cup Ancestors[tip]
  PROVE  HeightsOf(Confirm(h, b), b)
<1> SUFFICES ASSUME NEW t \in Tx
             PROVE  \/ \E a \in Ancestors[b] : t \in TxIn[a] /\ Confirm(h, b)[t] = Height[a]
                    \/ /\ \A a \in Ancestors[b] : t \notin TxIn[a]
                       /\ Confirm(h, b)[t] = TX_UNCONFIRMED
  BY DEF HeightsOf
<1>1. Confirm(h, b)[t] = IF t \in TxIn[b] THEN Height[b] ELSE h[t]
  BY DEF Confirm
<1>2. QED
  BY <1>1 DEF HeightsOf

\* Confirming again what a block of the main chain confirmed changes nothing else.
LEMMA RepetitionConfirms ==
  ASSUME NEW h \in [Tx -> Nat], NEW tip \in Block, NEW b \in Ancestors[tip], HeightsOf(h, tip)
  PROVE  HeightsOf(Confirm(h, b), tip)
<1> SUFFICES ASSUME NEW t \in Tx
             PROVE  \/ \E a \in Ancestors[tip] : t \in TxIn[a] /\ Confirm(h, b)[t] = Height[a]
                    \/ /\ \A a \in Ancestors[tip] : t \notin TxIn[a]
                       /\ Confirm(h, b)[t] = TX_UNCONFIRMED
  BY DEF HeightsOf
<1>1. Confirm(h, b)[t] = IF t \in TxIn[b] THEN Height[b] ELSE h[t]
  BY DEF Confirm
<1>2. QED
  BY <1>1 DEF HeightsOf

\* What was above the join is unconfirmed, what the branch has above it is confirmed,
\* and below it both chains are the same.
LEMMA ReorganisationConfirms ==
  ASSUME NEW h \in [Tx -> Nat], NEW tip \in Block, NEW b \in Block, HeightsOf(h, tip),
         NEW bs, NEW j \in Joins(bs, b, tip)
  PROVE  HeightsOf(Reorganised(h, bs, b, j), b)
<1>1. j \in Held(bs, b) /\ j \in Ancestors[b] /\ j \in Ancestors[tip] /\ j \in Block
  BY AncestorsDef DEF Joins, Held
<1>2. /\ \A a \in Ancestors[b] : a \in Block /\ Height[a] \in Nat
      /\ \A a \in Ancestors[tip] : a \in Block /\ Height[a] \in Nat
      /\ Height[j] \in Nat
  BY <1>1, AncestorsDef, BlockChainAssumption
<1>3. ASSUME NEW a \in Ancestors[b], Height[a] <= Height[j] PROVE a \in Ancestors[tip]
  BY <1>1, <1>3, AncestorsAreChain, AncestorOfAncestor
<1>4. ASSUME NEW a \in Ancestors[tip], Height[a] <= Height[j] PROVE a \in Ancestors[b]
  BY <1>1, <1>4, AncestorsAreChain, AncestorOfAncestor
<1> DEFINE branch == {a \in Held(bs, b) : Height[a] > Height[j]}
<1>5. \A a \in Ancestors[b] : Height[a] > Height[j] => a \in branch
  <2>1. ASSUME NEW a \in Ancestors[b], Height[a] > Height[j] PROVE a \in Held(bs, b)
    BY <1>1, <1>2, <2>1, HeldAbove
  <2>2. QED
    BY <2>1
<1>6. branch \subseteq Ancestors[b] /\ \A a \in branch : Height[a] > Height[j]
  BY DEF Held
<1> SUFFICES ASSUME NEW t \in Tx
             PROVE  \/ \E a \in Ancestors[b] : t \in TxIn[a] /\ Reorganised(h, bs, b, j)[t] = Height[a]
                    \/ /\ \A a \in Ancestors[b] : t \notin TxIn[a]
                       /\ Reorganised(h, bs, b, j)[t] = TX_UNCONFIRMED
  BY DEF HeightsOf
<1>7. Reorganised(h, bs, b, j)[t] =
        IF \E a \in branch : t \in TxIn[a]
          THEN Height[CHOOSE a \in branch : t \in TxIn[a]]
          ELSE UnconfirmedAfter(h, Height[j])[t]
  BY DEF Reorganised
<1>8. UnconfirmedAfter(h, Height[j])[t] = IF h[t] > Height[j] THEN TX_UNCONFIRMED ELSE h[t]
  BY DEF UnconfirmedAfter
<1> HIDE DEF branch
<1>9. CASE \E a \in branch : t \in TxIn[a]
  <2>1. (CHOOSE a \in branch : t \in TxIn[a]) \in branch /\ t \in TxIn[CHOOSE a \in branch : t \in TxIn[a]]
    BY <1>9
  <2>2. QED
    BY <1>6, <1>7, <1>9, <2>1
<1>10. CASE ~\E a \in branch : t \in TxIn[a]
  <2>1. Reorganised(h, bs, b, j)[t] = IF h[t] > Height[j] THEN TX_UNCONFIRMED ELSE h[t]
    BY <1>7, <1>8, <1>10
  <2>2. \A a \in Ancestors[b] : t \in TxIn[a] => Height[a] <= Height[j] /\ a \in Ancestors[tip]
    BY <1>2, <1>3, <1>5, <1>10
  <2>3. CASE \E a \in Ancestors[tip] : t \in TxIn[a] /\ h[t] = Height[a]
    <3>1. PICK a \in Ancestors[tip] : t \in TxIn[a] /\ h[t] = Height[a]
      BY <2>3
    <3>2. CASE Height[a] <= Height[j]
      <4>1. a \in Ancestors[b] /\ Reorganised(h, bs, b, j)[t] = Height[a]
        BY <1>2, <1>4, <2>1, <3>1, <3>2
      <4>2. QED
        BY <3>1, <4>1
    <3>3. CASE Height[a] > Height[j]
      <4>1. ASSUME NEW x \in Ancestors[b], t \in TxIn[x] PROVE FALSE
        <5>1. x \in Ancestors[tip] /\ x # a
          BY <1>2, <2>2, <3>3, <4>1
        <5>2. QED
          BY <3>1, <4>1, <5>1, ConfirmedOnce
      <4>2. QED
        BY <2>1, <3>1, <3>3, <4>1
    <3>4. QED
      BY <1>2, <3>2, <3>3
  <2>4. CASE (\A a \in Ancestors[tip] : t \notin TxIn[a]) /\ h[t] = TX_UNCONFIRMED
    <3>1. Height[j] < TX_UNCONFIRMED
      BY <1>1, BlockChainAssumption
    <3>2. QED
      BY <2>1, <2>2, <2>4, <3>1
  <2>5. QED
    BY <2>3, <2>4 DEF HeightsOf
<1>11. QED
  BY <1>9, <1>10

LEMMA DeliverHeights ==
  ASSUME TreeInv, HeightsFollowMainChain, NEW p \in Peer, NEW b \in Block, Deliver(p, b)
  PROVE  HeightsFollowMainChain'
<1> SUFFICES ASSUME rescans' = 0, restarts' = 0, ~unjoined'
             PROVE  HeightsOf(txHeight', lastBlock')
  BY DEF HeightsFollowMainChain, HeightsOf
<1>1. UNCHANGED <<rescans, restarts>> /\ ~crashed
  BY DEF Deliver, countVars
<1>2. ~unjoined
  <2>1. unjoined => unjoined'
    BY DEF Deliver, Reorganises, SwitchesTo
  <2>2. QED
    BY <2>1
<1>3. HeightsOf(txHeight, lastBlock)
  BY <1>1, <1>2 DEF HeightsFollowMainChain, HeightsOf
<1>4. lastBlock \in Block /\ blocks \subseteq Block /\ txHeight \in [Tx -> Nat]
  BY TreeTyped
<1>5. CASE UNCHANGED <<lastBlock, txHeight>>
  BY <1>3, <1>5
<1>6. CASE ExtendsChain(p, b) /\ ~TipFreed(b)
  <2>1. lastBlock' = b /\ txHeight' = Confirm(txHeight, b) /\ Prev[b] = lastBlock
    BY <1>6 DEF ExtendsChain
  <2>2. Ancestors[b] = {b} \cup Ancestors[lastBlock]
    BY <1>4, <2>1, AncestorsOfChild, BlockChainAssumption
  <2>3. QED
    BY <1>3, <1>4, <2>1, <2>2, ExtensionConfirms
<1>7. CASE /\ AlreadyHeld(p, b) /\ b \in Held(blocks', lastBlock)
           /\ txHeight' = Confirm(txHeight, b) /\ lastBlock' = lastBlock
  <2>1. b \in Ancestors[lastBlock]
    BY <1>7 DEF Held
  <2>2. QED
    BY <1>3, <1>4, <1>7, <2>1, RepetitionConfirms
<1>8. CASE /\ Reorganises(p, b) /\ lastBlock' = b
           /\ SwitchesTo(b, Joins(blocks', b, lastBlock), StopsAt(blocks', b, lastBlock))
  <2>1. PICK j \in Joins(blocks', b, lastBlock) :
          txHeight' = Reorganised(txHeight, blocks', b, j)
    BY <1>8 DEF SwitchesTo
  <2>2. QED
    BY <1>3, <1>4, <1>8, <2>1, ReorganisationConfirms
<1>9. CASE FilterMissing(p, b) \/ Orphaned(p, b) \/ Rejected(p, b) \/ ForksBelowCheckpoint(p, b)
           \/ MinedDuringRescan(p, b) \/ ForksChain(p, b)
  <2>1. UNCHANGED <<lastBlock, txHeight>>
    BY <1>9 DEF FilterMissing, Orphaned, Rejected, ForksBelowCheckpoint, MinedDuringRescan,
                ForksChain, Dropped, Fault
  <2>2. QED
    BY <1>5, <2>1
<1>10. CASE AlreadyHeld(p, b)
  <2>1. \/ UNCHANGED <<lastBlock, txHeight>>
        \/ /\ b \in Held(blocks', lastBlock)
           /\ txHeight' = Confirm(txHeight, b) /\ lastBlock' = lastBlock
    BY <1>10 DEF AlreadyHeld, Fault
  <2>2. QED
    BY <1>5, <1>7, <1>10, <2>1
<1>11. CASE ExtendsChain(p, b)
  BY <1>5, <1>6, <1>11 DEF ExtendsChain, Fault
<1>12. CASE Reorganises(p, b)
  <2>1. \/ UNCHANGED <<lastBlock, txHeight>>
        \/ /\ lastBlock' = b
           /\ SwitchesTo(b, Joins(blocks', b, lastBlock), StopsAt(blocks', b, lastBlock))
    BY <1>12 DEF Reorganises, Fault
  <2>2. QED
    BY <1>5, <1>8, <1>12, <2>1
<1>13. QED
  BY <1>9, <1>10, <1>11, <1>12 DEF Deliver

LEMMA NextHeights ==
  ASSUME TreeInv, HeightsFollowMainChain, [Next]_vars
  PROVE  HeightsFollowMainChain'
<1>1. ASSUME NEW p \in Peer, NEW b \in Block, RelayedBlock(p, b) PROVE HeightsFollowMainChain'
  BY <1>1, DeliverHeights DEF RelayedBlock
<1>2. ASSUME NEW p \in Peer, RelayNext(p) PROVE HeightsFollowMainChain'
  <2>1. thread[p].next \in Block
    BY <1>2, Starts DEF RelayNext, ThreadType
  <2>2. QED
    BY <1>2, <2>1, DeliverHeights DEF RelayNext
<1>3. ASSUME UNCHANGED <<lastBlock, txHeight, unjoined, rescans, restarts>>
      PROVE  HeightsFollowMainChain'
  BY <1>3 DEF HeightsFollowMainChain
<1>4. ASSUME NEW p \in Peer,
             SaveBlocks(p) \/ PeerConnected(p) \/ PeerDisconnected(p) \/ UpdateFilter(p)
             \/ FilterLoadDone(p)
      PROVE  HeightsFollowMainChain'
  <2>1. UNCHANGED <<lastBlock, txHeight, unjoined, rescans, restarts>>
    BY <1>4 DEF SaveBlocks, PeerConnected, PeerDisconnected, UpdateFilter, FilterLoadDone,
                treeVars, faultVars, countVars
  <2>2. QED
    BY <1>3, <2>1
<1>5. CASE FilterOutdated \/ DeleteSaved \/ InsertSaved \/ UNCHANGED vars
  <2>1. UNCHANGED <<lastBlock, txHeight, unjoined, rescans, restarts>>
    BY <1>5 DEF FilterOutdated, DeleteSaved, InsertSaved, vars, treeVars, faultVars, countVars
  <2>2. QED
    BY <1>3, <2>1
<1>6. CASE Restart
  BY <1>6, TreeTyped DEF Restart, HeightsFollowMainChain
<1>7. ASSUME NEW b \in Block, Rescan(b) PROVE HeightsFollowMainChain'
  BY <1>7, TreeTyped DEF Rescan, HeightsFollowMainChain
<1>8. QED
  BY <1>1, <1>2, <1>4, <1>5, <1>6, <1>7 DEF Next

\* No height is set before the first block, and only the checkpoints are held.
LEMMA InitInv == Init => IInv
<1> SUFFICES ASSUME Init PROVE IInv
  OBVIOUS
<1>1. BranchesHeld
  BY DEF Init, BranchesHeld
<1>2. \A a \in Ancestors[lastBlock] : TxIn[a] = {}
  BY NothingBeforeBirthday DEF Init
<1>3. HeightsFollowMainChain
  BY <1>2 DEF Init, HeightsFollowMainChain
<1>4. QED
  BY <1>1, <1>3, InitTreeInv DEF IInv

LEMMA NextInv == IInv /\ [Next]_vars => IInv'
BY NextTreeInv, NextBranches, NextHeights DEF IInv

\* Blocks, forks, saves, restarts, filters and rescans, by any number of peers in
\* any order, keep the inductive invariant.
THEOREM Invariance == Spec => []IInv
<1>1. Init => IInv
  BY InitInv
<1>2. IInv /\ [Next]_vars => IInv'
  BY NextInv
<1>3. QED
  BY <1>1, <1>2, PTL DEF Spec

\* Every variable keeps its type.
THEOREM TypeCorrect == Spec => []TypeOK
<1>1. IInv => TypeOK
  BY DEF IInv, TreeInv
<1>2. QED
  BY <1>1, Invariance, PTL

\* The tip that _peerRelayedBlock chooses is never below another block it holds.
THEOREM HighestTip == Spec => []TipIsHighest
<1>1. IInv => TipIsHighest
  BY DEF IInv, TreeInv
<1>2. QED
  BY <1>1, Invariance, PTL

\* The blocks that verification frees never include the tip, unless a rescan moved
\* it back.
THEOREM HeldTip == Spec => []TipHeld
<1>1. IInv => TipHeld
  BY DEF IInv, TreeInv
<1>2. QED
  BY <1>1, Invariance, PTL

\* No orphan outlives the arrival of its parent.
THEOREM NoOrphanStranded == Spec => []NoStrandedOrphan
<1>1. IInv => NoStrandedOrphan
  BY DEF IInv, TreeInv
<1>2. QED
  BY <1>1, Invariance, PTL

\* From what is in the database a restart can walk back to a transition, whenever
\* the process dies.
THEOREM SavedReachTransition == Spec => []SavedFromTransition
<1>1. IInv => SavedFromTransition
  BY DEF IInv, TreeInv
<1>2. QED
  BY <1>1, Invariance, PTL

\* The step of TipOnlyRises.
Rises ==
  lastBlock' = lastBlock \/ Height[lastBlock'] > Height[lastBlock]
  \/ rescans' # rescans \/ restarts' # restarts

LEMMA NextRises ==
  ASSUME TreeInv, [Next]_vars
  PROVE  [Rises]_vars
<1>1. ASSUME NEW p \in Peer, NEW b \in Block, Deliver(p, b) PROVE Rises
  <2>1. CASE Prev[b] = lastBlock /\ lastBlock' = b
    <3>1. Prev[b] \in Block /\ Prev[b] # NoBlock
      BY <2>1, Starts, BlockChainAssumption
    <3>2. Height[b] = Height[lastBlock] + 1 /\ Height[lastBlock] \in Nat
      BY <2>1, <3>1, BlockChainAssumption
    <3>3. QED
      BY <2>1, <3>2 DEF Rises
  <2>2. CASE Longer(b) /\ lastBlock' = b
    BY <2>2 DEF Longer, Rises
  <2>3. CASE lastBlock' = lastBlock
    BY <2>3 DEF Rises
  <2>4. QED
    BY <1>1, <2>1, <2>2, <2>3
       DEF Deliver, FilterMissing, Orphaned, Rejected, ExtendsChain, AlreadyHeld,
           MinedDuringRescan, ForksBelowCheckpoint, ForksChain, Reorganises,
           Dropped, Fault
<1>2. ASSUME NEW p \in Peer, RelayNext(p) PROVE Rises
  <2>1. thread[p].next \in Block
    BY <1>2, Starts DEF RelayNext, ThreadType
  <2>2. QED
    BY <1>1, <1>2, <2>1 DEF RelayNext
<1>3. ASSUME Restart PROVE Rises
  <2>1. restarts \in Nat /\ restarts' = restarts + 1
    BY <1>3, Starts DEF Restart, TypeOK
  <2>2. QED
    BY <2>1 DEF Rises
<1>4. ASSUME NEW b \in Block, Rescan(b) PROVE Rises
  <2>1. rescans \in Nat /\ rescans' = rescans + 1
    BY <1>4, Starts DEF Rescan, TypeOK
  <2>2. QED
    BY <2>1 DEF Rises
<1>5. ASSUME NEW p \in Peer,
             \/ SaveBlocks(p) \/ PeerConnected(p) \/ PeerDisconnected(p)
             \/ UpdateFilter(p) \/ FilterLoadDone(p)
      PROVE  Rises
  BY <1>5 DEF SaveBlocks, PeerConnected, PeerDisconnected, UpdateFilter, FilterLoadDone,
              treeVars, Rises
<1>6. ASSUME FilterOutdated \/ DeleteSaved \/ InsertSaved PROVE Rises
  BY <1>6 DEF FilterOutdated, DeleteSaved, InsertSaved, treeVars, Rises
<1>7. ASSUME NEW p \in Peer, NEW b \in Block, RelayedBlock(p, b) PROVE Rises
  BY <1>1, <1>7 DEF RelayedBlock
<1>8. ASSUME Next PROVE Rises
  BY <1>2, <1>3, <1>4, <1>5, <1>6, <1>7, <1>8 DEF Next
<1>9. QED
  BY <1>8

\* One step of _peerRelayedBlock moves the tip up or not at all.
THEOREM TipRises == Spec => TipOnlyRises
<1>1. IInv /\ [Next]_vars => [Rises]_vars
  BY NextRises DEF IInv
<1>2. QED
  BY <1>1, Invariance, PTL DEF TipOnlyRises, Rises, Spec
\* A transaction's height is that of its block in the main chain, under any order of
\* blocks and forks.
THEOREM HeightsAreMainChains == Spec => []HeightsFollowMainChain
<1>1. IInv => HeightsFollowMainChain
  BY DEF IInv
<1>2. QED
  BY <1>1, Invariance, PTL

\* The walk that saveBlocks and the next verification make back from the tip reaches
\* the transition that starts its interval.
THEOREM TipReaches == Spec => []TipReachesTransition
<1>1. IInv => TipReachesTransition
  <2> SUFFICES ASSUME IInv, rescans = 0, ~crashed
               PROVE  \E a \in Held(blocks, lastBlock) : IsTransition(a)
    BY DEF TipReachesTransition
  <2>1. TreeInv /\ BranchesHeld /\ Caught /\ lastBlock \in blocks
    BY DEF IInv, TreeInv, TipHeld, Caught
  <2>2. Height[lastBlock] \in Nat
    BY <2>1, TreeTyped
  <2>3. PICK a \in Held(blocks, lastBlock) : Height[a] = LastTransition(Height[lastBlock])
    BY <2>1, WalkToTransition
  <2>4. QED
    BY <2>2, <2>3, LastTransitionFacts DEF IsTransition
<1>2. QED
  BY <1>1, Invariance, PTL

\* A transition above the tip finds the one before it, on whatever branch.
LEMMA VerifiableTransition ==
  ASSUME TreeInv, BranchesHeld, Caught, NEW b \in Block, Prev[b] \in blocks, IsTransition(b),
         Height[b] > Height[lastBlock]
  PROVE  TransitionBefore(blocks, b) # {}
<1> DEFINE c == Prev[b]
<1>1. /\ lastBlock \in Block /\ Height[lastBlock] \in Nat /\ Height[b] \in Nat
      /\ c \in Block /\ c # NoBlock /\ Height[c] \in Nat /\ Interval \in Nat
  BY TreeTyped
<1>2. Height[b] = Height[c] + 1
  BY <1>1, BlockChainAssumption
<1>3. CASE Interval = 1
  <2>1. c \in Ancestors[b]
    BY <1>1, SelfAncestor, ParentAncestor
  <2>2. ASSUME NEW d \in Ancestors[b], Height[c] <= Height[d] PROVE d \in blocks \cup {b}
    <3>1. d = b \/ d \in Ancestors[c]
      BY <1>1, AncestorsOfChild
    <3>2. d \in Ancestors[c] /\ d # c => Height[d] < Height[c]
      BY <1>1, AncestorStrictlyLower
    <3>3. Height[d] \in Nat
      BY AncestorsDef, TreeTyped
    <3>4. QED
      BY <1>1, <2>2, <3>1, <3>2, <3>3
  <2>3. c \in Held(blocks, b)
    BY <2>1, <2>2, HeldReaches
  <2>4. QED
    BY <1>2, <1>3, <2>3 DEF TransitionBefore
<1>4. CASE Interval # 1
  <2>1. Height[c] = Height[lastBlock]
    BY <1>1, <1>2, <1>4, TransitionNearTip DEF TreeInv
  <2>2. PICK a \in Held(blocks, c) : Height[a] = LastTransition(Height[c])
    BY <2>1, WalkToTransition
  <2>3. LastTransition(Height[c]) + Interval = Height[c] + 1
    BY <1>1, <1>2, TransitionAfter DEF IsTransition
  <2>4. a \in Held(blocks, b)
    BY <1>1, <2>2, HeldOfParent
  <2>5. QED
    BY <1>2, <2>2, <2>3, <2>4 DEF TransitionBefore
<1>5. QED
  BY <1>3, <1>4

\* No honest block above the tip is refused for want of the transition before it.
THEOREM NextTransitionVerifiable == Spec => []TransitionsVerifiable
<1>1. IInv => TransitionsVerifiable
  BY VerifiableTransition DEF IInv, TransitionsVerifiable, Caught
<1>2. QED
  BY <1>1, Invariance, PTL

-----------------------------------------------------------------------------
(***************************************************************************)
(* No handler of a recent block follows a null or freed block.             *)
(***************************************************************************)

\* Heights are bounded, so that a branch has a highest block with a given property.
LEMMA HighestBlock ==
  ASSUME NEW S \in SUBSET Block, S # {}
  PROVE  \E m \in S : \A c \in S : Height[c] <= Height[m]
<1> DEFINE D == {n \in Nat : \E c \in S : Height[c] + n = TX_UNCONFIRMED}
<1>1. \A c \in S : Height[c] \in Nat /\ TX_UNCONFIRMED \in Nat /\ Height[c] < TX_UNCONFIRMED
  BY BlockChainAssumption
<1>2. \A c \in S : TX_UNCONFIRMED - Height[c] \in D
  BY <1>1
<1>3. D \in SUBSET Nat /\ D # {}
  BY <1>2
<1> HIDE DEF D
<1>4. PICK n \in D : \A k \in D : n <= k
  BY <1>3, LeastNat
<1>5. PICK m \in S : Height[m] + n = TX_UNCONFIRMED
  BY <1>4 DEF D
<1>6. ASSUME NEW c \in S PROVE Height[c] <= Height[m]
  BY <1>1, <1>2, <1>3, <1>4, <1>5
<1>7. QED
  BY <1>6

\* What Recent(b) says of the block where b leaves the main chain.
LEMMA RecentFacts ==
  ASSUME TreeInv, NEW b \in Block, Recent(b)
  PROVE  \E a \in Ancestors[b] :
           /\ a \in Held(blocks, lastBlock) /\ a \in Ancestors[lastBlock]
           /\ a \in Block /\ Height[a] \in Nat /\ WalkLimit \in Int /\ Height[a] >= WalkLimit
           /\ \A c \in Checkpoint : Height[c] <= Height[a]
           /\ Height[a] <= Height[b]
<1>1. Height[lastBlock] \in Nat /\ Interval \in Nat
  BY TreeTyped
<1>2. WalkLimit \in Int
  BY <1>1, LimitFacts DEF WalkLimit
<1>3. PICK a \in Ancestors[b] \cap Held(blocks, lastBlock) :
        Height[a] >= WalkLimit /\ \A c \in Checkpoint : Height[c] <= Height[a]
  BY DEF Recent
<1>4. a \in Block /\ Height[a] \in Nat /\ Height[a] <= Height[b]
  BY <1>3, AncestorsDef, AncestorLower, TreeTyped
<1>5. QED
  BY <1>2, <1>3, <1>4 DEF Held

\* The walk from the tip to the height of a block that is relayed again.
LEMMA RepetitionMeets ==
  ASSUME TreeInv, Caught, NEW b \in Block, Prev[b] \in blocks, Recent(b),
         Height[b] <= Height[lastBlock]
  PROVE  \E d \in Held(Pruned(blocks, b), lastBlock) : Height[d] = Height[b]
<1>1. lastBlock \in Block /\ Height[b] \in Nat /\ Interval \in Nat
  BY TreeTyped
<1>2. PICK a \in Ancestors[b] :
        a \in Held(blocks, lastBlock) /\ a \in Ancestors[lastBlock] /\ Height[a] <= Height[b]
        /\ Height[a] \in Nat
  BY RecentFacts
<1>3. PICK d \in Ancestors[lastBlock] : Height[d] = Height[b]
  BY <1>1, <1>2, AncestorAtHeight
<1>4. ASSUME NEW x \in Ancestors[lastBlock], Height[d] <= Height[x]
      PROVE  x \in Pruned(blocks, b) \cup {lastBlock}
  <2>1. x \in Block /\ Height[x] \in Nat
    BY <1>1, AncestorsDef, TreeTyped
  <2>2. x \in blocks \cup {lastBlock}
    BY <1>1, <1>2, <1>3, <1>4, <2>1, HeldAbove
  <2>3. ASSUME x \in blocks, x \notin Pruned(blocks, b) PROVE FALSE
    <3>1. Height[x] + Interval < Height[b]
      BY <2>3, FreedBelowLimit DEF TreeInv
    <3>2. QED
      BY <1>1, <1>3, <1>4, <2>1, <3>1
  <2>4. QED
    BY <2>2, <2>3
<1>5. d \in Held(Pruned(blocks, b), lastBlock)
  BY <1>1, <1>3, <1>4, HeldReaches
<1>6. QED
  BY <1>3, <1>5

\* A reorganisation to a recent branch finds its join: both branches are held from the
\* highest block that they share.
LEMMA RecentJoin ==
  ASSUME TreeInv, BranchesHeld, Caught, ~unjoined, NEW b \in Block, Prev[b] \in blocks,
         b \notin blocks, Recent(b)
  PROVE  Joins(Pruned(blocks, b) \cup {b}, b, lastBlock) # {}
<1> DEFINE bs == Pruned(blocks, b) \cup {b}
           C == Ancestors[b] \cap Ancestors[lastBlock]
           common == Held(bs, b) \cap Held(bs, lastBlock)
<1>1. lastBlock \in Block /\ blocks \subseteq Block /\ NoBlock \notin Block
  BY TreeTyped
<1>2. PICK a \in Ancestors[b] :
        /\ a \in Held(blocks, lastBlock) /\ a \in Ancestors[lastBlock]
        /\ a \in Block /\ Height[a] \in Nat /\ WalkLimit \in Int /\ Height[a] >= WalkLimit
        /\ \A c \in Checkpoint : Height[c] <= Height[a]
  BY RecentFacts
<1>3. C \in SUBSET Block /\ a \in C
  BY <1>1, <1>2, AncestorsDef
<1>4. PICK j \in C : \A c \in C : Height[c] <= Height[j]
  <2> HIDE DEF C
  <2>1. QED
    BY <1>3, HighestBlock
<1>5. j \in Block /\ Height[j] \in Nat /\ Height[a] <= Height[j] /\ Height[j] >= WalkLimit
  BY <1>2, <1>3, <1>4, TreeTyped
<1>6. ASSUME NEW x \in blocks, Height[j] <= Height[x] PROVE x \in Pruned(blocks, b)
  <2>1. SUFFICES ASSUME x \notin Pruned(blocks, b) PROVE FALSE
    OBVIOUS
  <2>2. Height[x] < WalkLimit /\ Height[x] \in Nat
    BY <2>1, FreedBelowLimit, TreeTyped DEF TreeInv
  <2>3. QED
    BY <1>2, <1>5, <1>6, <2>2
<1>7. j \in Held(bs, lastBlock)
  <2>1. ASSUME NEW x \in Ancestors[lastBlock], Height[j] <= Height[x]
        PROVE  x \in bs \cup {lastBlock}
    <3>1. Height[a] <= Height[x]
      BY <1>1, <1>2, <1>5, <2>1, AncestorsDef, TreeTyped
    <3>2. x \in blocks \cup {lastBlock}
      BY <1>1, <1>2, <3>1, HeldAbove
    <3>3. QED
      BY <1>6, <2>1, <3>2
  <2> HIDE DEF bs
  <2>2. QED
    BY <1>1, <1>4, <2>1, HeldReaches
<1>8. ASSUME NEW x \in Ancestors[b], x = b \/ x \in Pruned(blocks, b), Prev[x] # NoBlock,
             Height[j] <= Height[Prev[x]]
      PROVE  Prev[x] \in Pruned(blocks, b)
  <2>1. /\ x \in Block /\ Prev[x] \in Block /\ Height[Prev[x]] \in Nat
        /\ Height[x] = Height[Prev[x]] + 1
    BY <1>8, AncestorsDef, BlockChainAssumption
  <2>2. Height[x] > Height[j]
    BY <1>5, <1>8, <2>1
  <2>3. CASE x = b
    BY <1>6, <1>8, <2>3
  <2>4. CASE x \in Pruned(blocks, b)
    <3>1. x \in blocks
      BY <2>4, PrunedSubset
    <3>2. x \notin Ancestors[lastBlock]
      BY <1>4, <1>5, <2>1, <2>2
    <3>3. x \notin Checkpoint
      BY <1>2, <1>5, <2>1, <2>2
    <3>4. Height[x] > WalkLimit
      BY <1>2, <1>5, <2>1, <2>2
    <3>5. Prev[x] \in blocks
      BY <3>1, <3>2, <3>3, <3>4 DEF BranchesHeld, Caught
    <3>6. QED
      BY <1>6, <1>8, <3>5
  <2>5. QED
    BY <1>8, <2>3, <2>4
<1>9. j \in Held(bs, b)
  <2> DEFINE S == {x \in Ancestors[b] : Height[j] <= Height[x] => x = b \/ x \in Pruned(blocks, b)}
  <2>1. b \in S /\ S \in SUBSET Block
    BY SelfAncestor, AncestorsDef
  <2>2. ASSUME NEW x \in S, Prev[x] # NoBlock PROVE Prev[x] \in S
    <3>1. Prev[x] \in Ancestors[b]
      BY <2>2, ParentAncestor
    <3>2. x \in Block /\ Prev[x] \in Block /\ Height[x] = Height[Prev[x]] + 1
      BY <2>2, AncestorsDef, BlockChainAssumption
    <3>3. Height[j] <= Height[Prev[x]] => Height[j] <= Height[x]
      BY <1>5, <3>2, TreeTyped
    <3>4. QED
      BY <1>8, <2>2, <3>1, <3>3
  <2>3. ASSUME NEW x \in Ancestors[b], Height[j] <= Height[x] PROVE x \in bs \cup {b}
    <3>1. x \in S
      <4> HIDE DEF S
      <4>1. QED
        BY <2>1, <2>2, AncestorIn
    <3>2. QED
      BY <2>3, <3>1
  <2> HIDE DEF bs, S
  <2>4. QED
    BY <1>4, <2>3, HeldReaches
<1>10. common \in SUBSET Block /\ common # {}
  BY <1>5, <1>7, <1>9, AncestorsDef DEF Held
<1>11. PICK m \in common : \A c \in common : Height[c] <= Height[m]
  <2> HIDE DEF common
  <2>1. QED
    BY <1>10, HighestBlock
<1>12. QED
  BY <1>11 DEF Joins

LEMMA RecentBlockIsSafe ==
  ASSUME TreeInv, BranchesHeld, rescans = 0, ~unjoined, NEW p \in Peer, NEW b \in Block,
         Deliver(p, b), Recent(b)
  PROVE  faultVars' = faultVars
<1>1. Caught /\ ~crashed
  BY DEF Deliver, Caught
<1>2. ASSUME Prev[b] \in blocks, Pruned(blocks, b) \subseteq blocks' PROVE ~TipFreed(b)
  BY <1>1, <1>2, TipSurvives DEF TipFreed, TreeInv
<1>3. CASE FilterMissing(p, b) \/ Orphaned(p, b)
  <2>1. UNCHANGED crashed
    BY <1>3 DEF FilterMissing, Orphaned, Dropped
  <2>2. UNCHANGED unjoined
    BY <1>3 DEF Deliver, FilterMissing, Orphaned, Reorganises, IsFork, Verified
  <2>3. QED
    BY <2>1, <2>2 DEF faultVars
<1>4. CASE /\ \/ Rejected(p, b) \/ ExtendsChain(p, b) \/ MinedDuringRescan(p, b)
              \/ ForksBelowCheckpoint(p, b) \/ ForksChain(p, b)
           /\ UNCHANGED unjoined
  <2>1. Prev[b] \in blocks /\ Pruned(blocks, b) \subseteq blocks'
    BY <1>4 DEF Rejected, ExtendsChain, MinedDuringRescan, ForksBelowCheckpoint, ForksChain,
                IsFork, Verified
  <2>2. UNCHANGED crashed
    BY <1>2, <1>4, <2>1
       DEF Rejected, ExtendsChain, MinedDuringRescan, ForksBelowCheckpoint, ForksChain, Dropped
  <2>3. QED
    BY <1>4, <2>2 DEF faultVars
<1>5. CASE AlreadyHeld(p, b) /\ UNCHANGED unjoined
  <2>1. Prev[b] \in blocks /\ blocks' = Pruned(blocks, b)
    BY <1>5 DEF AlreadyHeld, Verified
  <2>2. ~TipFreed(b)
    BY <1>2, <2>1
  <2>3. Height[b] <= Height[lastBlock]
        => \E d \in Held(blocks', lastBlock) : Height[d] = Height[b]
    BY <1>1, <2>1, RepetitionMeets
  <2>4. UNCHANGED crashed
    BY <1>5, <2>2, <2>3 DEF AlreadyHeld
  <2>5. QED
    BY <1>5, <2>4 DEF faultVars
<1>6. CASE Reorganises(p, b)
  <2>1. Prev[b] \in blocks /\ b \notin blocks /\ blocks' = Pruned(blocks, b) \cup {b}
    BY <1>6 DEF Reorganises, IsFork, Verified
  <2>2. ~TipFreed(b)
    BY <1>2, <2>1
  <2>3. Joins(blocks', b, lastBlock) # {}
    BY <1>1, <2>1, RecentJoin
  <2>4. SwitchesTo(b, Joins(blocks', b, lastBlock), StopsAt(blocks', b, lastBlock))
        /\ UNCHANGED crashed
    BY <1>6, <2>2, <2>3 DEF Reorganises
  <2>5. UNCHANGED unjoined
    BY <2>3, <2>4 DEF SwitchesTo
  <2>6. QED
    BY <2>4, <2>5 DEF faultVars
<1>7. QED
  BY <1>3, <1>4, <1>5, <1>6 DEF Deliver

\* The step of NoCrash.
Safe ==
  rescans = 0 /\ ~unjoined /\ faultVars' # faultVars =>
    \A p \in Peer, b \in Block : Handles(p, b) => ~Recent(b)

\* Handling a recent block neither follows a null or freed block nor reorganises
\* without a join, whatever came before.
THEOREM RecentBlocksAreSafe == Spec => NoCrash
<1>1. IInv /\ [Next]_vars => [Safe]_vars
  <2> SUFFICES ASSUME IInv PROVE Safe
    OBVIOUS
  <2> SUFFICES ASSUME rescans = 0, ~unjoined, faultVars' # faultVars,
                      NEW p \in Peer, NEW b \in Block, Handles(p, b), Recent(b)
               PROVE  FALSE
    BY DEF Safe
  <2>1. Deliver(p, b)
    BY DEF Handles, RelayedBlock, RelayNext
  <2>2. QED
    BY <2>1, RecentBlockIsSafe DEF IInv
<1>2. QED
  BY <1>1, Invariance, PTL DEF NoCrash, Safe, Spec
=============================================================================
