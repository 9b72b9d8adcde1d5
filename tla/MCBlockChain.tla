---------------------------- MODULE MCBlockChain ----------------------------
(***************************************************************************)
(* Small trees of blocks for TLC.  The genesis block G is the wallet's     *)
(* checkpoint; a letter is a branch and a number a height.                 *)
(***************************************************************************)
EXTENDS BlockChain, TLC

CONSTANTS G, A1, A2, A3, A4, A5, A6, B3, B4, B5, X3, t1, t2, p1, p2

\* a fork of two blocks across a transition, an invalid block, and a block
\* that decides the fork
ForkBlock  == {G, A1, A2, A3, A4, A5, B3, B4, X3}
ForkPrev   == (G :> NoBlock) @@ (A1 :> G) @@ (A2 :> A1) @@ (A3 :> A2) @@ (A4 :> A3) @@ (A5 :> A4)
              @@ (B3 :> A2) @@ (B4 :> B3) @@ (X3 :> A2)
ForkHeight == (G :> 0) @@ (A1 :> 1) @@ (A2 :> 2) @@ (A3 :> 3) @@ (A4 :> 4) @@ (A5 :> 5)
              @@ (B3 :> 3) @@ (B4 :> 4) @@ (X3 :> 3)
ForkTxIn   == [b \in ForkBlock |-> IF b = A3 THEN {t1} ELSE IF b \in {A4, B3} THEN {t2} ELSE {}]
ForkInvalid == {X3}

\* the same tree over three difficulty intervals, with a branch that is longer
\* than what a restart keeps of the main chain
LongBlock  == (ForkBlock \ {X3}) \cup {A6, B5}
LongPrev   == [b \in LongBlock |-> (ForkPrev @@ (A6 :> A5) @@ (B5 :> B4))[b]]
LongHeight == [b \in LongBlock |-> (ForkHeight @@ (A6 :> 6) @@ (B5 :> 5))[b]]
LongTxIn   == [b \in LongBlock |-> IF b \in {A4, B3} THEN {t2} ELSE {}]

Genesis == {G}
GenesisAndA2 == {G, A2}
TwoTx   == {t1, t2}
OneTx   == {t2}
OnePeer == {p2}
Peers   == {p1, p2}
PeerHeights == [p \in Peer |-> IF p = p1 THEN 4 ELSE 5]
=============================================================================
