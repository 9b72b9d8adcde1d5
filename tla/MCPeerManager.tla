---------------------------- MODULE MCPeerManager ---------------------------
(***************************************************************************)
(* Instances of PeerManager.  MCPeerManager.cfg: two peers, of which one   *)
(* has a block more, and nothing to publish.  MCPeerManagerPublish.cfg:    *)
(* one connection at a time to either of two peers that have no new        *)
(* blocks, and two transactions to publish, the second spending the first. *)
(***************************************************************************)
EXTENDS PeerManager, TLC

CONSTANTS p1, p2, c1, c2, t1, t2

BlockBehind == [p \in Peer |-> IF p = p1 THEN 0 ELSE 1]
NoNewBlocks == [p \in Peer |-> 0]
OneCallEach == [c \in Call |-> IF c = c1 THEN t1 ELSE t2]
SecondSpendsFirst == [t \in Tx |-> IF t = t2 THEN {t1} ELSE {}]
Peers == Permutations(Peer)
=============================================================================
