------------------------------- MODULE MCPeer -------------------------------
(***************************************************************************)
(* An instance of Peer: one transaction that the node has, one that the    *)
(* manager publishes, and a block with both.                               *)
(***************************************************************************)
EXTENDS Peer

CONSTANTS t1, t2, b1

BlockOfBoth == [b \in Block |-> Tx]
=============================================================================
