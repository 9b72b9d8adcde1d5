---------------------------- MODULE MCLightNode ----------------------------
(***************************************************************************)
(* A small instance of LightNode: two transactions of ours that the app or *)
(* another device may send, a token transfer of ours, one received.        *)
(***************************************************************************)
EXTENDS LightNode

CONSTANTS a, b, k, x

AllHashes == {a, b, k, x}
SentHashes == {a, b, k}
TokenHashes == {k}
SeenTogether == {{a, b}, {k}, {x}}

=============================================================================
