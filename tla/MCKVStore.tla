----------------------------- MODULE MCKVStore ------------------------------
(***************************************************************************)
(* An instance of KVStore: two devices.                                    *)
(***************************************************************************)
EXTENDS KVStore, TLC

Devices == Permutations(Device)
=============================================================================
