-------------------------- MODULE MCGattLongWrite --------------------------
(* Long writes and sessions of two PDUs each.                              *)
EXTENDS GattLongWrite, TLC

CONSTANTS l1, l2, s1, s2

TwoChunks == [r \in Writes |-> 2]

Alike == Permutations(Long) \union Permutations(Session)

=============================================================================
