-------------------------- MODULE MCGattDiscovery --------------------------
(* The GATT service, a service with descriptors that includes a secondary  *)
(* one, and a service of a single handle between them.                     *)
EXTENDS GattDiscovery, TLC

SomeIncluded == [s \in Slots |-> IF s = 2 THEN {4} ELSE {}]

=============================================================================
