-------------------------------- MODULE Uuid --------------------------------
(***************************************************************************)
(* lib/bluez/uuid.c: UUIDs of 16, 32 and 128 bits, on the wire and in      *)
(* print.  A value is the sequence of its parts, the most significant      *)
(* first: a 16-bit UUID is <<lo>>, one of 32 bits <<hi, lo>>, one of 128   *)
(* bits <<hi, lo, tail>>, where tail stands for the 12 bytes that          *)
(* bluetooth_base_uuid gives to the shorter ones.                          *)
(***************************************************************************)
EXTENDS Integers, Sequences, SequencesExt

Uuid16(lo) == [type |-> 16, value |-> <<lo>>]
Uuid32(hi, lo) == [type |-> 32, value |-> <<hi, lo>>]
Uuid128(hi, lo, tail) == [type |-> 128, value |-> <<hi, lo, tail>>]

(* All UUIDs over parts of one bit.                                        *)
Uuid ==
  {Uuid16(lo) : lo \in 0 .. 1} \union {Uuid32(hi, lo) : hi, lo \in 0 .. 1}
    \union {Uuid128(hi, lo, tail) : hi, lo \in 0 .. 1, tail \in {"base", "other"}}

(* bt_uuid_to_uuid128 *)
ToUuid128(u) ==
  CASE u.type = 16 -> Uuid128(0, u.value[1], "base")
    [] u.type = 32 -> Uuid128(u.value[1], u.value[2], "base")
    [] u.type = 128 -> u

(* bt_uuid_cmp *)
Cmp(u, v) == ToUuid128(u) = ToUuid128(v)

-----------------------------------------------------------------------------
(* On the wire the least significant byte comes first, and there are only  *)
(* 16 and 128 bits: a UUID of 32 is sent in full.                          *)

(* bt_uuid_to_le; uuid_to_le in gatt-db.c                                  *)
UuidToLe(u) == IF u.type = 16 THEN u.value ELSE Reverse(ToUuid128(u).value)

(* le_to_uuid in gatt-db.c: 2, 4 or 16 bytes.                              *)
LeToUuid(le) ==
  LET be == Reverse(le)
  IN CASE Len(be) = 1 -> Uuid16(be[1])
       [] Len(be) = 2 -> Uuid32(be[1], be[2])
       [] Len(be) = 3 -> Uuid128(be[1], be[2], be[3])

(* convert_uuid_le in gatt-helpers.c: what the iterators return.           *)
ConvertUuidLe(le) ==
  IF Len(le) = 3 THEN Reverse(le) ELSE <<0, le[1], "base">>

-----------------------------------------------------------------------------
(* In print a UUID of 128 bits has dashes, and the others are told apart   *)
(* by the number of their digits.                                          *)

(* bt_uuid_to_string *)
UuidToString(u) == [dashes |-> u.type = 128, digits |-> u.value]

(* is_base_uuid128 *)
IsBaseUuid128(string) ==
  string.dashes /\ string.digits[1] = 0 /\ string.digits[3] = "base"

(* bt_string_to_uuid *)
StringToUuid(string) ==
  LET d == string.digits
  IN CASE IsBaseUuid128(string) -> Uuid16(d[2])
       [] string.dashes /\ ~ IsBaseUuid128(string) -> Uuid128(d[1], d[2], d[3])
       [] ~ string.dashes /\ Len(d) = 2 -> Uuid32(d[1], d[2])
       [] ~ string.dashes /\ Len(d) = 1 -> Uuid16(d[1])

-----------------------------------------------------------------------------
(* The three conversions and their inverses keep the UUID, although they   *)
(* may not keep its length: what is compared is never the length.          *)
ConversionsAgree ==
  \A u \in Uuid :
    /\ Cmp(LeToUuid(UuidToLe(u)), u)
    /\ ConvertUuidLe(UuidToLe(u)) = ToUuid128(u).value
    /\ Cmp(StringToUuid(UuidToString(u)), u)
    /\ \A v \in Uuid :
         Cmp(u, v) <=> ConvertUuidLe(UuidToLe(u)) = ConvertUuidLe(UuidToLe(v))

=============================================================================
