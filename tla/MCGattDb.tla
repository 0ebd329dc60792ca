------------------------------ MODULE MCGattDb ------------------------------
EXTENDS GattDbView

KeyOf(h) ==
  [type |-> IF h = 3 THEN "secondary" ELSE "primary",
   uuid |-> CASE h = 1 -> Uuid16(1)
              [] h = 2 -> Uuid128(0, 1, "base")
              [] h = 3 -> Uuid32(1, 0)
              [] h = 4 -> Uuid16(0)]
MCKeys == {KeyOf(h) : h \in Handles}
MCPlaces(u) ==
  LET Places_(starts, nums) ==
        {[start |-> h, num |-> n, key |-> KeyOf(h)] : h \in starts, n \in nums}
  IN CASE "watch" \in u -> Places_({3}, {1})
       [] u = {"access"} -> Places_({1}, {3})
       [] u = {"access", "readInside"} -> Places_({2}, {2})
       [] u = {"access", "holes"} -> Places_({1}, {2})
       [] u = {"ends"} -> Places_(Handles, {1, 4})
       [] OTHER -> Places_(Handles, {1, 3})
MCMost(u) ==
  [services |-> CASE "access" \in u -> 2
                  [] "activeInside" \in u -> 1
                  [] u \intersect {"half", "unrefInside", "removeInside",
                                   "leaveInside"} # {} -> 2
                  [] OTHER -> 3,
   watchers |-> IF u = {"watch", "leaveInside"} THEN 3 ELSE 2]
MCUsages ==
  {{}, {"ends"}, {"around", "wild", "mixed"},
   {"access"}, {"access", "readInside"}, {"access", "holes"},
   {"watch", "half"}, {"watch", "unrefInside"}, {"watch", "leaveInside"},
   {"watch", "inside"}}
    \union {{"watch", "inside", what} : what \in
             {"activeInside", "removeInside", "leaveInside"}}
=============================================================================
