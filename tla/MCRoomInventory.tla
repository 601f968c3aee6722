-------------------------- MODULE MCRoomInventory --------------------------
(* Small instances of RoomInventory: two room types, up to two rooms of the  *)
(* first, and the carts that make sales compete.                             *)
EXTENDS RoomInventory, TLC

CONSTANTS deluxe, suite, r1, r2, r3

TwoTypes == [r \in Rooms |-> IF r = r3 THEN suite ELSE deluxe]
OneType == [r \in Rooms |-> deluxe]

(* `room-id:...` sorts before `room:...`. *)
SortOrder ==
    [k \in Types \cup Rooms |->
        CASE k = r1 -> 1 [] k = r2 -> 2 [] k = r3 -> 3 [] k = deluxe -> 4 [] OTHER -> 5]

Ask(type, from, to, count) ==
    [type |-> type, from |-> from, to |-> to, count |-> count, picked |-> {}]
Pick(type, from, to, room) ==
    [type |-> type, from |-> from, to |-> to, count |-> 1, picked |-> {room}]

NoCarts == {}

(* One line; two lines of different rate plans and equal dates; both types   *)
(* in either order.                                                          *)
WebMix ==
    {<<Ask(deluxe, 1, 2, 1)>>, <<Ask(deluxe, 1, 3, 1), Ask(deluxe, 1, 3, 1)>>,
     <<Ask(deluxe, 2, 3, 1), Ask(suite, 1, 3, 1)>>}
DeskMix ==
    {<<Ask(deluxe, 1, 3, 2)>>, <<Ask(suite, 2, 3, 1), Ask(deluxe, 2, 3, 1)>>}

Overlapping == {<<Ask(deluxe, 1, 2, 1), Ask(deluxe, 1, 3, 1)>>}
EachNight == {<<Ask(deluxe, 1, 2, 1)>>, <<Ask(deluxe, 2, 3, 1)>>}
EachStay == EachNight \cup {<<Ask(deluxe, 1, 3, 1)>>}
PickFirst == {<<Pick(deluxe, 1, 2, r1)>>}
PickOrAsk == PickFirst \cup {<<Ask(deluxe, 1, 2, 1)>>}

Symmetry == Permutations(Bookings)
=============================================================================
