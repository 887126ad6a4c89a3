------------------------------ MODULE RoomLedger ------------------------------
(***************************************************************************)
(* What the booking side promises, without requests, locks or a database:  *)
(* a ledger of the stays that hold a room.  A stay is entered only where   *)
(* the room is free, it may grow only into free nights, and it is struck   *)
(* out for good.                                                           *)
(***************************************************************************)
EXTENDS Integers

CONSTANTS Room, Order, MaxDay

VARIABLES stays,    \* the stays that hold their room, by order
          past      \* orders whose stay was struck out

Stay == [room : Room, checkIn : 0 .. MaxDay, checkOut : 0 .. MaxDay]

Disjoint(s, t) ==
    s.room = t.room => s.checkOut <= t.checkIn \/ t.checkOut <= s.checkIn

FreeFor(s, others) == \A o \in others : Disjoint(s, stays[o])

Init == stays = [o \in {} |-> 0] /\ past = {}

Enter(o, s) ==
    /\ o \notin DOMAIN stays \cup past
    /\ s.checkIn < s.checkOut
    /\ FreeFor(s, DOMAIN stays)
    /\ stays' = [x \in DOMAIN stays \cup {o} |-> IF x = o THEN s ELSE stays[x]]
    /\ past' = past

Prolong(o, day) ==
    LET longer == [stays[o] EXCEPT !.checkOut = day] IN
    /\ o \in DOMAIN stays
    /\ day > stays[o].checkOut
    /\ FreeFor(longer, DOMAIN stays \ {o})
    /\ stays' = [stays EXCEPT ![o] = longer]
    /\ past' = past

Strike(o) ==
    /\ o \in DOMAIN stays
    /\ stays' = [x \in DOMAIN stays \ {o} |-> stays[x]]
    /\ past' = past \cup {o}

Next ==
    \E o \in Order : \/ \E s \in Stay : Enter(o, s)
                     \/ \E day \in 0 .. MaxDay : Prolong(o, day)
                     \/ Strike(o)

Spec == Init /\ [][Next]_<<stays, past>>
=============================================================================
