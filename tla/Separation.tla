------------------------------ MODULE Separation ------------------------------
(***************************************************************************)
(* The booking side when staff is kept out of other requests' way, which   *)
(* the code does not do: check-in, check-out and extension read their order*)
(* outside their transaction.  Guests and the sweep are let in as they     *)
(* come.  What is promised under this condition, and broken without it, is *)
(* broken by the late saves of staff alone.                                *)
(***************************************************************************)
EXTENDS Dashboard

StaffSteps == {"checking_in", "checking_out", "extending", "extend_checked"}
Busy == {p \in Proc : at[p] # "idle"}
RoomOf(p) == IF at[p] = "updating_room" THEN target[p] ELSE copy[p].room

\* While staff checks a guest in or out or extends a stay, nobody else works on
\* the room, and the sweep has no order of it to write back.
StaffApart ==
    \A p \in Proc : at[p] \in StaffSteps =>
        /\ \A q \in Busy \ {p} : RoomOf(q) # copy[p].room
        /\ \A o \in DOMAIN batch : batch[o].room # copy[p].room

StaffApartSpec == Init /\ [][Next /\ StaffApart']_vars
=============================================================================
