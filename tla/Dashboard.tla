------------------------------ MODULE Dashboard ------------------------------
(***************************************************************************)
(* What the hotel's dashboard shows of the tables on a day: AdminService.  *)
(* GetDashboard and the counts it asks the DAOs for.                       *)
(***************************************************************************)
EXTENDS HotelBooking

Today == 0

\* Fault: orders are counted whatever became of them.
CountOfAnyStatus(status, day) == Cardinality({o \in DOMAIN orders : orders[o].checkIn = day})

CountByStatus(status, day) ==
    Cardinality({o \in DOMAIN orders : orders[o].status = status /\ orders[o].checkIn = day})

TotalRooms == Cardinality(Room)
TodayCheckIns == CountByStatus("checked_in", Today)

(***************************************************************************)
(* The occupancy rate, the guests whose stay begins today over the rooms,  *)
(* never exceeds 100%: the count is of orders, not of rooms, and stays     *)
(* within the rooms only as long as no room is given to two guests.        *)
(***************************************************************************)
OccupancyWithinRooms == TodayCheckIns <= TotalRooms
=============================================================================
