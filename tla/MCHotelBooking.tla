---------------------------- MODULE MCHotelBooking ----------------------------
(* Small instances of HotelBooking for TLC. *)
EXTENDS Separation, RoomCalendar, TLC

Keys == Permutations(Room) \cup Permutations(Order) \cup Permutations(Proc)

\* Every handler, without the sweep.
CounterTraffic == AllHandlers \ {"sweep"}
\* Every handler, without room updates: next to staff they may not run at all.
ApartTraffic == AllHandlers \ {"update_room"}
ExpiryTraffic == {"create", "pay", "sweep"}
CheckInTraffic == {"create", "pay", "cancel", "check_in"}
=============================================================================
