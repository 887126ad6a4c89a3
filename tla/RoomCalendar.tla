----------------------------- MODULE RoomCalendar -----------------------------
(***************************************************************************)
(* What guests are shown: the rooms offered for a stay                     *)
(* (RoomDAO.FindAvailableByHotel) and the month calendar                   *)
(* (RoomService.GetCalendar).  Both read the tables the booking side       *)
(* writes; each uses comparisons of dates of its own.                      *)
(***************************************************************************)
EXTENDS HotelDB

FindAvailableByHotel(from, to) ==
    {r \in Room : /\ rooms[r] = "available"
                  /\ ~\E o \in DOMAIN orders : /\ orders[o].room = r
                                               /\ orders[o].status \in Active
                                               /\ Overlaps(orders[o], from, AskedEnd(to))}

\* Fault: an order that starts on the last day of the month is missed.
FindByMonthExclusive(firstDay, lastDay) ==
    {o \in DOMAIN orders : /\ orders[o].status \in Active
                           /\ orders[o].checkIn < lastDay
                           /\ orders[o].checkOut > firstDay}

FindByMonth(firstDay, lastDay) ==
    {o \in DOMAIN orders : /\ orders[o].status \in Active
                           /\ orders[o].checkIn <= lastDay
                           /\ orders[o].checkOut > firstDay}

\* The orders of a month that cover the night of day d in room r.
Covering(r, d, firstDay, lastDay) ==
    {o \in FindByMonth(firstDay, lastDay) :
        orders[o].room = r /\ orders[o].checkIn <= d /\ orders[o].checkOut > d}

\* What the calendar can show for a night: the first order that covers it
\* decides, and the query leaves their order open.
Shown(r, d, firstDay, lastDay) ==
    IF rooms[r] = "maintenance" THEN {"maintenance"}
    ELSE IF Covering(r, d, firstDay, lastDay) = {} THEN {"available"}
    ELSE {IF orders[o].status = "checked_in" THEN "occupied" ELSE "booked" :
            o \in Covering(r, d, firstDay, lastDay)}

\* The months (intervals of days) in whose calendar night d is.
MonthsOf(d) == {m \in Day \X Day : m[1] <= d /\ d <= m[2]}

ShownFree(r, d) == \A m \in MonthsOf(d) : Shown(r, d, m[1], m[2]) = {"available"}
ShownTaken(r, d) == \A m \in MonthsOf(d) : "available" \notin Shown(r, d, m[1], m[2])

(***************************************************************************)
(* GetCalendar and FindAvailableByHotel tell the same story, whatever month*)
(* a night is looked up in and however stays lie across the ends of it: a  *)
(* stay that is offered has its nights shown free, and one that is held    *)
(* back in an available room has a night shown taken -- one of its own, or,*)
(* on MySQL in a zone ahead of UTC, the one that follows it.               *)
(***************************************************************************)
CalendarMatchesOffers ==
    \A r \in Room, from, to \in Day :
        from < to =>
            IF r \in FindAvailableByHotel(from, to)
              THEN \A d \in from .. to - 1 : ShownFree(r, d)
              ELSE rooms[r] = "available" => \E d \in from .. AskedEnd(to) - 1 : ShownTaken(r, d)
=============================================================================
