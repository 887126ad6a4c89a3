--------------------------- MODULE SeparationProofs ---------------------------
(***************************************************************************)
(* Proofs about every handler of the booking side, staff and the sweep     *)
(* included, when staff is kept out of other requests' way: no double      *)
(* booking, the ledger of stays is kept, a status only moves forward, and a*)
(* room is occupied only with a guest in it.  The traffic of guests is a   *)
(* special case.                                                           *)
(***************************************************************************)
EXTENDS OrderProofs, PaymentProofs, Separation, FunctionTheorems, FiniteSetTheorems

-----------------------------------------------------------------------------
(* What a request, and the sweep, may rely on. *)

\* A row that differs from the table's by nights at the end that are free.
Lengthens(id, row) ==
    /\ orders[id].status = "checked_in" /\ row.status = "checked_in"
    /\ row.room = orders[id].room /\ row.checkIn = orders[id].checkIn
    /\ row.checkOut > orders[id].checkOut
    /\ DateConflicts(row.room, orders[id].checkOut, row.checkOut, {id}) = {}

\* A row of an order whose guest is not in and never was: to cancel it is right
\* however old the row is.
EarlyCopy(id, row) ==
    /\ id \in DOMAIN orders
    /\ orders[id].status \in {"pending", "paid", "cancelled"}
    /\ StayOf(row) = StayOf(orders[id])

\* What staff has read is still so.
StaffCopy(step, id, row) ==
    IF step = "extend_checked"
    THEN Lengthens(id, row)
    ELSE row = orders[id] /\ row.status = IF step = "checking_in" THEN "paid" ELSE "checked_in"

HasGuest(r) == \E o \in DOMAIN orders : orders[o].room = r /\ orders[o].status = "checked_in"

CopyHolds(p) ==
    /\ CreatorHoldsFreeNights(p)
    /\ PayerHoldsItsOrder(p)
    /\ at[p] = "cancelling" => EarlyCopy(target[p], copy[p])
    /\ at[p] \in StaffSteps => StaffCopy(at[p], target[p], copy[p])
    /\ at[p] = "updating_room" /\ copy[p].status = "occupied" => HasGuest(target[p])

BatchHolds == \A o \in DOMAIN batch : EarlyCopy(o, batch[o])

ApartInv ==
    /\ TypeOK
    /\ NoDoubleBooking /\ OccupiedHasGuest
    /\ StaffApart /\ BatchHolds
    /\ \A p \in Proc : CopyHolds(p)

-----------------------------------------------------------------------------
(* What a step makes of the tables: only what is in one room changes. *)

\* The status of an order moves forward, or it is cancelled once more, or its
\* stay gets longer.
RowMoves(id, row) ==
    \/ /\ <<orders[id].status, row.status>> \in StatusMoves \cup {<<"cancelled", "cancelled">>}
       /\ StayOf(row) = StayOf(orders[id])
    \/ Lengthens(id, row)

RoomsFollow(row) ==
    /\ row.status = "checked_out" => rooms'[row.room] # "occupied"
    /\ rooms'[row.room] = "occupied" =>
         rooms[row.room] = "occupied" \/ row.status = "checked_in"
    /\ \A r \in Room \ {row.room} : rooms'[r] = rooms[r]

RowSaved(id, row) ==
    /\ id \in DOMAIN orders /\ row \in OrderRow
    /\ Save(id, row) /\ RowMoves(id, row) /\ RoomsFollow(row)

RoomSet(r) ==
    /\ UNCHANGED orders
    /\ rooms'[r] = "occupied" => rooms[r] = "occupied" \/ HasGuest(r)
    /\ \A x \in Room \ {r} : rooms'[x] = rooms[x]

Inserted(r) ==
    /\ UNCHANGED rooms
    /\ \E p \in Proc, o \in Order : CreateOrderInsert(p, o) /\ copy[p].room = r

\* What all but staff do to orders: no guest comes or goes.
GuestSave(r) ==
    \/ RoomSet(r)
    \/ Inserted(r)
    \/ \E id, row : RowSaved(id, row) /\ row.room = r /\ row.status \in {"paid", "cancelled"}

RoomSave(r) == GuestSave(r) \/ \E id, row : RowSaved(id, row) /\ row.room = r

LEMMA NothingSaved ==
    ASSUME NEW r, UNCHANGED tables
    PROVE  GuestSave(r) /\ RoomSave(r)
BY DEF RoomSave, GuestSave, RoomSet, tables

\* A save of a row with another status and the same stay.
LEMMA StatusSaved ==
    ASSUME NEW id \in DOMAIN orders, NEW row \in OrderRow, Save(id, row),
           <<orders[id].status, row.status>> \in StatusMoves \cup {<<"cancelled", "cancelled">>},
           StayOf(row) = StayOf(orders[id]), RoomsFollow(row)
    PROVE  /\ RoomSave(row.room)
           /\ row.status \in {"paid", "cancelled"} => GuestSave(row.room)
<1>1. RowSaved(id, row)
  BY DEF RowSaved, RowMoves
<1> QED BY <1>1 DEF RoomSave, GuestSave

LEMMA RequestSaves ==
    ASSUME ApartInv, NEW p \in Proc, Continue(p)
    PROVE  /\ RoomSave(RoomOf(p)) /\ UNCHANGED batch
           /\ at[p] \notin StaffSteps => GuestSave(RoomOf(p))
<1> USE DEF Step, OrderSteps, OrderStatus
<1> DEFINE id == target[p]
           row == copy[p]
           Goal == /\ RoomSave(RoomOf(p)) /\ UNCHANGED batch
                   /\ at[p] \notin StaffSteps => GuestSave(RoomOf(p))
<1>1. TypeOK /\ CopyHolds(p) /\ rooms \in [Room -> RoomStatus]
  BY DEF ApartInv, TypeOK, DBTypeOK
<1>2. ASSUME at[p] \in OrderSteps \ {"creating"}
      PROVE  /\ id \in DOMAIN orders /\ id \in Order /\ row \in OrderRow /\ row.room \in Room
             /\ RoomOf(p) = row.room
  BY <1>1, <1>2, HeldOrder, RowFits DEF RoomOf
<1>3. ASSUME NEW o \in Order, CreateOrderInsert(p, o) PROVE Goal
  BY <1>3 DEF CreateOrderInsert, RoomSave, GuestSave, Inserted, RoomOf
<1>4. ASSUME NEW status \in OrderStatus, NEW new \in OrderRow,
             at[p] \in OrderSteps \ {"creating", "extend_checked"},
             StayOf(new) = StayOf(row), new.room = row.room, new.status = status,
             status \notin {"paid", "cancelled"} => at[p] \in StaffSteps,
             Save(id, new), UNCHANGED batch,
             StayOf(row) = StayOf(orders[id]),
             <<orders[id].status, status>> \in StatusMoves \cup {<<"cancelled", "cancelled">>},
             \/ rooms' = rooms /\ status # "checked_out"
             \/ rooms' = [rooms EXCEPT ![row.room] = "available"]
             \/ rooms' = [rooms EXCEPT ![row.room] = "occupied"] /\ status = "checked_in"
      PROVE  Goal
  <2>1. id \in DOMAIN orders /\ row.room \in Room /\ RoomOf(p) = row.room
    BY <1>2, <1>4
  <2> HIDE DEF id, row
  <2>2. RoomsFollow(new)
    BY <1>1, <1>4, <2>1 DEF RoomsFollow
  <2> QED BY <1>4, <2>1, <2>2, StatusSaved
<1>5. CASE CancelOrderSave(p)
  <2> DEFINE new == [row EXCEPT !.status = "cancelled", !.cancelReason = "guest"]
  <2>1. /\ at[p] = "cancelling" /\ row \in OrderRow /\ Save(id, new) /\ UNCHANGED batch
        /\ rooms' = rooms \/ rooms' = [rooms EXCEPT ![row.room] = "available"]
        /\ EarlyCopy(id, row)
    BY <1>1, <1>2, <1>5 DEF CancelOrderSave, CopyHolds, UpdateWithTx
  <2>2. /\ new \in OrderRow /\ new.status = "cancelled" /\ StayOf(new) = StayOf(row)
        /\ new.room = row.room
    BY <2>1, RowFits DEF OrderRow, StayOf
  <2> HIDE DEF new
  <2>3. /\ StayOf(row) = StayOf(orders[id])
        /\ <<orders[id].status, "cancelled">> \in StatusMoves \cup {<<"cancelled", "cancelled">>}
    BY <2>1 DEF StatusMoves, EarlyCopy
  <2> QED BY <1>4, <2>1, <2>2, <2>3
<1>6. ASSUME CheckInSave(p) \/ CheckOutSave(p) PROVE Goal
  <2> DEFINE status == IF at[p] = "checking_in" THEN "checked_in" ELSE "checked_out"
             new == [row EXCEPT !.status = status]
  <2>1. /\ at[p] \in {"checking_in", "checking_out"}
        /\ row \in OrderRow /\ Save(id, new) /\ UNCHANGED batch
        /\ \/ rooms' = [rooms EXCEPT ![row.room] = "available"]
           \/ rooms' = [rooms EXCEPT ![row.room] = "occupied"] /\ status = "checked_in"
        /\ StaffCopy(at[p], id, row)
    BY <1>1, <1>2, <1>6 DEF CheckInSave, CheckOutSave, SaveWithRoom, CopyHolds, UpdateWithTx,
                            StaffSteps
  <2>2. /\ row = orders[id]
        /\ <<row.status, status>> \in StatusMoves /\ status \in OrderStatus
    BY <2>1 DEF StaffCopy, StatusMoves
  <2>3. at[p] \in StaffSteps /\ at[p] \in OrderSteps \ {"creating", "extend_checked"}
    BY <2>1 DEF StaffSteps
  <2> HIDE DEF status
  <2>4. /\ new \in OrderRow /\ new.status = status /\ StayOf(new) = StayOf(row)
        /\ new.room = row.room
    BY <2>1, <2>2, RowFits DEF OrderRow, StayOf
  <2> HIDE DEF new
  <2> QED BY <1>4, <2>1, <2>2, <2>3, <2>4
<1>7. CASE ExtendStaySave(p)
  <2>1. /\ id \in DOMAIN orders /\ row \in OrderRow /\ Save(id, row) /\ Lengthens(id, row)
        /\ UNCHANGED <<rooms, batch>> /\ RoomOf(p) = row.room /\ at[p] \in StaffSteps
    BY <1>1, <1>2, <1>7 DEF ExtendStaySave, CopyHolds, StaffCopy, StaffSteps
  <2> HIDE DEF id, row
  <2>2. RoomsFollow(row)
    BY <2>1 DEF RoomsFollow, Lengthens
  <2>3. RowSaved(id, row)
    BY <2>1, <2>2 DEF RowSaved, RowMoves
  <2> QED BY <2>1, <2>3 DEF RoomSave
<1>8. CASE CreatePaymentSave(p)
  <2> DEFINE new == [row EXCEPT !.status = "paid"]
  <2>1. /\ at[p] = "paying" /\ row \in OrderRow /\ Save(id, new) /\ UNCHANGED <<rooms, batch>>
        /\ row = orders[id] /\ row.status = "pending"
    BY <1>1, <1>2, <1>8 DEF CreatePaymentSave, CopyHolds, PayerHoldsItsOrder
  <2>2. /\ new \in OrderRow /\ new.status = "paid" /\ StayOf(new) = StayOf(row)
        /\ new.room = row.room
    BY <2>1, RowFits DEF OrderRow, StayOf
  <2> HIDE DEF new
  <2>3. <<orders[id].status, "paid">> \in StatusMoves
    BY <2>1 DEF StatusMoves
  <2> QED BY <1>4, <2>1, <2>2, <2>3
<1>9. CASE UpdateRoomSave(p)
  <2>1. RoomSet(RoomOf(p)) /\ UNCHANGED batch
    BY <1>1, <1>9 DEF UpdateRoomSave, CopyHolds, RoomSet, RoomOf
  <2> QED BY <2>1 DEF RoomSave, GuestSave
<1>10. CASE Rollback(p) \/ \E n \in 1 .. MaxDay : ExtendStayCheck(p, n)
  <2>1. UNCHANGED <<tables, batch>>
    BY <1>10 DEF Rollback, ExtendStayCheck
  <2> QED BY <2>1, NothingSaved
<1> QED BY <1>3, <1>5, <1>6, <1>7, <1>8, <1>9, <1>10 DEF Continue

LEMMA SweepSaves ==
    ASSUME ApartInv, NEW o \in Order, SweepSave(o)
    PROVE  GuestSave(batch[o].room) /\ RoomSave(batch[o].room)
<1> DEFINE new == [batch[o] EXCEPT !.status = "cancelled", !.cancelReason = "timeout"]
<1>1. /\ EarlyCopy(o, batch[o]) /\ o \in DOMAIN orders
      /\ batch[o] \in OrderRow /\ Save(o, new) /\ UNCHANGED rooms
  BY DEF ApartInv, BatchHolds, EarlyCopy, SweepSave, TypeOK, DBTypeOK
<1>2. /\ new \in OrderRow /\ new.status = "cancelled" /\ StayOf(new) = StayOf(batch[o])
      /\ new.room = batch[o].room
  BY <1>1, RowFits DEF OrderRow, StayOf
<1> HIDE DEF new
<1>3. <<orders[o].status, new.status>> \in StatusMoves \cup {<<"cancelled", "cancelled">>}
  BY <1>1, <1>2 DEF StatusMoves, EarlyCopy
<1>4. RoomsFollow(new)
  BY <1>1, <1>2 DEF RoomsFollow
<1> QED BY <1>1, <1>2, <1>3, <1>4, StatusSaved DEF EarlyCopy

\* Every step is of one of these kinds.
LEMMA StepSaves ==
    ASSUME ApartInv, Next
    PROVE  \E r : RoomSave(r)
<1>1. ASSUME NEW p \in Proc, \/ \E o \in Order : OrderRequest(p, o)
                             \/ \E r \in Room : RoomRequest(p, r)
      PROVE  UNCHANGED tables
  BY <1>1 DEF OrderRequest, CancelOrderRead, CheckInRead, CheckOutRead, ExtendStayRead, Read,
              CreatePaymentRead, RoomRequest, CreateOrderRead, UpdateRoomRead
<1>2. ASSUME SweepRead \/ \E o \in Order : Age(o) \/ SweepFail(o)
      PROVE  UNCHANGED tables
  BY <1>2 DEF SweepRead, Age, SweepFail
<1> QED BY <1>1, <1>2, NothingSaved, RequestSaves, SweepSaves DEF Next, Sweep

-----------------------------------------------------------------------------
(* What others have read stays so. *)

\* Whatever changes, in orders or rooms, is in room r.
OnlyIn(r) ==
    /\ \A o \in DOMAIN orders : o \in DOMAIN orders'
    /\ \A o \in DOMAIN orders' :
         \/ o \in DOMAIN orders /\ orders'[o] = orders[o]
         \/ orders'[o].room = r /\ (o \in DOMAIN orders => orders[o].room = r)

LEMMA SavesOnlyThere ==
    ASSUME TypeOK, NEW r, RoomSave(r)
    PROVE  OnlyIn(r)
<1>1. CASE RoomSet(r)
  BY <1>1 DEF RoomSet, OnlyIn
<1>2. CASE Inserted(r)
  <2>1. PICK p \in Proc, o \in Order : CreateOrderInsert(p, o) /\ copy[p].room = r
    BY <1>2 DEF Inserted
  <2>2. copy[p] \in OrderRow /\ Save(o, copy[p]) /\ o \notin DOMAIN orders
    BY <2>1 DEF CreateOrderInsert, TypeOK, RequestTypeOK
  <2>3. /\ DOMAIN orders' = DOMAIN orders \cup {o} /\ orders'[o] = copy[p]
        /\ \A x \in DOMAIN orders \ {o} : orders'[x] = orders[x]
    BY <2>2, SaveFits
  <2> QED BY <2>1, <2>2, <2>3 DEF OnlyIn
<1>3. ASSUME NEW id, NEW row, RowSaved(id, row), row.room = r
      PROVE  OnlyIn(r)
  <2>1. /\ id \in DOMAIN orders /\ id \in Order /\ row \in OrderRow /\ Save(id, row)
        /\ orders[id].room = r
    BY <1>3 DEF RowSaved, RowMoves, StayOf, Lengthens, TypeOK, DBTypeOK
  <2>2. /\ DOMAIN orders' = DOMAIN orders \cup {id} /\ orders'[id] = row
        /\ \A x \in DOMAIN orders \ {id} : orders'[x] = orders[x]
    BY <2>1, SaveFits
  <2> QED BY <1>3, <2>1, <2>2 DEF OnlyIn
<1> QED BY <1>1, <1>2, <1>3 DEF RoomSave, GuestSave

\* The orders of the other rooms are the same ones after the step.
LEMMA SameElsewhere ==
    ASSUME NEW r, OnlyIn(r), NEW x, x # r, NEW from, NEW to, NEW except
    PROVE  DateConflicts(x, from, to, except)' = DateConflicts(x, from, to, except)
<1>1. \A o \in DOMAIN orders' : orders'[o].room = x =>
        o \in DOMAIN orders /\ orders'[o] = orders[o]
  BY DEF OnlyIn
<1>2. \A o \in DOMAIN orders : orders[o].room = x =>
        o \in DOMAIN orders' /\ orders'[o] = orders[o]
  BY DEF OnlyIn
<1> QED BY <1>1, <1>2 DEF DateConflicts, Overlaps

\* The save of an order by guests or the sweep takes no night.
LEMMA GuestRowSaved ==
    ASSUME TypeOK, NEW id, NEW row, RowSaved(id, row), row.status \in {"paid", "cancelled"}
    PROVE  /\ id \in Order /\ id \in DOMAIN orders /\ row \in OrderRow /\ Save(id, row)
           /\ StayOf(row) = StayOf(orders[id])
           /\ orders[id].status # "checked_in"
           /\ TakesNoNight(id, row)
           /\ DOMAIN orders' = DOMAIN orders /\ orders'[id] = row
           /\ \A x \in DOMAIN orders \ {id} : orders'[x] = orders[x]
<1>1. id \in Order /\ id \in DOMAIN orders /\ row \in OrderRow /\ Save(id, row)
  BY DEF RowSaved, TypeOK, DBTypeOK
<1>2. StayOf(row) = StayOf(orders[id]) /\ orders[id].status # "checked_in"
  BY DEF RowSaved, RowMoves, StatusMoves, Lengthens
<1>3. row.status = "paid" => orders[id].status = "pending"
  BY DEF RowSaved, RowMoves, StatusMoves, Lengthens
<1>4. TakesNoNight(id, row)
  BY <1>1, <1>2, <1>3 DEF TakesNoNight, Active
<1> QED BY <1>1, <1>2, <1>4, SaveFits

LEMMA EarlyStays ==
    ASSUME TypeOK, NEW r, NEW id, NEW row, EarlyCopy(id, row),
           GuestSave(r) \/ (OnlyIn(r) /\ row.room # r)
    PROVE  EarlyCopy(id, row)'
<1>1. CASE OnlyIn(r) /\ row.room # r
  <2>1. orders[id].room = row.room
    BY DEF EarlyCopy, StayOf
  <2> QED BY <1>1, <2>1 DEF EarlyCopy, OnlyIn
<1>2. CASE RoomSet(r)
  BY <1>2 DEF RoomSet, EarlyCopy
<1>3. CASE Inserted(r)
  <2>1. PICK p \in Proc, o \in Order : CreateOrderInsert(p, o)
    BY <1>3 DEF Inserted
  <2>2. copy[p] \in OrderRow /\ Save(o, copy[p]) /\ o \notin DOMAIN orders
    BY <2>1 DEF CreateOrderInsert, TypeOK, RequestTypeOK
  <2>3. id \in DOMAIN orders' /\ orders'[id] = orders[id]
    BY <2>2, SaveFits DEF EarlyCopy
  <2> QED BY <2>3 DEF EarlyCopy
<1>4. ASSUME NEW i, NEW new, RowSaved(i, new), new.status \in {"paid", "cancelled"}
      PROVE  EarlyCopy(id, row)'
  BY <1>4, GuestRowSaved DEF EarlyCopy
<1> QED BY <1>1, <1>2, <1>3, <1>4 DEF GuestSave

LEMMA GuestStays ==
    ASSUME TypeOK, NEW r, NEW x, HasGuest(x), GuestSave(r) \/ (OnlyIn(r) /\ x # r)
    PROVE  HasGuest(x)'
<1>0. PICK g \in DOMAIN orders : orders[g].room = x /\ orders[g].status = "checked_in"
  BY DEF HasGuest
<1> SUFFICES g \in DOMAIN orders' /\ orders'[g] = orders[g]
  BY <1>0 DEF HasGuest
<1>1. CASE OnlyIn(r) /\ x # r
  BY <1>0, <1>1 DEF OnlyIn
<1>2. CASE RoomSet(r)
  BY <1>2 DEF RoomSet
<1>3. CASE Inserted(r)
  <2>1. PICK p \in Proc, o \in Order : CreateOrderInsert(p, o)
    BY <1>3 DEF Inserted
  <2>2. copy[p] \in OrderRow /\ Save(o, copy[p]) /\ o \notin DOMAIN orders
    BY <2>1 DEF CreateOrderInsert, TypeOK, RequestTypeOK
  <2> QED BY <2>2, SaveFits
<1>4. ASSUME NEW i, NEW new, RowSaved(i, new), new.status \in {"paid", "cancelled"}
      PROVE  g \in DOMAIN orders' /\ orders'[g] = orders[g]
  BY <1>0, <1>4, GuestRowSaved
<1> QED BY <1>1, <1>2, <1>3, <1>4 DEF GuestSave

LEMMA StaffStays ==
    ASSUME NEW r, OnlyIn(r), NEW step, NEW id \in DOMAIN orders, NEW row,
           StaffCopy(step, id, row), row.room # r
    PROVE  StaffCopy(step, id, row)'
<1>1. orders[id].room = row.room
  BY DEF StaffCopy, Lengthens
<1>2. id \in DOMAIN orders' /\ orders'[id] = orders[id]
  BY <1>1 DEF OnlyIn
<1>3. ASSUME Lengthens(id, row) PROVE Lengthens(id, row)'
  <2>1. PICK from, to : from = orders[id].checkOut /\ to = row.checkOut
    OBVIOUS
  <2>2. DateConflicts(row.room, from, to, {id}) = {}
    BY <1>3, <2>1 DEF Lengthens
  <2>3. DateConflicts(row.room, from, to, {id})' = {}
    BY <2>2, SameElsewhere
  <2> QED BY <1>2, <1>3, <2>1, <2>3 DEF Lengthens, DateConflicts
<1> QED BY <1>2, <1>3 DEF StaffCopy

\* A creator that holds its room's lock keeps its nights.
LEMMA NightsStayFree ==
    ASSUME ApartInv, NEW r, NEW q \in Proc, at[q] = "creating", at'[q] = at[q],
           lock[copy[q].room] = q, engine = "mysql",
           GuestSave(r) \/ (OnlyIn(r) /\ copy[q].room # r),
           NEW x, NEW from, NEW to, x = copy[q].room, DateConflicts(x, from, to, {}) = {}
    PROVE  DateConflicts(x, from, to, {})' = {}
<1>1. CASE OnlyIn(r) /\ copy[q].room # r
  BY <1>1, SameElsewhere
<1>2. CASE RoomSet(r)
  BY <1>2 DEF RoomSet, DateConflicts, Overlaps
<1>3. CASE Inserted(r)
  <2>1. PICK p \in Proc, o \in Order : CreateOrderInsert(p, o) /\ copy[p].room = r
    BY <1>3 DEF Inserted
  <2>2. at[p] = "creating" /\ at'[p] = "idle"
    BY <2>1, FinishedFits DEF CreateOrderInsert, Commit, ApartInv
  <2>3. lock[copy[p].room] = p
    BY <2>2 DEF ApartInv, CopyHolds, CreatorHoldsFreeNights
  <2>4. copy[q].room # r
    BY <2>1, <2>2, <2>3
  <2>5. OnlyIn(r)
    BY <1>3, SavesOnlyThere DEF RoomSave, GuestSave, ApartInv
  <2> QED BY <2>4, <2>5, SameElsewhere
<1>4. ASSUME NEW i, NEW new, RowSaved(i, new), new.status \in {"paid", "cancelled"}
      PROVE  DateConflicts(x, from, to, {})' = {}
  <2>1. /\ i \in Order /\ new \in OrderRow /\ Save(i, new) /\ TakesNoNight(i, new)
        /\ TypeOK /\ NoDoubleBooking
    BY <1>4, GuestRowSaved DEF ApartInv
  <2>2. DateConflicts(x, from, to, {})' \subseteq DateConflicts(x, from, to, {})
    BY <2>1, NoNightTaken
  <2> QED BY <2>2
<1> QED BY <1>1, <1>2, <1>3, <1>4 DEF GuestSave

\* A request goes on with what it has read after another one's commit.
LEMMA OthersHold ==
    ASSUME ApartInv, NEW r, RoomSave(r), NEW q \in Proc,
           at'[q] = at[q], target'[q] = target[q], copy'[q] = copy[q],
           UNCHANGED engine, fresh' = {},
           \A x \in Room \cup Order : lock[x] = q <=> lock'[x] = q,
           at[q] = "paying" /\ engine = "mysql" => orders'[target[q]] = orders[target[q]],
           q \in Busy => GuestSave(r) \/ RoomOf(q) # r,
           at[q] \in StaffSteps => RoomOf(q) # r
    PROVE  CopyHolds(q)'
<1> USE DEF Step, OrderSteps
<1>1. /\ TypeOK /\ CopyHolds(q) /\ OnlyIn(r) /\ engine \in {"mysql", "sqlite"}
      /\ StillCurrent(q)' => engine = "mysql"
  BY SavesOnlyThere, TrafficAssumption DEF ApartInv, TypeOK, DBTypeOK, StillCurrent
<1>2. CreatorHoldsFreeNights(q)'
  <2> SUFFICES ASSUME at[q] = "creating"
               PROVE  /\ engine = "mysql" => lock'[copy[q].room] = q
                      /\ copy[q].status = "pending"
                      /\ StillCurrent(q)' => DateConflicts(copy[q].room, copy[q].checkIn,
                                                           copy[q].checkOut, {})' = {}
    BY DEF CreatorHoldsFreeNights, DateConflicts, Overlaps
  <2>1. /\ copy[q].room \in Room
        /\ copy[q].status = "pending" /\ (engine = "mysql" => lock[copy[q].room] = q)
        /\ engine = "mysql" =>
             DateConflicts(copy[q].room, copy[q].checkIn, copy[q].checkOut, {}) = {}
    BY <1>1, RowFits DEF CopyHolds, CreatorHoldsFreeNights, StillCurrent, TypeOK, RequestTypeOK
  <2>2. ASSUME engine = "mysql"
        PROVE  DateConflicts(copy[q].room, copy[q].checkIn, copy[q].checkOut, {})' = {}
    <3>1. GuestSave(r) \/ copy[q].room # r
      BY DEF Busy, RoomOf
    <3>2. PICK x, from, to : x = copy[q].room /\ from = copy[q].checkIn /\ to = copy[q].checkOut
      OBVIOUS
    <3>3. DateConflicts(x, from, to, {})' = {}
      BY <1>1, <2>1, <2>2, <3>1, <3>2, NightsStayFree
    <3> QED BY <3>2, <3>3 DEF DateConflicts
  <2> QED BY <1>1, <2>1, <2>2
<1>3. PayerHoldsItsOrder(q)'
  <2> SUFFICES ASSUME at[q] = "paying"
               PROVE  /\ engine = "mysql" => lock'[target[q]] = q
                      /\ copy[q].status = "pending"
                      /\ StillCurrent(q)' => orders'[target[q]] = copy[q]
    BY DEF PayerHoldsItsOrder
  <2>1. target[q] \in Order
    BY <1>1, HeldOrder
  <2> QED BY <1>1, <2>1 DEF CopyHolds, PayerHoldsItsOrder, StillCurrent
<1>4. ASSUME at[q] = "cancelling" PROVE EarlyCopy(target[q], copy[q])'
  <2>1. PICK id, row : id = target[q] /\ row = copy[q]
    OBVIOUS
  <2>2. EarlyCopy(id, row) /\ (GuestSave(r) \/ row.room # r)
    BY <1>1, <1>4, <2>1 DEF CopyHolds, Busy, RoomOf
  <2>3. EarlyCopy(id, row)'
    BY <1>1, <2>2, EarlyStays
  <2> QED BY <2>1, <2>3 DEF EarlyCopy
<1>5. ASSUME at[q] \in StaffSteps PROVE StaffCopy(at[q], target[q], copy[q])'
  <2>1. PICK step, id, row : step = at[q] /\ id = target[q] /\ row = copy[q]
    OBVIOUS
  <2>2. id \in DOMAIN orders /\ StaffCopy(step, id, row) /\ row.room # r
    BY <1>1, <1>5, <2>1, HeldOrder DEF CopyHolds, StaffSteps, RoomOf
  <2>3. StaffCopy(step, id, row)'
    BY <1>1, <2>2, StaffStays
  <2> QED BY <2>1, <2>3 DEF StaffCopy, Lengthens, DateConflicts
<1>6. ASSUME at[q] = "updating_room" /\ copy[q].status = "occupied" PROVE HasGuest(target[q])'
  <2>1. PICK x : x = target[q]
    OBVIOUS
  <2>2. HasGuest(x) /\ (GuestSave(r) \/ x # r)
    BY <1>1, <1>6, <2>1 DEF CopyHolds, Busy, RoomOf
  <2>3. HasGuest(x)'
    BY <1>1, <2>2, GuestStays
  <2> QED BY <2>1, <2>3 DEF HasGuest
<1> QED BY <1>2, <1>3, <1>4, <1>5, <1>6 DEF CopyHolds

\* A read of another request changes nothing for this one.
LEMMA ReadsDisturbNobody ==
    ASSUME TypeOK, NEW q \in Proc, CopyHolds(q), UNCHANGED <<engine, tables>>,
           at'[q] = at[q], target'[q] = target[q], copy'[q] = copy[q],
           q \in fresh' => q \in fresh,
           \A x \in Room \cup Order : lock[x] = q <=> lock'[x] = q
    PROVE  CopyHolds(q)'
<1> USE DEF Step
<1>1. orders' = orders
  BY DEF tables
<1>2. CreatorHoldsFreeNights(q)'
  <2>1. at[q] = "creating" => copy[q].room \in Room
    BY RowFits DEF TypeOK, RequestTypeOK
  <2> QED BY <1>1, <2>1 DEF CopyHolds, CreatorHoldsFreeNights, StillCurrent, DateConflicts, Overlaps
<1>3. PayerHoldsItsOrder(q)'
  <2>1. at[q] = "paying" => target[q] \in Order
    BY HeldOrder
  <2> QED BY <1>1, <2>1 DEF CopyHolds, PayerHoldsItsOrder, StillCurrent
<1>4. at[q] = "cancelling" => EarlyCopy(target[q], copy[q])'
  BY <1>1 DEF CopyHolds, EarlyCopy
<1>5. at[q] \in StaffSteps => StaffCopy(at[q], target[q], copy[q])'
  BY <1>1 DEF CopyHolds, StaffCopy, Lengthens, DateConflicts
<1>6. at[q] = "updating_room" /\ copy[q].status = "occupied" => HasGuest(target[q])'
  BY <1>1 DEF CopyHolds, HasGuest
<1> QED BY <1>2, <1>3, <1>4, <1>5, <1>6 DEF CopyHolds

\* What a request that reads may rely on then.
ReadRight(p, step, id, row) ==
    /\ step = "creating" =>
         /\ engine = "mysql" => lock'[row.room] = p
         /\ row.status = "pending"
         /\ DateConflicts(row.room, row.checkIn, row.checkOut, {}) = {}
    /\ step = "paying" =>
         /\ engine = "mysql" => lock'[id] = p
         /\ row.status = "pending"
         /\ orders[id] = row
    /\ step = "cancelling" => EarlyCopy(id, row)
    /\ step \in StaffSteps => StaffCopy(step, id, row)
    /\ step = "updating_room" /\ row.status = "occupied" => HasGuest(id)

LEMMA ReaderHolds ==
    ASSUME TypeOK, NEW p \in Proc, NEW step \in Step, NEW id, NEW row,
           Holding(p, step, id, row), UNCHANGED <<engine, tables>>, ReadRight(p, step, id, row)
    PROVE  CopyHolds(p)'
<1>1. at'[p] = step /\ target'[p] = id /\ copy'[p] = row /\ orders' = orders
  BY DEF Holding, TypeOK, DBTypeOK, tables
<1>2. CreatorHoldsFreeNights(p)'
  BY <1>1 DEF ReadRight, CreatorHoldsFreeNights, DateConflicts, Overlaps
<1>3. PayerHoldsItsOrder(p)'
  BY <1>1 DEF ReadRight, PayerHoldsItsOrder
<1>4. step = "cancelling" => EarlyCopy(target[p], copy[p])'
  BY <1>1 DEF ReadRight, EarlyCopy
<1>5. step \in StaffSteps => StaffCopy(at[p], target[p], copy[p])'
  BY <1>1 DEF ReadRight, StaffCopy, Lengthens, DateConflicts
<1>6. step = "updating_room" /\ row.status = "occupied" => HasGuest(target[p])'
  BY <1>1 DEF ReadRight, HasGuest
<1> QED BY <1>1, <1>2, <1>3, <1>4, <1>5, <1>6 DEF CopyHolds

\* An extension that was checked lengthens the stay by free nights.
LEMMA CheckedLengthens ==
    ASSUME ApartInv, NEW p \in Proc, NEW n \in 1 .. MaxDay, ExtendStayCheck(p, n), NEW price
    PROVE  Lengthens(target[p], Extended(copy[p], n, price))
<1> DEFINE row == copy[p]
           new == Extended(row, n, price)
<1>1. /\ row \in OrderRow /\ row = orders[target[p]] /\ row.status = "checked_in"
      /\ DateConflicts(row.room, row.checkOut, row.checkOut + n, {target[p]}) = {}
  BY HeldOrder DEF ExtendStayCheck, ApartInv, CopyHolds, StaffCopy, StaffSteps, Step
<1>2. n \in Int /\ n > 0
  BY BoundsAssumption
<1>3. /\ new.room = row.room /\ new.checkIn = row.checkIn /\ new.status = row.status
      /\ new.checkOut = row.checkOut + n
  BY <1>1 DEF Extended, OrderRow
<1> HIDE DEF new, row
<1>4. row.checkOut \in Int
  BY <1>1, RowFits
<1>5. DateConflicts(new.room, orders[target[p]].checkOut, new.checkOut, {target[p]}) = {}
  BY <1>1, <1>3
<1>6. new.checkOut > orders[target[p]].checkOut
  BY <1>1, <1>2, <1>3, <1>4
<1>7. Lengthens(target[p], new)
  BY <1>1, <1>3, <1>5, <1>6 DEF Lengthens
<1> QED BY <1>7 DEF new, row

LEMMA ReadsHold ==
    ASSUME ApartInv, NEW p \in Proc,
           \/ \E o \in Order : OrderRequest(p, o)
           \/ \E r \in Room : RoomRequest(p, r)
           \/ \E n \in 1 .. MaxDay : ExtendStayCheck(p, n)
    PROVE  \A q \in Proc : CopyHolds(q)'
<1> USE DEF Step, StaffSteps
<1>1. TypeOK /\ \A q \in Proc : CopyHolds(q)
  BY DEF ApartInv
<1>2. ASSUME NEW step \in Step, NEW id, NEW row, Holding(p, step, id, row),
             UNCHANGED <<engine, tables>>, ReadRight(p, step, id, row),
             \/ \E x \in Room \cup Order : SelectForUpdate(p, x)
             \/ SelectInTx(p)
             \/ UNCHANGED <<lock, fresh>>
      PROVE  \A q \in Proc : CopyHolds(q)'
  <2>1. ASSUME NEW q \in Proc \ {p} PROVE CopyHolds(q)'
    <3>1. at'[q] = at[q] /\ target'[q] = target[q] /\ copy'[q] = copy[q]
      BY <1>1, <1>2 DEF Holding, TypeOK, DBTypeOK
    <3>2. /\ q \in fresh' => q \in fresh
          /\ \A x \in Room \cup Order : lock[x] = q <=> lock'[x] = q
      BY <1>1, <1>2, SelectForUpdateFits DEF SelectInTx
    <3> QED BY <1>1, <1>2, <3>1, <3>2, ReadsDisturbNobody
  <2> QED BY <1>1, <1>2, <2>1, ReaderHolds
<1>3. ASSUME NEW o \in Order, NEW step \in {"cancelling", "checking_in", "checking_out", "extending"},
             NEW allowed, Read(p, o, step, allowed),
             allowed = CASE step = "cancelling" -> {"pending", "paid"}
                         [] step = "checking_in" -> {"paid"}
                         [] OTHER -> {"checked_in"}
      PROVE  \A q \in Proc : CopyHolds(q)'
  <2>1. /\ Holding(p, step, o, orders[o]) /\ UNCHANGED <<engine, tables, lock, fresh>>
        /\ o \in DOMAIN orders /\ orders[o].status \in allowed
    BY <1>3 DEF Read
  <2>2. ReadRight(p, step, o, orders[o])
    BY <1>3, <2>1 DEF ReadRight, EarlyCopy, StaffCopy
  <2> QED BY <1>2, <2>1, <2>2
<1>4. ASSUME NEW o \in Order, CreatePaymentRead(p, o) PROVE \A q \in Proc : CopyHolds(q)'
  <2>1. /\ Holding(p, "paying", o, orders[o]) /\ UNCHANGED <<engine, tables>>
        /\ orders[o].status = "pending" /\ SelectForUpdate(p, o)
    BY <1>4 DEF CreatePaymentRead
  <2>2. ReadRight(p, "paying", o, orders[o])
    BY <1>1, <2>1, SelectForUpdateFits DEF ReadRight
  <2> QED BY <1>2, <2>1, <2>2
<1>5. ASSUME NEW r \in Room, NEW from \in Day, NEW to \in Day, CreateOrderRead(p, r, from, to)
      PROVE  \A q \in Proc : CopyHolds(q)'
  <2>1. PICK row : /\ Holding(p, "creating", None, row)
                   /\ row.room = r /\ row.checkIn = from /\ row.checkOut = to
                   /\ row.status = "pending"
    BY <1>5 DEF CreateOrderRead
  <2>2. /\ DateConflicts(row.room, row.checkIn, row.checkOut, {}) = {}
        /\ SelectForUpdate(p, r) /\ UNCHANGED <<engine, tables>>
    BY <1>1, <1>5, <2>1, AskedEndIsLater DEF CreateOrderRead
  <2>3. ReadRight(p, "creating", None, row)
    BY <1>1, <2>1, <2>2, SelectForUpdateFits DEF ReadRight
  <2> QED BY <1>2, <2>1, <2>2, <2>3
<1>6. ASSUME NEW r \in Room, NEW status \in RoomStatus, UpdateRoomRead(p, r, status)
      PROVE  \A q \in Proc : CopyHolds(q)'
  <2> DEFINE row == [status |-> status]
  <2>1. /\ Holding(p, "updating_room", r, row) /\ UNCHANGED <<engine, tables, lock, fresh>>
        /\ row.status = status
    BY <1>6 DEF UpdateRoomRead
  <2>2. status = "occupied" => HasGuest(r)
    BY <1>6 DEF UpdateRoomRead, ApartInv, OccupiedHasGuest, HasGuest
  <2> HIDE DEF row
  <2>3. ReadRight(p, "updating_room", r, row)
    BY <2>1, <2>2 DEF ReadRight
  <2> QED BY <1>2, <2>1, <2>3
<1>7. ASSUME NEW n \in 1 .. MaxDay, ExtendStayCheck(p, n) PROVE \A q \in Proc : CopyHolds(q)'
  <2>0. PICK price \in Prices :
          Holding(p, "extend_checked", target[p], Extended(copy[p], n, price))
    BY <1>7 DEF ExtendStayCheck
  <2>1. /\ Holding(p, "extend_checked", target[p], Extended(copy[p], n, price))
        /\ UNCHANGED <<engine, tables>> /\ SelectInTx(p)
    BY <1>7, <2>0 DEF ExtendStayCheck
  <2>2. PICK id, row : id = target[p] /\ row = Extended(copy[p], n, price)
    OBVIOUS
  <2>3. ReadRight(p, "extend_checked", id, row)
    BY <1>7, <2>2, CheckedLengthens DEF ReadRight, StaffCopy
  <2> QED BY <1>2, <2>1, <2>2, <2>3
<1> QED BY <1>3, <1>4, <1>5, <1>6, <1>7
        DEF OrderRequest, RoomRequest, CancelOrderRead, CheckInRead, CheckOutRead, ExtendStayRead

\* A commit waits for the lock of the order it writes.
LEMMA WritesWait ==
    ASSUME ApartInv, NEW p \in Proc, Continue(p), NEW q \in Proc \ {p},
           at[q] = "paying", engine = "mysql"
    PROVE  orders'[target[q]] = orders[target[q]]
<1>1. lock[target[q]] = q /\ target[q] \in DOMAIN orders
  BY HeldOrder DEF ApartInv, CopyHolds, PayerHoldsItsOrder, Step
<1>2. \/ UNCHANGED orders
      \/ \E id, row : Save(id, row) /\ (id \notin DOMAIN orders \/ lock[id] \in {None, p})
  BY DEF Continue, CreateOrderInsert, CancelOrderSave, CheckInSave, CheckOutSave, SaveWithRoom,
         ExtendStayCheck, ExtendStaySave, CreatePaymentSave, UpdateRoomSave, Rollback, CanWrite,
         tables
<1> QED BY <1>1, <1>2, KeysAssumption DEF Save

LEMMA RequestsHold ==
    ASSUME ApartInv, Next
    PROVE  \A q \in Proc : CopyHolds(q)'
<1>0. TypeOK /\ \A q \in Proc : CopyHolds(q)
  BY DEF ApartInv
<1>1. ASSUME NEW p \in Proc, \/ \E o \in Order : OrderRequest(p, o)
                             \/ \E r \in Room : RoomRequest(p, r)
                             \/ \E n \in 1 .. MaxDay : ExtendStayCheck(p, n)
      PROVE  \A q \in Proc : CopyHolds(q)'
  BY <1>1, ReadsHold
<1>2. ASSUME NEW p \in Proc, Continue(p), ~\E n \in 1 .. MaxDay : ExtendStayCheck(p, n),
             NEW q \in Proc
      PROVE  CopyHolds(q)'
  <2>1. Finished(p) /\ p \in Busy /\ UNCHANGED engine
    BY <1>2 DEF Continue, CreateOrderInsert, CancelOrderSave, CheckInSave, CheckOutSave,
                SaveWithRoom, ExtendStaySave, CreatePaymentSave, UpdateRoomSave, Rollback, Commit,
                Busy
  <2>2. CASE q = p
    BY <1>0, <2>1, <2>2, FinishedFits
       DEF CopyHolds, CreatorHoldsFreeNights, PayerHoldsItsOrder, StaffSteps
  <2>3. CASE q # p
    <3>1. /\ at'[q] = at[q] /\ target'[q] = target[q] /\ copy'[q] = copy[q]
          /\ \A x \in Room \cup Order : lock[x] = q <=> lock'[x] = q
      BY <1>0, <2>1, <2>3, FinishedFits
    <3>2. CASE Rollback(p)
      BY <1>0, <2>1, <3>1, <3>2, ReadsDisturbNobody DEF Rollback
    <3>3. CASE ~Rollback(p)
      <4>1. fresh' = {}
        BY <1>2, <3>3 DEF Continue, CreateOrderInsert, CancelOrderSave, CheckInSave, CheckOutSave,
                SaveWithRoom, ExtendStaySave, CreatePaymentSave, UpdateRoomSave, Commit
      <4>2. PICK r : r = RoomOf(p)
        OBVIOUS
      <4>3. /\ RoomSave(r)
            /\ at[p] \in StaffSteps \/ GuestSave(r)
        BY <1>2, <4>2, RequestSaves
      <4>4. at[p] \in StaffSteps => r = copy[p].room
        BY <4>2 DEF RoomOf, StaffSteps
      <4>5. q \in Busy => GuestSave(r) \/ RoomOf(q) # r
        BY <2>3, <4>3, <4>4 DEF ApartInv, StaffApart
      <4>6. at[q] \in StaffSteps => RoomOf(q) # r
        BY <2>1, <2>3, <4>2 DEF ApartInv, StaffApart, StaffSteps, RoomOf
      <4>7. at[q] = "paying" /\ engine = "mysql" => orders'[target[q]] = orders[target[q]]
        BY <1>2, <2>3, WritesWait
      <4> QED BY <2>1, <3>1, <4>1, <4>3, <4>5, <4>6, <4>7, OthersHold
    <3> QED BY <3>2, <3>3
  <2> QED BY <2>2, <2>3
<1>3. ASSUME NEW o \in Order, SweepSave(o), NEW q \in Proc PROVE CopyHolds(q)'
  <2>1. /\ at'[q] = at[q] /\ target'[q] = target[q] /\ copy'[q] = copy[q]
        /\ UNCHANGED <<engine, lock>> /\ fresh' = {} /\ lock[o] = None /\ o \in DOMAIN batch
    BY <1>3 DEF SweepSave, requests
  <2>2. PICK r : r = batch[o].room
    OBVIOUS
  <2>3. RoomSave(r) /\ GuestSave(r)
    BY <1>3, <2>2, SweepSaves
  <2>4. at[q] \in StaffSteps => RoomOf(q) # r
    BY <2>1, <2>2 DEF ApartInv, StaffApart, StaffSteps, RoomOf
  <2>5. at[q] = "paying" /\ engine = "mysql" => orders'[target[q]] = orders[target[q]]
    <3>1. at[q] = "paying" /\ engine = "mysql" =>
            lock[target[q]] = q /\ target[q] \in DOMAIN orders
      BY HeldOrder DEF ApartInv, CopyHolds, PayerHoldsItsOrder, Step
    <3> QED BY <1>3, <2>1, <3>1, KeysAssumption DEF SweepSave, Save
  <2> QED BY <2>1, <2>3, <2>4, <2>5, OthersHold
<1>4. ASSUME SweepRead \/ \E o \in Order : Age(o) \/ SweepFail(o), NEW q \in Proc
      PROVE  CopyHolds(q)'
  <2>1. UNCHANGED <<engine, tables, lock, fresh, requests>>
    BY <1>4 DEF SweepRead, Age, SweepFail
  <2> QED BY <1>0, <2>1, ReadsDisturbNobody DEF requests
<1> QED BY <1>1, <1>2, <1>3, <1>4 DEF Next, Sweep

LEMMA BatchStays ==
    ASSUME ApartInv, Next
    PROVE  BatchHolds'
<1>0. BatchHolds /\ TypeOK
  BY DEF ApartInv
<1>1. ASSUME UNCHANGED orders, \A o \in DOMAIN batch' : o \in DOMAIN batch /\ batch'[o] = batch[o]
      PROVE  BatchHolds'
  BY <1>0, <1>1 DEF BatchHolds, EarlyCopy
<1>2. ASSUME NEW p \in Proc, \/ \E o \in Order : OrderRequest(p, o)
                             \/ \E r \in Room : RoomRequest(p, r)
      PROVE  BatchHolds'
  <2>1. UNCHANGED <<orders, batch>>
    BY <1>2 DEF OrderRequest, CancelOrderRead, CheckInRead, CheckOutRead, ExtendStayRead, Read,
                CreatePaymentRead, RoomRequest, CreateOrderRead, UpdateRoomRead, tables
  <2> QED BY <1>1, <2>1
<1>3. ASSUME NEW r, RoomSave(r),
             \A o \in DOMAIN batch : GuestSave(r) \/ batch[o].room # r,
             \A o \in DOMAIN batch' : o \in DOMAIN batch /\ batch'[o] = batch[o]
      PROVE  BatchHolds'
  <2>1. ASSUME NEW o \in DOMAIN batch', NEW row, row = batch[o] PROVE EarlyCopy(o, row)'
    BY <1>0, <1>3, <2>1, SavesOnlyThere, EarlyStays DEF BatchHolds
  <2>2. ASSUME NEW o \in DOMAIN batch' PROVE EarlyCopy(o, batch[o])'
    <3>1. PICK row : row = batch[o]
      OBVIOUS
    <3>2. EarlyCopy(o, row)' /\ batch'[o] = row
      BY <1>3, <2>1, <3>1
    <3> QED BY <3>2 DEF EarlyCopy
  <2> QED BY <2>2 DEF BatchHolds
<1>4. ASSUME NEW p \in Proc, Continue(p) PROVE BatchHolds'
  <2>1. PICK r : r = RoomOf(p)
    OBVIOUS
  <2>2. /\ RoomSave(r) /\ UNCHANGED batch
        /\ at[p] \in StaffSteps \/ GuestSave(r)
    BY <1>4, <2>1, RequestSaves
  <2>3. at[p] \in StaffSteps => \A o \in DOMAIN batch : batch[o].room # r
    BY <2>1 DEF RoomOf, StaffSteps, ApartInv, StaffApart
  <2> QED BY <1>3, <2>2, <2>3
<1>5. ASSUME NEW o \in Order, SweepSave(o) PROVE BatchHolds'
  <2>1. PICK r : r = batch[o].room
    OBVIOUS
  <2>2. RoomSave(r) /\ GuestSave(r)
    BY <1>5, <2>1, SweepSaves
  <2> QED BY <1>3, <1>5, <2>2 DEF SweepSave, Without
<1>6. CASE SweepRead
  <2>1. /\ DOMAIN batch' = FindExpiredPending /\ UNCHANGED orders
        /\ \A o \in FindExpiredPending : batch'[o] = orders[o]
    BY <1>6 DEF SweepRead, tables
  <2> QED BY <2>1 DEF BatchHolds, EarlyCopy, FindExpiredPending
<1>7. ASSUME NEW o \in Order, Age(o) \/ SweepFail(o) PROVE BatchHolds'
  BY <1>1, <1>7 DEF Age, SweepFail, Without, tables
<1> QED BY <1>2, <1>4, <1>5, <1>6, <1>7 DEF Next, Sweep

-----------------------------------------------------------------------------
(* What the tables promise. *)

\* An order that meets no other one.
LEMMA StaysApart ==
    ASSUME TypeOK, NoDoubleBooking, NEW id \in Order, NEW row \in OrderRow, Save(id, row),
           \A x \in DOMAIN orders \ {id} :
             orders[x].room = row.room /\ orders[x].status \in Active
               => ~Overlaps(orders[x], row.checkIn, row.checkOut)
    PROVE  NoDoubleBooking'
<1>1. /\ DOMAIN orders' = DOMAIN orders \cup {id}
      /\ orders'[id] = row
      /\ \A x \in DOMAIN orders \ {id} : orders'[x] = orders[x]
  BY SaveFits
<1>2. \A x \in DOMAIN orders : orders[x].checkIn \in Int /\ orders[x].checkOut \in Int
  BY RowFits DEF TypeOK, DBTypeOK
<1>3. row.checkIn \in Int /\ row.checkOut \in Int
  BY RowFits
<1>4. ASSUME NEW a \in DOMAIN orders', NEW b \in DOMAIN orders', a # b,
             orders'[a].room = orders'[b].room,
             orders'[a].status \in Active, orders'[b].status \in Active
      PROVE  ~(orders'[a].checkIn < orders'[b].checkOut
               /\ orders'[a].checkOut > orders'[b].checkIn)
  <2>1. CASE a # id /\ b # id
    BY <1>1, <1>4, <2>1 DEF NoDoubleBooking, Overlaps
  <2>2. CASE a = id
    BY <1>1, <1>2, <1>3, <1>4, <2>2 DEF Overlaps
  <2>3. CASE b = id
    BY <1>1, <1>4, <2>3 DEF Overlaps
  <2> QED BY <2>1, <2>2, <2>3
<1> QED BY <1>4 DEF NoDoubleBooking, Overlaps

\* Free nights after a stay that meets no other one make a longer one of the kind.
LEMMA LongerApart ==
    ASSUME TypeOK, RowsWellMade, NoDoubleBooking, NEW id \in DOMAIN orders,
           NEW row \in OrderRow, Lengthens(id, row), NEW x \in DOMAIN orders \ {id},
           orders[x].room = row.room, orders[x].status \in Active
    PROVE  ~Overlaps(orders[x], row.checkIn, row.checkOut)
<1> DEFINE old == orders[id]
           other == orders[x]
<1>1. /\ old.checkIn \in Int /\ old.checkOut \in Int /\ row.checkOut \in Int
      /\ other.checkIn \in Int /\ other.checkOut \in Int
  BY RowFits DEF TypeOK, DBTypeOK
<1>2. other.checkIn < other.checkOut
  BY DEF RowsWellMade, WellMade
<1>3. ~Overlaps(other, old.checkIn, old.checkOut)
  BY DEF NoDoubleBooking, Lengthens, Active
<1>4. ~Overlaps(other, old.checkOut, row.checkOut)
  BY DEF Lengthens, DateConflicts
<1>5. row.checkIn = old.checkIn
  BY DEF Lengthens
<1> HIDE DEF old, other
<1>6. ~(other.checkIn < row.checkOut /\ other.checkOut > row.checkIn)
  BY <1>1, <1>2, <1>3, <1>4, <1>5 DEF Overlaps
<1> QED BY <1>6 DEF Overlaps, other

LEMMA RoomsStayApart ==
    ASSUME ApartInv, RowsWellMade, NEW r, RoomSave(r)
    PROVE  NoDoubleBooking'
<1>0. TypeOK /\ NoDoubleBooking
  BY DEF ApartInv
<1>1. CASE RoomSet(r)
  BY <1>0, <1>1 DEF RoomSet, NoDoubleBooking, Overlaps
<1>2. ASSUME NEW p \in Proc, NEW o \in Order, CreateOrderInsert(p, o) PROVE NoDoubleBooking'
  <2>1. /\ copy[p] \in OrderRow /\ Save(o, copy[p])
        /\ DateConflicts(copy[p].room, copy[p].checkIn, copy[p].checkOut, {}) = {}
    BY <1>0, <1>2 DEF CreateOrderInsert, ApartInv, CopyHolds, CreatorHoldsFreeNights, TypeOK,
                      RequestTypeOK
  <2> QED BY <1>0, <2>1, StaysApart DEF DateConflicts
<1>3. ASSUME NEW id, NEW row, RowSaved(id, row) PROVE NoDoubleBooking'
  <2>0. id \in DOMAIN orders /\ id \in Order /\ row \in OrderRow /\ Save(id, row)
    BY <1>0, <1>3 DEF RowSaved, TypeOK, DBTypeOK
  <2>1. CASE Lengthens(id, row)
    BY <1>0, <2>0, <2>1, LongerApart, StaysApart
  <2>2. CASE ~Lengthens(id, row)
    <3>1. TakesNoNight(id, row)
      BY <1>3, <2>2 DEF RowSaved, RowMoves, StatusMoves, TakesNoNight, Active
    <3> QED BY <1>0, <2>0, <3>1, NoNightTaken
  <2> QED BY <2>1, <2>2
<1> QED BY <1>1, <1>2, <1>3 DEF RoomSave, GuestSave, Inserted

LEMMA RoomsKeepGuests ==
    ASSUME ApartInv, NEW r, RoomSave(r)
    PROVE  OccupiedHasGuest'
<1>0. OccupiedHasGuest /\ TypeOK
  BY DEF ApartInv
<1>1. CASE RoomSet(r)
  BY <1>0, <1>1 DEF RoomSet, OccupiedHasGuest, HasGuest
<1>2. CASE Inserted(r)
  <2>1. PICK p \in Proc, o \in Order : CreateOrderInsert(p, o)
    BY <1>2 DEF Inserted
  <2>2. copy[p] \in OrderRow /\ Save(o, copy[p]) /\ o \notin DOMAIN orders
    BY <1>0, <2>1 DEF CreateOrderInsert, TypeOK, RequestTypeOK
  <2>3. DOMAIN orders \subseteq DOMAIN orders' /\ \A x \in DOMAIN orders : orders'[x] = orders[x]
    BY <1>0, <2>2, SaveFits
  <2> QED BY <1>0, <1>2, <2>3 DEF OccupiedHasGuest, Inserted
<1>3. ASSUME NEW id, NEW row, RowSaved(id, row), NEW x \in Room, rooms'[x] = "occupied"
      PROVE  \E o \in DOMAIN orders' : orders'[o].room = x /\ orders'[o].status = "checked_in"
  <2>0. /\ id \in DOMAIN orders /\ id \in Order /\ row \in OrderRow /\ Save(id, row)
        /\ RowMoves(id, row) /\ RoomsFollow(row)
    BY <1>0, <1>3 DEF RowSaved, TypeOK, DBTypeOK
  <2>1. /\ DOMAIN orders' = DOMAIN orders \cup {id} /\ orders'[id] = row
        /\ \A y \in DOMAIN orders \ {id} : orders'[y] = orders[y]
    BY <1>0, <2>0, SaveFits
  <2>2. CASE x = row.room /\ row.status = "checked_in"
    BY <2>1, <2>2
  <2>3. CASE rooms[x] = "occupied"
    <3>1. PICK o \in DOMAIN orders : orders[o].room = x /\ orders[o].status = "checked_in"
      BY <1>0, <2>3 DEF OccupiedHasGuest
    <3>2. CASE o # id
      BY <2>1, <3>1, <3>2
    <3>3. CASE o = id
      <4>1. row.room = x
        BY <2>0, <3>1, <3>3 DEF RowMoves, StayOf, Lengthens
      <4>2. row.status # "checked_out"
        BY <1>3, <2>0, <4>1 DEF RoomsFollow
      <4>3. row.status = "checked_in"
        BY <2>0, <3>1, <3>3, <4>2 DEF RowMoves, StatusMoves, Lengthens
      <4> QED BY <2>1, <4>1, <4>3
    <3> QED BY <3>2, <3>3
  <2> QED BY <1>3, <2>0, <2>2, <2>3 DEF RoomsFollow
<1> QED BY <1>1, <1>2, <1>3 DEF RoomSave, GuestSave, OccupiedHasGuest

-----------------------------------------------------------------------------
(* The theorems. *)

LEMMA ApartIsTraffic == StaffApartSpec => Spec
<1>1. [Next /\ StaffApart']_vars => [Next]_vars
  OBVIOUS
<1> QED BY <1>1, PTL DEF StaffApartSpec, Spec

LEMMA ApartInvariant == StaffApartSpec => []ApartInv
<1>1. Init => ApartInv
  <2> SUFFICES ASSUME Init PROVE ApartInv
    OBVIOUS
  <2>1. TypeOK
    BY DEF Init, DBInit, TypeOK, DBTypeOK, RequestTypeOK, Step, RoomStatus
  <2>2. \A p \in Proc : CopyHolds(p)
    BY DEF Init, DBInit, CopyHolds, CreatorHoldsFreeNights, PayerHoldsItsOrder, StaffSteps
  <2> QED BY <2>1, <2>2 DEF Init, DBInit, ApartInv, NoDoubleBooking, OccupiedHasGuest, StaffApart,
                            StaffSteps, BatchHolds
<1>2. ApartInv /\ RowsWellMade /\ TypeOK' /\ [Next /\ StaffApart']_vars => ApartInv'
  <2> SUFFICES ASSUME ApartInv, RowsWellMade, TypeOK', [Next /\ StaffApart']_vars
               PROVE  ApartInv'
    OBVIOUS
  <2>1. CASE UNCHANGED vars
    <3>1. NoDoubleBooking' /\ OccupiedHasGuest' /\ BatchHolds' /\ StaffApart'
      BY <2>1 DEF vars, ApartInv, NoDoubleBooking, Overlaps, OccupiedHasGuest, BatchHolds,
                  EarlyCopy, StaffApart, Busy, RoomOf
    <3>2. ASSUME NEW q \in Proc PROVE CopyHolds(q)'
      BY <2>1, ReadsDisturbNobody DEF vars, tables, ApartInv
    <3> QED BY <3>1, <3>2 DEF ApartInv
  <2>2. CASE Next /\ StaffApart'
    <3>1. PICK r : RoomSave(r)
      BY <2>2, StepSaves
    <3>2. NoDoubleBooking' /\ OccupiedHasGuest'
      BY <3>1, RoomsStayApart, RoomsKeepGuests
    <3> QED BY <2>2, <3>2, RequestsHold, BatchStays DEF ApartInv
  <2> QED BY <2>1, <2>2
<1>3. StaffApartSpec => [](TypeOK /\ RowsWellMade)
  BY ApartIsTraffic, TypeCorrect, RowsInvariant, PTL
<1> QED BY <1>1, <1>2, <1>3, PTL DEF StaffApartSpec

(***************************************************************************)
(* With staff apart no room is booked twice for a night: check-in,         *)
(* check-out and extension break that by late saves alone (late_check_in), *)
(* and guests cannot break it, however their requests interleave.          *)
(***************************************************************************)
THEOREM ApartNeverDoubleBook == StaffApartSpec => []NoDoubleBooking
<1>1. ApartInv => NoDoubleBooking
  BY DEF ApartInv
<1> QED BY <1>1, ApartInvariant, PTL

(***************************************************************************)
(* With staff apart a room is occupied only while one of its guests is in, *)
(* whatever staff sets it to and whoever cancels another order of it.      *)
(***************************************************************************)
THEOREM ApartHasGuests == StaffApartSpec => []OccupiedHasGuest
<1>1. ApartInv => OccupiedHasGuest
  BY DEF ApartInv
<1> QED BY <1>1, ApartInvariant, PTL

(***************************************************************************)
(* With staff apart a status only moves forward, however late a            *)
(* cancellation or the sweep saves the row it has read.                    *)
(***************************************************************************)
THEOREM ApartMovesForward == StaffApartSpec => LegalStatusMoves
<1>1. ApartInv /\ [Next]_vars =>
        [\A o \in DOMAIN orders :
           orders'[o].status # orders[o].status
             => <<orders[o].status, orders'[o].status>> \in StatusMoves]_vars
  <2> SUFFICES ASSUME ApartInv, Next, NEW o \in DOMAIN orders,
                      orders'[o].status # orders[o].status
               PROVE  <<orders[o].status, orders'[o].status>> \in StatusMoves
    OBVIOUS
  <2>0. TypeOK
    BY DEF ApartInv
  <2>1. ASSUME NEW p \in Proc, NEW x \in Order, CreateOrderInsert(p, x) PROVE FALSE
    <3>1. copy[p] \in OrderRow /\ Save(x, copy[p]) /\ x \notin DOMAIN orders
      BY <2>0, <2>1 DEF CreateOrderInsert, TypeOK, RequestTypeOK
    <3> QED BY <2>0, <3>1, SaveFits
  <2>2. ASSUME NEW id, NEW row, RowSaved(id, row)
        PROVE  <<orders[o].status, orders'[o].status>> \in StatusMoves
    <3>1. id \in Order /\ row \in OrderRow /\ Save(id, row) /\ RowMoves(id, row)
      BY <2>0, <2>2 DEF RowSaved, TypeOK, DBTypeOK
    <3>2. o = id /\ orders'[id] = row
      BY <2>0, <3>1, SaveFits
    <3> QED BY <3>1, <3>2 DEF RowMoves, Lengthens
  <2>3. ~UNCHANGED orders
    OBVIOUS
  <2> QED BY <2>1, <2>2, <2>3, StepSaves DEF RoomSave, GuestSave, RoomSet, Inserted
<1> QED BY <1>1, ApartInvariant, ApartIsTraffic, PTL DEF Spec, LegalStatusMoves

LEMMA LongerIsProlong ==
    ASSUME TypeOK, RowsWellMade, NoDoubleBooking, NEW id \in DOMAIN orders,
           NEW row \in OrderRow, Save(id, row), Lengthens(id, row)
    PROVE  row.checkOut \in 0 .. MaxDay /\ Ledger!Prolong(id, row.checkOut)
<1> DEFINE longer == [Stays[id] EXCEPT !.checkOut = row.checkOut]
<1>0. id \in Order /\ orders[id] \in OrderRow
  BY DEF TypeOK, DBTypeOK
<1>1. /\ DOMAIN orders' = DOMAIN orders /\ orders'[id] = row
      /\ \A x \in DOMAIN orders \ {id} : orders'[x] = orders[x]
  BY <1>0, SaveFits
<1>2. /\ id \in Holds /\ row.status \in Active /\ row.checkOut \in 0 .. MaxDay
      /\ Holds \subseteq DOMAIN orders
  BY DEF Lengthens, Holds, Active, OrderRow, Day
<1>3. /\ longer = StayOf(row) /\ longer.room = row.room
      /\ longer.checkIn = row.checkIn /\ longer.checkOut = row.checkOut
  BY <1>2 DEF Stays, StayOf, Lengthens
<1>4. ASSUME NEW x \in Holds \ {id} PROVE Ledger!Disjoint(longer, Stays[x])
  <2>1. /\ Stays[x].room = orders[x].room
        /\ Stays[x].checkIn = orders[x].checkIn /\ Stays[x].checkOut = orders[x].checkOut
    BY DEF Stays, StayOf
  <2>2. orders[x].room = row.room =>
          ~(orders[x].checkIn < row.checkOut /\ orders[x].checkOut > row.checkIn)
    BY LongerApart DEF Holds, Overlaps
  <2>3. /\ orders[x].checkIn \in Int /\ orders[x].checkOut \in Int
        /\ row.checkIn \in Int /\ row.checkOut \in Int
    BY RowFits DEF Holds, TypeOK, DBTypeOK
  <2> HIDE DEF longer
  <2> QED BY <1>3, <2>1, <2>2, <2>3 DEF Ledger!Disjoint
<1>5. Holds' = Holds /\ Past' = Past
  BY <1>1, <1>2 DEF Holds, Past
<1>6. Stays' = [Stays EXCEPT ![id] = longer]
  <2>1. \A x \in Holds : StayOf(orders'[x]) = IF x = id THEN longer ELSE Stays[x]
    BY <1>1, <1>2, <1>3 DEF Stays
  <2> HIDE DEF longer
  <2> QED BY <1>5, <2>1 DEF Stays, StayOf
<1>7. row.checkOut > Stays[id].checkOut
  BY <1>2 DEF Stays, StayOf, Lengthens
<1>8. DOMAIN Stays = Holds
  BY DEF Stays
<1>9. Ledger!FreeFor(longer, DOMAIN Stays \ {id})
  BY <1>4, <1>8 DEF Ledger!FreeFor, Stays
<1> QED BY <1>2, <1>5, <1>6, <1>7, <1>8, <1>9 DEF Ledger!Prolong, Stays, Past

(***************************************************************************)
(* With staff apart every handler keeps to the ledger of stays: a commit   *)
(* enters a stay in free nights, prolongs one into free nights, strikes one*)
(* out for good, or changes nothing a guest can see of the rooms.          *)
(***************************************************************************)
THEOREM ApartKeepsLedger == StaffApartSpec => LedgerSpec
<1>1. Init => Ledger!Init
  BY DEF Init, DBInit, Ledger!Init, Holds
<1>2. ApartInv /\ RowsWellMade /\ [Next]_vars => [Ledger!Next]_<<Stays, Past>>
  <2> SUFFICES ASSUME ApartInv, RowsWellMade, [Next]_vars
               PROVE  Ledger!Next \/ UNCHANGED <<Stays, Past>>
    OBVIOUS
  <2>0. TypeOK /\ NoDoubleBooking
    BY DEF ApartInv
  <2>1. UNCHANGED orders => UNCHANGED <<Stays, Past>>
    BY DEF Stays, Past, Holds, StayOf
  <2>2. ASSUME NEW p \in Proc, NEW o \in Order, CreateOrderInsert(p, o) PROVE Ledger!Next
    BY <2>0, <2>2, InsertIsEnter
       DEF Ledger!Next, ApartInv, CopyHolds, CreatorHoldsFreeNights, CreateOrderInsert
  <2>3. ASSUME NEW id, NEW row, RowSaved(id, row)
        PROVE  Ledger!Next \/ UNCHANGED <<Stays, Past>>
    <3>1. /\ id \in DOMAIN orders /\ id \in Order /\ row \in OrderRow /\ Save(id, row)
          /\ RowMoves(id, row)
      BY <2>0, <2>3 DEF RowSaved, TypeOK, DBTypeOK
    <3>2. CASE Lengthens(id, row)
      BY <2>0, <3>1, <3>2, LongerIsProlong DEF Ledger!Next
    <3>3. CASE ~Lengthens(id, row)
      <4>1. \/ row.status \notin Active
            \/ /\ orders[id].status \in Active /\ row.status \in Active
               /\ StayOf(row) = StayOf(orders[id])
        BY <3>1, <3>3 DEF RowMoves, StatusMoves, Active
      <4> QED BY <2>0, <3>1, <4>1, SaveIsStrikeOrNothing DEF Ledger!Next
    <3> QED BY <3>2, <3>3
  <2>4. CASE Next
    BY <2>1, <2>2, <2>3, <2>4, StepSaves DEF RoomSave, GuestSave, RoomSet, Inserted
  <2>5. CASE UNCHANGED vars
    BY <2>1, <2>5 DEF vars
  <2> QED BY <2>4, <2>5
<1>3. Ledger!Init /\ [][Ledger!Next]_<<Stays, Past>> => LedgerSpec
  BY DEF LedgerSpec, Ledger!Spec, Stays, Past
<1>4. StaffApartSpec => []RowsWellMade
  BY ApartIsTraffic, RowsInvariant, PTL
<1> QED BY <1>1, <1>2, <1>3, <1>4, ApartInvariant, ApartIsTraffic, PTL DEF Spec

\* Guests whose stay begins on the same day are in different rooms.
LEMMA GuestsFitRooms ==
    ASSUME IsFiniteSet(Room), TypeOK, RowsWellMade, NoDoubleBooking
    PROVE  OccupancyWithinRooms
<1> DEFINE G == {o \in DOMAIN orders : orders[o].status = "checked_in"
                                         /\ orders[o].checkIn = Today}
           f == [o \in G |-> orders[o].room]
<1>1. f \in [G -> Room]
  BY RowFits DEF TypeOK, DBTypeOK
<1>2. ASSUME NEW a \in G, NEW b \in G, f[a] = f[b] PROVE a = b
  <2>1. /\ orders[a].checkIn \in Int /\ orders[a].checkOut \in Int
        /\ orders[b].checkIn \in Int /\ orders[b].checkOut \in Int
    BY RowFits DEF TypeOK, DBTypeOK
  <2>2. orders[a].checkIn < orders[a].checkOut /\ orders[b].checkIn < orders[b].checkOut
    BY DEF RowsWellMade, WellMade
  <2>3. Overlaps(orders[a], orders[b].checkIn, orders[b].checkOut)
    BY <2>1, <2>2 DEF Overlaps
  <2> QED BY <1>2, <2>3 DEF NoDoubleBooking, Active
<1> HIDE DEF f
<1>3. f \in Injection(G, Room)
  BY <1>1, <1>2, Fun_IsInj
<1>4. Cardinality(G) <= Cardinality(Room)
  BY <1>3, FS_Injection
<1> QED BY <1>4 DEF OccupancyWithinRooms, TodayCheckIns, CountByStatus, TotalRooms

(***************************************************************************)
(* With staff apart the dashboard's count of today's guests never exceeds  *)
(* its count of rooms.                                                     *)
(***************************************************************************)
THEOREM ApartFitsRooms ==
    ASSUME IsFiniteSet(Room)
    PROVE  StaffApartSpec => []OccupancyWithinRooms
<1>1. ApartInv /\ RowsWellMade => OccupancyWithinRooms
  BY GuestsFitRooms DEF ApartInv
<1>2. StaffApartSpec => []RowsWellMade
  BY ApartIsTraffic, RowsInvariant, PTL
<1> QED BY <1>1, <1>2, ApartInvariant, PTL

-----------------------------------------------------------------------------
(* Where staff is apart by itself: among guests. *)

LEMMA GuestsAreApart ==
    ASSUME Handlers \subseteq GuestHandlers
    PROVE  Spec => StaffApartSpec
<1>1. GuestInv' /\ [Next]_vars => [Next /\ StaffApart']_vars
  BY DEF GuestInv, GuestSteps, StaffApart, StaffSteps
<1> QED BY <1>1, GuestInvariant, PTL DEF Spec, StaffApartSpec

(***************************************************************************)
(* In the traffic of guests a status only moves forward, however late a    *)
(* cancellation or the sweep saves the row it has read.                    *)
(***************************************************************************)
THEOREM GuestsMoveForward ==
    ASSUME Handlers \subseteq GuestHandlers
    PROVE  Spec => LegalStatusMoves
BY GuestsAreApart, ApartMovesForward, PTL

(***************************************************************************)
(* In the traffic of guests the server implements the ledger of stays: each*)
(* commit enters a stay in free nights, strikes one out for good, or       *)
(* changes nothing a guest can see of the rooms.                           *)
(***************************************************************************)
THEOREM GuestsKeepLedger ==
    ASSUME Handlers \subseteq GuestHandlers
    PROVE  Spec => LedgerSpec
BY GuestsAreApart, ApartKeepsLedger, PTL
=============================================================================
