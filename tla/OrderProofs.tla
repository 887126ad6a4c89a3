------------------------------ MODULE OrderProofs ------------------------------
(***************************************************************************)
(* Proofs about what an order is: its nights, its bill and its number, for *)
(* every set of rooms, orders and requests and with every handler in the   *)
(* traffic.  From them follow that the calendar and the rooms offered      *)
(* agree, and what a commit on an order is in RoomLedger.                  *)
(***************************************************************************)
EXTENDS HotelBookingProofs, RoomCalendar

-----------------------------------------------------------------------------
(* Nights. *)

\* An order has a night at least.
WellMade(row) == row.checkIn < row.checkOut

\* The steps at which a request holds an order's row.
OrderSteps == Step \ {"idle", "updating_room"}

\* So it is in the table, in the rows requests hold, and in the sweep's.
RowsWellMade ==
    /\ \A o \in DOMAIN orders : WellMade(orders[o])
    /\ \A p \in Proc : at[p] \in OrderSteps => WellMade(copy[p])
    /\ \A o \in DOMAIN batch : WellMade(batch[o])

\* The rows a step writes are well made, or are the ones that were there.
LEMMA RowsStayWellMade ==
    ASSUME RowsWellMade,
           \A o \in DOMAIN orders' :
             (o \in DOMAIN orders /\ orders'[o] = orders[o]) \/ WellMade(orders'[o]),
           \A q \in Proc :
             \/ at'[q] \notin OrderSteps
             \/ at'[q] = at[q] /\ copy'[q] = copy[q]
             \/ WellMade(copy'[q]),
           \A o \in DOMAIN batch' :
             (o \in DOMAIN batch /\ batch'[o] = batch[o]) \/ WellMade(batch'[o])
    PROVE  RowsWellMade'
BY DEF RowsWellMade, WellMade, OrderSteps

\* The changes the code makes to a row leave its nights, or add some.
LEMMA ChangesWellMade ==
    ASSUME NEW row \in OrderRow, WellMade(row)
    PROVE  /\ \A s : WellMade([row EXCEPT !.status = s])
           /\ \A s, r : WellMade([row EXCEPT !.status = s, !.cancelReason = r])
           /\ \A n \in Nat : \A price : WellMade(Extended(row, n, price))
<1>1. row.checkIn \in Int /\ row.checkOut \in Int
  BY RowFits
<1>2. \A s : /\ [row EXCEPT !.status = s].checkIn = row.checkIn
             /\ [row EXCEPT !.status = s].checkOut = row.checkOut
  BY DEF OrderRow
<1>3. \A s, r : LET new == [row EXCEPT !.status = s, !.cancelReason = r] IN
        new.checkIn = row.checkIn /\ new.checkOut = row.checkOut
  BY DEF OrderRow
<1>4. ASSUME NEW n \in Nat, NEW price PROVE WellMade(Extended(row, n, price))
  <2>1. /\ Extended(row, n, price).checkIn = row.checkIn
        /\ Extended(row, n, price).checkOut = row.checkOut + n
    BY DEF OrderRow, Extended
  <2> QED BY <1>1, <2>1 DEF WellMade
<1> QED BY <1>2, <1>3, <1>4 DEF WellMade

\* A reading step: one request now holds a well made row.
LEMMA ReadKeepsRows ==
    ASSUME TypeOK, RowsWellMade, NEW p \in Proc, NEW step, NEW id, NEW row,
           Holding(p, step, id, row), step \notin OrderSteps \/ WellMade(row),
           UNCHANGED <<tables, batch>>
    PROVE  RowsWellMade'
<1>1. /\ at'[p] = step /\ copy'[p] = row
      /\ \A q \in Proc \ {p} : at'[q] = at[q] /\ copy'[q] = copy[q]
  BY DEF Holding, TypeOK, DBTypeOK
<1> QED BY <1>1, RowsStayWellMade DEF tables

\* A commit that saves a well made row.
LEMMA SaveKeepsRows ==
    ASSUME TypeOK, RowsWellMade, NEW p \in Proc, NEW id \in Order, NEW row \in OrderRow,
           Save(id, row), WellMade(row), Commit(p), UNCHANGED batch
    PROVE  RowsWellMade'
<1>1. /\ at'[p] = "idle"
      /\ \A q \in Proc \ {p} : at'[q] = at[q] /\ copy'[q] = copy[q]
  BY FinishedFits DEF Commit
<1>2. \A o \in DOMAIN orders' :
        (o \in DOMAIN orders /\ orders'[o] = orders[o]) \/ orders'[o] = row
  BY SaveFits
<1> QED BY <1>1, <1>2, RowsStayWellMade DEF OrderSteps

LEMMA RequestKeepsRows ==
    ASSUME TypeOK, RowsWellMade, NEW p \in Proc,
           \/ \E o \in Order : OrderRequest(p, o)
           \/ \E r \in Room : RoomRequest(p, r)
    PROVE  RowsWellMade'
<1>1. ASSUME NEW o \in Order, OrderRequest(p, o) PROVE RowsWellMade'
  <2>1. PICK step : /\ o \in DOMAIN orders
                    /\ Holding(p, step, o, orders[o])
                    /\ UNCHANGED <<tables, batch>>
    BY <1>1 DEF OrderRequest, CancelOrderRead, CheckInRead, CheckOutRead,
                ExtendStayRead, Read, CreatePaymentRead
  <2>2. WellMade(orders[o])
    BY <2>1 DEF RowsWellMade, WellMade
  <2> QED BY <2>1, <2>2, ReadKeepsRows
<1>2. ASSUME NEW r \in Room, NEW from \in Day, NEW to \in Day, CreateOrderRead(p, r, from, to)
      PROVE  RowsWellMade'
  <2>1. PICK row : /\ Holding(p, "creating", None, row)
                   /\ row.checkIn = from /\ row.checkOut = to
    BY <1>2 DEF CreateOrderRead
  <2>2. WellMade(row) /\ UNCHANGED <<tables, batch>>
    BY <1>2, <2>1 DEF CreateOrderRead, WellMade
  <2> QED BY <2>1, <2>2, ReadKeepsRows
<1>3. ASSUME NEW r \in Room, NEW status \in RoomStatus, UpdateRoomRead(p, r, status)
      PROVE  RowsWellMade'
  BY <1>3, ReadKeepsRows DEF UpdateRoomRead, OrderSteps
<1> QED BY <1>1, <1>2, <1>3 DEF RoomRequest

LEMMA ContinueKeepsRows ==
    ASSUME TypeOK, RowsWellMade, NEW p \in Proc, Continue(p)
    PROVE  RowsWellMade'
<1> DEFINE id == target[p]
           row == copy[p]
<1>1. ASSUME at[p] \in Step \ {"idle", "creating", "updating_room"}
      PROVE  id \in Order /\ row \in OrderRow /\ WellMade(row)
  BY <1>1, HeldOrder DEF RowsWellMade, WellMade, OrderSteps
<1>2. ASSUME NEW o \in Order, CreateOrderInsert(p, o) PROVE RowsWellMade'
  <2>1. row \in OrderRow /\ WellMade(row)
    BY <1>2 DEF CreateOrderInsert, TypeOK, RequestTypeOK, RowsWellMade, WellMade,
                OrderSteps, Step
  <2> QED BY <1>2, <2>1, SaveKeepsRows DEF CreateOrderInsert
<1>3. CASE CancelOrderSave(p)
  <2> DEFINE new == [row EXCEPT !.status = "cancelled", !.cancelReason = "guest"]
  <2>1. id \in Order /\ row \in OrderRow /\ WellMade(row)
    BY <1>1, <1>3 DEF CancelOrderSave, Step
  <2>2. new \in OrderRow /\ WellMade(new)
    BY <2>1, RowFits, ChangesWellMade
  <2>3. Save(id, new) /\ Commit(p) /\ UNCHANGED batch
    BY <1>3 DEF CancelOrderSave
  <2> HIDE DEF new
  <2> QED BY <2>1, <2>2, <2>3, SaveKeepsRows
<1>4. ASSUME NEW status \in OrderStatus, NEW roomStatus,
             at[p] \in {"checking_in", "checking_out"}, SaveWithRoom(p, status, roomStatus)
      PROVE  RowsWellMade'
  <2> DEFINE new == [row EXCEPT !.status = status]
  <2>1. id \in Order /\ row \in OrderRow /\ WellMade(row)
    BY <1>1, <1>4 DEF Step
  <2>2. new \in OrderRow /\ WellMade(new)
    BY <2>1, RowFits, ChangesWellMade
  <2>3. Save(id, new) /\ Commit(p) /\ UNCHANGED batch
    BY <1>4 DEF SaveWithRoom
  <2> HIDE DEF new
  <2> QED BY <2>1, <2>2, <2>3, SaveKeepsRows
<1>5. CheckInSave(p) \/ CheckOutSave(p) => RowsWellMade'
  BY <1>4 DEF CheckInSave, CheckOutSave, OrderStatus
<1>6. ASSUME NEW n \in 1 .. MaxDay, ExtendStayCheck(p, n) PROVE RowsWellMade'
  <2>1. row \in OrderRow /\ WellMade(row)
    BY <1>1, <1>6 DEF ExtendStayCheck, Step
  <2>2. n \in Nat
    BY BoundsAssumption
  <2> HIDE DEF row
  <2>3. \A price : WellMade(Extended(row, n, price))
    BY <2>1, <2>2, ChangesWellMade
  <2> QED BY <1>6, <2>3, ReadKeepsRows DEF ExtendStayCheck, row
<1>7. CASE ExtendStaySave(p)
  <2>1. id \in Order /\ row \in OrderRow /\ WellMade(row)
    BY <1>1, <1>7 DEF ExtendStaySave, Step
  <2> QED BY <1>7, <2>1, SaveKeepsRows DEF ExtendStaySave
<1>8. CASE CreatePaymentSave(p)
  <2> DEFINE new == [row EXCEPT !.status = "paid"]
  <2>1. id \in Order /\ row \in OrderRow /\ WellMade(row)
    BY <1>1, <1>8 DEF CreatePaymentSave, Step
  <2>2. new \in OrderRow /\ WellMade(new)
    BY <2>1, RowFits, ChangesWellMade DEF OrderStatus
  <2>3. Save(id, new) /\ Commit(p) /\ UNCHANGED batch
    BY <1>8 DEF CreatePaymentSave
  <2> HIDE DEF new
  <2> QED BY <2>1, <2>2, <2>3, SaveKeepsRows
<1>9. ASSUME Finished(p), UNCHANGED <<orders, batch>> PROVE RowsWellMade'
  BY <1>9, FinishedFits, RowsStayWellMade DEF OrderSteps
<1>10. UpdateRoomSave(p) \/ Rollback(p) => RowsWellMade'
  BY <1>9 DEF UpdateRoomSave, Rollback, Commit, tables
<1> QED BY <1>2, <1>3, <1>5, <1>6, <1>7, <1>8, <1>10 DEF Continue

LEMMA CronKeepsRows ==
    ASSUME TypeOK, RowsWellMade, Sweep \/ \E o \in Order : Age(o)
    PROVE  RowsWellMade'
<1>1. ASSUME NEW o \in Order, SweepSave(o) PROVE RowsWellMade'
  <2> DEFINE new == [batch[o] EXCEPT !.status = "cancelled", !.cancelReason = "timeout"]
  <2>1. batch[o] \in OrderRow /\ new \in OrderRow /\ Save(o, new) /\ WellMade(batch[o])
    BY <1>1, SweepSaveFits DEF RowsWellMade, WellMade, SweepSave
  <2>2. WellMade(new)
    BY <2>1, ChangesWellMade
  <2>3. new \in OrderRow /\ Save(o, new)
    BY <2>1
  <2> HIDE DEF new
  <2>4. \A x \in DOMAIN orders' :
          (x \in DOMAIN orders /\ orders'[x] = orders[x]) \/ orders'[x] = new
    BY <2>3, SaveFits
  <2> QED BY <1>1, <2>2, <2>4, RowsStayWellMade DEF SweepSave, Without, requests
<1>2. SweepRead => RowsWellMade'
  BY RowsStayWellMade
     DEF SweepRead, FindExpiredPending, tables, requests, RowsWellMade, WellMade
<1>3. \A o \in Order : SweepFail(o) \/ Age(o) => RowsWellMade'
  BY RowsStayWellMade DEF SweepFail, Age, Without, tables, requests
<1> QED BY <1>1, <1>2, <1>3 DEF Sweep

LEMMA RowsInvariant == Spec => []RowsWellMade
<1>1. Init => RowsWellMade
  BY DEF Init, DBInit, RowsWellMade, OrderSteps
<1>2. TypeOK /\ RowsWellMade /\ [Next]_vars => RowsWellMade'
  <2> SUFFICES ASSUME TypeOK, RowsWellMade, [Next]_vars PROVE RowsWellMade'
    OBVIOUS
  <2>1. CASE UNCHANGED vars
    BY <2>1 DEF vars, RowsWellMade, WellMade
  <2>2. CASE Next
    BY <2>2, RequestKeepsRows, ContinueKeepsRows, CronKeepsRows DEF Next
  <2> QED BY <2>1, <2>2
<1> QED BY <1>1, <1>2, TypeCorrect, PTL DEF Spec

-----------------------------------------------------------------------------
(* The calendar. *)

\* An overlap with a stay that has nights is a common night, and back.
LEMMA OverlapIsCommonNight ==
    ASSUME NEW row \in OrderRow, WellMade(row), NEW from \in Int, NEW to \in Int, from < to
    PROVE  Overlaps(row, from, to) <=>
             \E d \in from .. to - 1 : row.checkIn <= d /\ row.checkOut > d
<1>1. row.checkIn \in Int /\ row.checkOut \in Int /\ from \in Int /\ to \in Int
  BY RowFits
<1>2. ASSUME Overlaps(row, from, to)
      PROVE  \E d \in from .. to - 1 : row.checkIn <= d /\ row.checkOut > d
  <2>1. CASE row.checkIn <= from
    <3>1. from \in from .. to - 1 /\ row.checkIn <= from /\ row.checkOut > from
      BY <1>1, <1>2, <2>1 DEF Overlaps
    <3> QED BY <3>1
  <2>2. CASE row.checkIn > from
    <3>1. row.checkIn \in from .. to - 1 /\ row.checkIn <= row.checkIn
      BY <1>1, <1>2, <2>2 DEF Overlaps
    <3>2. row.checkOut > row.checkIn
      BY <1>1 DEF WellMade
    <3> QED BY <3>1, <3>2
  <2> QED BY <1>1, <2>1, <2>2
<1>3. ASSUME NEW d \in from .. to - 1, row.checkIn <= d, row.checkOut > d
      PROVE  Overlaps(row, from, to)
  BY <1>1, <1>3 DEF Overlaps
<1> QED BY <1>2, <1>3

LEMMA OffersMatch == TypeOK /\ RowsWellMade => CalendarMatchesOffers
<1> SUFFICES ASSUME TypeOK, RowsWellMade,
                    NEW r \in Room, NEW from \in Day, NEW to \in Day, from < to
             PROVE  IF r \in FindAvailableByHotel(from, to)
                      THEN \A d \in from .. to - 1 : ShownFree(r, d)
                      ELSE rooms[r] = "available" =>
                             \E d \in from .. AskedEnd(to) - 1 : ShownTaken(r, d)
  BY DEF CalendarMatchesOffers
<1> DEFINE end == AskedEnd(to)
<1>0. from \in Int /\ to \in Int /\ end \in Int /\ from < end /\ to <= end
  BY ZoneAssumption, BoundsAssumption DEF AskedEnd, Day
<1> DEFINE Taken(d) == \E o \in DOMAIN orders : /\ orders[o].room = r
                                                /\ orders[o].status \in Active
                                                /\ orders[o].checkIn <= d
                                                /\ orders[o].checkOut > d
<1>1. \A o \in DOMAIN orders :
        /\ orders[o] \in OrderRow /\ WellMade(orders[o])
        /\ orders[o].checkIn \in Int /\ orders[o].checkOut \in Int
  BY RowFits DEF TypeOK, DBTypeOK, RowsWellMade, WellMade
<1>2. r \in FindAvailableByHotel(from, to) <=>
        rooms[r] = "available" /\ \A d \in from .. end - 1 : ~Taken(d)
  <2> HIDE DEF end
  <2>1. \A o \in DOMAIN orders : Overlaps(orders[o], from, end) <=>
          \E d \in from .. end - 1 : orders[o].checkIn <= d /\ orders[o].checkOut > d
    BY <1>0, <1>1, OverlapIsCommonNight
  <2> QED BY <2>1 DEF FindAvailableByHotel, end
<1>3. ASSUME rooms[r] = "available", NEW d \in from .. end - 1
      PROVE  (~Taken(d) => ShownFree(r, d)) /\ (Taken(d) => ShownTaken(r, d))
  <2>1. SUFFICES ASSUME NEW m \in MonthsOf(d)
                 PROVE  /\ ~Taken(d) => Shown(r, d, m[1], m[2]) = {"available"}
                        /\ Taken(d) => "available" \notin Shown(r, d, m[1], m[2])
    BY DEF ShownFree, ShownTaken
  <2>2. d \in Int
    BY <1>0
  <2>6. m[1] \in Int /\ m[2] \in Int /\ m[1] <= d /\ d <= m[2]
    BY BoundsAssumption DEF MonthsOf, Day
  <2>3. Covering(r, d, m[1], m[2]) = {} <=> ~Taken(d)
    BY <1>1, <2>2, <2>6 DEF Covering, FindByMonth
  <2>4. Covering(r, d, m[1], m[2]) = {} => Shown(r, d, m[1], m[2]) = {"available"}
    BY <1>3 DEF Shown
  <2>5. Covering(r, d, m[1], m[2]) # {} => "available" \notin Shown(r, d, m[1], m[2])
    BY <1>3 DEF Shown
  <2> QED BY <2>3, <2>4, <2>5
<1> HIDE DEF Taken, end
<1>4. \A d \in from .. to - 1 : d \in from .. end - 1
  BY <1>0
<1> QED BY <1>2, <1>3, <1>4 DEF end

(***************************************************************************)
(* GetCalendar and FindAvailableByHotel agree in every state the server can*)
(* reach, with every handler: no stay is offered over a night the calendar *)
(* shows as taken, and none is held back without a night shown taken; on   *)
(* MySQL in a zone ahead of UTC that may be the night after the stay.      *)
(***************************************************************************)
THEOREM CalendarCorrect == Spec => []CalendarMatchesOffers
BY TypeCorrect, RowsInvariant, OffersMatch, PTL

-----------------------------------------------------------------------------
(* Numbers. *)

\* The number of an order is the one every copy of it has, and the numbers
\* below a creator's are taken.
CopiesKeepNumbers ==
    /\ \A p \in Proc : at[p] \in OrderSteps \ {"creating"} =>
         copy[p].orderNo = orders[target[p]].orderNo
    /\ \A o \in DOMAIN batch : o \in DOMAIN orders /\ batch[o].orderNo = orders[o].orderNo

CreatorsCount ==
    \A p \in Proc : at[p] = "creating" =>
        \A k \in 1 .. copy[p].orderNo : k \in UsedNo \/ k = copy[p].orderNo

NumbersInv == NumbersDense /\ CopiesKeepNumbers /\ CreatorsCount

\* A step that changes no number of an order and adds none.
NumbersStand ==
    /\ DOMAIN orders' = DOMAIN orders
    /\ \A o \in DOMAIN orders : orders'[o].orderNo = orders[o].orderNo

\* What NumbersInv says of one request.
RequestNumbered(p) ==
    /\ at[p] \in OrderSteps \ {"creating"} => copy[p].orderNo = orders[target[p]].orderNo
    /\ at[p] = "creating" =>
         \A k \in 1 .. copy[p].orderNo : k \in UsedNo \/ k = copy[p].orderNo

LEMMA StandingNumbers ==
    ASSUME TypeOK, NumbersInv, NumbersStand, NEW p \in Proc,
           \A q \in Proc \ {p} :
             at'[q] = at[q] /\ target'[q] = target[q] /\ copy'[q] = copy[q],
           at'[p] \in OrderSteps => RequestNumbered(p)',
           \A o \in DOMAIN batch' :
             \/ o \in DOMAIN batch /\ batch'[o] = batch[o]
             \/ o \in DOMAIN orders /\ batch'[o].orderNo = orders[o].orderNo
    PROVE  NumbersInv'
<1>1. UsedNo' = UsedNo
  BY DEF NumbersStand, UsedNo
<1>2. NumbersDense'
  BY <1>1 DEF NumbersStand, NumbersInv, NumbersDense
<1>3. ASSUME NEW q \in Proc, at'[q] \in OrderSteps PROVE RequestNumbered(q)'
  <2>1. CASE q = p
    BY <1>3, <2>1
  <2>2. CASE q # p
    <3>1. RequestNumbered(q)
      BY DEF NumbersInv, CopiesKeepNumbers, CreatorsCount, RequestNumbered
    <3>2. at[q] \in OrderSteps \ {"creating"} => target[q] \in DOMAIN orders
      BY HeldOrder DEF OrderSteps
    <3>3. at'[q] = at[q] /\ target'[q] = target[q] /\ copy'[q] = copy[q]
      BY <2>2
    <3>4. at[q] \in OrderSteps \ {"creating"} =>
            copy[q].orderNo = orders'[target[q]].orderNo
      BY <3>1, <3>2 DEF RequestNumbered, NumbersStand
    <3>5. at[q] = "creating" =>
            \A k \in 1 .. copy[q].orderNo : k \in UsedNo' \/ k = copy[q].orderNo
      BY <1>1, <3>1 DEF RequestNumbered
    <3> QED BY <3>3, <3>4, <3>5 DEF RequestNumbered, OrderSteps, UsedNo
  <2> QED BY <2>1, <2>2
<1>4. CopiesKeepNumbers'
  <2>1. \A o \in DOMAIN batch' : o \in DOMAIN orders' /\ batch'[o].orderNo = orders'[o].orderNo
    BY DEF NumbersInv, CopiesKeepNumbers, NumbersStand
  <2> QED BY <1>3, <2>1 DEF CopiesKeepNumbers, RequestNumbered, OrderSteps
<1>5. CreatorsCount'
  BY <1>3 DEF CreatorsCount, RequestNumbered, OrderSteps, Step
<1> QED BY <1>2, <1>4, <1>5 DEF NumbersInv

\* A commit that saves an order with its own number.
LEMMA SaveKeepsNumbers ==
    ASSUME TypeOK, NumbersInv, NEW p \in Proc, NEW id \in DOMAIN orders,
           NEW row \in OrderRow, row.orderNo = orders[id].orderNo,
           Save(id, row), Commit(p), UNCHANGED batch
    PROVE  NumbersInv'
<1>1. id \in Order
  BY DEF TypeOK, DBTypeOK
<1>2. NumbersStand
  BY <1>1, SaveFits DEF NumbersStand
<1>3. /\ at'[p] = "idle"
      /\ \A q \in Proc \ {p} :
           at'[q] = at[q] /\ target'[q] = target[q] /\ copy'[q] = copy[q]
  BY FinishedFits DEF Commit
<1> QED BY <1>2, <1>3, StandingNumbers DEF OrderSteps

\* A reading step: one request now holds an order with its own number, or the
\* next one.
LEMMA ReadKeepsNumbers ==
    ASSUME TypeOK, NumbersInv, NEW p \in Proc, NEW step, NEW id, NEW row,
           Holding(p, step, id, row), UNCHANGED <<tables, batch>>,
           step \in OrderSteps \ {"creating"} => row.orderNo = orders[id].orderNo,
           step = "creating" => \A k \in 1 .. row.orderNo : k \in UsedNo \/ k = row.orderNo
    PROVE  NumbersInv'
<1>1. /\ at'[p] = step /\ target'[p] = id /\ copy'[p] = row
      /\ \A q \in Proc \ {p} :
           at'[q] = at[q] /\ target'[q] = target[q] /\ copy'[q] = copy[q]
  BY DEF Holding, TypeOK, DBTypeOK
<1>2. NumbersStand
  BY DEF NumbersStand, tables
<1>3. RequestNumbered(p)'
  BY <1>1 DEF RequestNumbered, UsedNo, tables
<1> QED BY <1>1, <1>2, <1>3, StandingNumbers

LEMMA RequestKeepsNumbers ==
    ASSUME TypeOK, NumbersInv, NEW p \in Proc,
           \/ \E o \in Order : OrderRequest(p, o)
           \/ \E r \in Room : RoomRequest(p, r)
    PROVE  NumbersInv'
<1>1. ASSUME NEW o \in Order, OrderRequest(p, o) PROVE NumbersInv'
  <2>1. PICK step : /\ step # "creating"
                    /\ Holding(p, step, o, orders[o])
                    /\ UNCHANGED <<tables, batch>>
    BY <1>1 DEF OrderRequest, CancelOrderRead, CheckInRead, CheckOutRead,
                ExtendStayRead, Read, CreatePaymentRead
  <2> QED BY <2>1, ReadKeepsNumbers
<1>2. ASSUME NEW r \in Room, NEW from \in Day, NEW to \in Day, CreateOrderRead(p, r, from, to)
      PROVE  NumbersInv'
  <2>1. PICK n, row :
          /\ n \in 0 .. MaxSeq /\ IsLastNo(n) /\ Holding(p, "creating", None, row)
          /\ row.orderNo = SeqAfter(n)
    BY <1>2 DEF CreateOrderRead
  <2>2. UNCHANGED <<tables, batch>>
    BY <1>2 DEF CreateOrderRead
  <2>3. ASSUME NEW k \in 1 .. SeqAfter(n) PROVE k \in UsedNo \/ k = SeqAfter(n)
    <3>1. k \in 1 .. n \/ k = SeqAfter(n)
      BY <2>1, BoundsAssumption DEF SeqAfter
    <3>2. n # 0 => 1 .. n \subseteq UsedNo
      BY <2>1 DEF IsLastNo, NumbersInv, NumbersDense, UsedNo
    <3> QED BY <3>1, <3>2
  <2>4. \A k \in 1 .. row.orderNo : k \in UsedNo \/ k = row.orderNo
    BY <2>1, <2>3
  <2>5. Holding(p, "creating", None, row)
    BY <2>1
  <2> QED BY <2>2, <2>4, <2>5, ReadKeepsNumbers
<1>3. ASSUME NEW r \in Room, NEW status \in RoomStatus, UpdateRoomRead(p, r, status)
      PROVE  NumbersInv'
  BY <1>3, ReadKeepsNumbers DEF UpdateRoomRead, OrderSteps
<1> QED BY <1>1, <1>2, <1>3 DEF RoomRequest

\* The unique index: of two creators with one number the second is refused.
LEMMA InsertKeepsNumbers ==
    ASSUME TypeOK, NumbersInv, NEW p \in Proc, NEW o \in Order, CreateOrderInsert(p, o)
    PROVE  NumbersInv'
<1> DEFINE new == copy[p]
<1>1. /\ new \in OrderRow /\ o \notin DOMAIN orders /\ Save(o, new) /\ Commit(p)
      /\ new.orderNo \notin UsedNo /\ UNCHANGED batch
      /\ \A k \in 1 .. new.orderNo : k \in UsedNo \/ k = new.orderNo
  BY DEF CreateOrderInsert, TypeOK, RequestTypeOK, NumbersInv, CreatorsCount
<1> HIDE DEF new
<1>2. /\ DOMAIN orders' = DOMAIN orders \cup {o}
      /\ orders'[o] = new
      /\ \A x \in DOMAIN orders : orders'[x] = orders[x]
  BY <1>1, SaveFits
<1>3. UsedNo' = UsedNo \cup {new.orderNo}
  <2>1. ASSUME NEW x \in DOMAIN orders' PROVE orders'[x].orderNo \in UsedNo \cup {new.orderNo}
    BY <1>2 DEF UsedNo
  <2>2. ASSUME NEW x \in DOMAIN orders PROVE orders[x].orderNo \in UsedNo'
    BY <1>2 DEF UsedNo
  <2>3. new.orderNo \in UsedNo'
    BY <1>2 DEF UsedNo
  <2> QED BY <2>1, <2>2, <2>3 DEF UsedNo
<1>4. NumbersDense'
  <2>1. \A x \in DOMAIN orders : orders[x].orderNo # new.orderNo
    BY <1>1 DEF UsedNo
  <2>2. \A a, b \in DOMAIN orders' : a # b => orders'[a].orderNo # orders'[b].orderNo
    BY <1>2, <2>1 DEF NumbersInv, NumbersDense
  <2>3. \A x \in DOMAIN orders' : 1 .. orders'[x].orderNo \subseteq UsedNo'
    BY <1>1, <1>2, <1>3 DEF NumbersInv, NumbersDense
  <2> QED BY <2>2, <2>3 DEF NumbersDense
<1>5. /\ at'[p] = "idle"
      /\ \A q \in Proc \ {p} :
           at'[q] = at[q] /\ target'[q] = target[q] /\ copy'[q] = copy[q]
  BY <1>1, FinishedFits DEF Commit
<1>6. CopiesKeepNumbers'
  <2>1. ASSUME NEW q \in Proc, at'[q] \in OrderSteps \ {"creating"}
        PROVE  copy'[q].orderNo = orders'[target'[q]].orderNo
    <3>1. q # p /\ at'[q] = at[q]
      BY <1>5, <2>1 DEF OrderSteps
    <3>2. target[q] \in DOMAIN orders
      BY <2>1, <3>1, HeldOrder DEF OrderSteps
    <3> QED BY <1>2, <1>5, <2>1, <3>1, <3>2 DEF NumbersInv, CopiesKeepNumbers
  <2>2. \A x \in DOMAIN batch' : x \in DOMAIN orders' /\ batch'[x].orderNo = orders'[x].orderNo
    BY <1>1, <1>2 DEF NumbersInv, CopiesKeepNumbers
  <2> QED BY <2>1, <2>2 DEF CopiesKeepNumbers
<1>7. CreatorsCount'
  BY <1>3, <1>5 DEF NumbersInv, CreatorsCount
<1> QED BY <1>4, <1>6, <1>7 DEF NumbersInv

LEMMA ContinueKeepsNumbers ==
    ASSUME TypeOK, NumbersInv, NEW p \in Proc, Continue(p)
    PROVE  NumbersInv'
<1> DEFINE id == target[p]
           row == copy[p]
<1>1. ASSUME at[p] \in OrderSteps \ {"creating"}
      PROVE  id \in DOMAIN orders /\ row \in OrderRow /\ row.orderNo = orders[id].orderNo
  BY <1>1, HeldOrder DEF NumbersInv, CopiesKeepNumbers, OrderSteps
<1>2. ASSUME NEW status, NEW reason, NEW new \in OrderRow, at[p] \in OrderSteps \ {"creating"},
             \/ new = row
             \/ new = [row EXCEPT !.status = status]
             \/ new = [row EXCEPT !.status = status, !.cancelReason = reason],
             Save(id, new), Commit(p), UNCHANGED batch
      PROVE  NumbersInv'
  <2>1. new.orderNo = orders[id].orderNo
    BY <1>1, <1>2 DEF OrderRow
  <2> QED BY <1>1, <1>2, <2>1, SaveKeepsNumbers
<1>3. CASE CancelOrderSave(p)
  <2> DEFINE new == [row EXCEPT !.status = "cancelled", !.cancelReason = "guest"]
  <2>1. at[p] \in OrderSteps \ {"creating"} /\ Save(id, new) /\ Commit(p) /\ UNCHANGED batch
    BY <1>3 DEF CancelOrderSave, OrderSteps, Step
  <2>2. new \in OrderRow
    BY <1>1, <2>1, RowFits
  <2> QED BY <1>2, <2>1, <2>2
<1>4. ASSUME NEW status \in OrderStatus, NEW roomStatus,
             at[p] \in {"checking_in", "checking_out"}, SaveWithRoom(p, status, roomStatus)
      PROVE  NumbersInv'
  <2> DEFINE new == [row EXCEPT !.status = status]
  <2>1. at[p] \in OrderSteps \ {"creating"} /\ Save(id, new) /\ Commit(p) /\ UNCHANGED batch
    BY <1>4 DEF SaveWithRoom, OrderSteps, Step
  <2>2. new \in OrderRow
    BY <1>1, <2>1, RowFits
  <2> QED BY <1>2, <2>1, <2>2
<1>5. CheckInSave(p) \/ CheckOutSave(p) => NumbersInv'
  BY <1>4 DEF CheckInSave, CheckOutSave, OrderStatus
<1>6. ASSUME NEW n \in 1 .. MaxDay, ExtendStayCheck(p, n) PROVE NumbersInv'
  <2>1. row \in OrderRow /\ row.orderNo = orders[id].orderNo
    BY <1>1, <1>6 DEF ExtendStayCheck, OrderSteps, Step
  <2>2. \A price : Extended(row, n, price).orderNo = row.orderNo
    BY <2>1 DEF Extended, OrderRow
  <2> QED BY <1>6, <2>1, <2>2, ReadKeepsNumbers DEF ExtendStayCheck
<1>7. CASE ExtendStaySave(p)
  <2>1. /\ at[p] \in OrderSteps \ {"creating"} /\ Save(id, row) /\ Commit(p)
        /\ UNCHANGED batch
    BY <1>7 DEF ExtendStaySave, OrderSteps, Step
  <2> QED BY <1>1, <1>2, <2>1
<1>8. CASE CreatePaymentSave(p)
  <2> DEFINE new == [row EXCEPT !.status = "paid"]
  <2>1. at[p] \in OrderSteps \ {"creating"} /\ Save(id, new) /\ Commit(p) /\ UNCHANGED batch
    BY <1>8 DEF CreatePaymentSave, OrderSteps, Step
  <2>2. new \in OrderRow
    BY <1>1, <2>1, RowFits DEF OrderStatus
  <2> QED BY <1>2, <2>1, <2>2
<1>9. ASSUME Finished(p), UNCHANGED <<orders, batch>> PROVE NumbersInv'
  BY <1>9, FinishedFits, StandingNumbers DEF NumbersStand, OrderSteps
<1>10. UpdateRoomSave(p) \/ Rollback(p) => NumbersInv'
  BY <1>9 DEF UpdateRoomSave, Rollback, Commit, tables
<1> QED BY <1>3, <1>5, <1>6, <1>7, <1>8, <1>10, InsertKeepsNumbers DEF Continue

LEMMA CronKeepsNumbers ==
    ASSUME TypeOK, NumbersInv, Sweep \/ \E o \in Order : Age(o)
    PROVE  NumbersInv'
<1>1. ASSUME NumbersStand, UNCHANGED requests,
             \A o \in DOMAIN batch' :
               \/ o \in DOMAIN batch /\ batch'[o] = batch[o]
               \/ o \in DOMAIN orders /\ batch'[o].orderNo = orders[o].orderNo
      PROVE  NumbersInv'
  <2>1. UsedNo' = UsedNo
    BY <1>1 DEF NumbersStand, UsedNo
  <2>2. \A q \in Proc : at[q] \in OrderSteps \ {"creating"} => target[q] \in DOMAIN orders
    BY HeldOrder DEF OrderSteps
  <2>3. NumbersDense' /\ CreatorsCount'
    BY <1>1, <2>1 DEF NumbersStand, NumbersInv, NumbersDense, CreatorsCount, requests
  <2>4. CopiesKeepNumbers'
    BY <1>1, <2>2 DEF NumbersStand, NumbersInv, CopiesKeepNumbers, requests
  <2> QED BY <2>3, <2>4 DEF NumbersInv
<1>2. ASSUME NEW o \in Order, SweepSave(o) PROVE NumbersInv'
  <2> DEFINE new == [batch[o] EXCEPT !.status = "cancelled", !.cancelReason = "timeout"]
  <2>1. new \in OrderRow /\ Save(o, new) /\ batch[o] \in OrderRow
    BY <1>2, SweepSaveFits
  <2>2. o \in DOMAIN orders /\ new.orderNo = orders[o].orderNo
    BY <1>2, <2>1 DEF SweepSave, NumbersInv, CopiesKeepNumbers, OrderRow
  <2> HIDE DEF new
  <2>3. NumbersStand
    BY <2>1, <2>2, SaveFits DEF NumbersStand
  <2> QED BY <1>1, <1>2, <2>3 DEF SweepSave, Without
<1>3. SweepRead => NumbersInv'
  BY <1>1 DEF SweepRead, FindExpiredPending, tables, NumbersStand
<1>4. \A o \in Order : SweepFail(o) \/ Age(o) => NumbersInv'
  BY <1>1 DEF SweepFail, Age, Without, tables, NumbersStand
<1> QED BY <1>2, <1>3, <1>4 DEF Sweep

LEMMA NumbersInvariant == Spec => []NumbersInv
<1>1. Init => NumbersInv
  BY DEF Init, DBInit, NumbersInv, NumbersDense, CopiesKeepNumbers, CreatorsCount, OrderSteps
<1>2. TypeOK /\ NumbersInv /\ [Next]_vars => NumbersInv'
  <2> SUFFICES ASSUME TypeOK, NumbersInv, [Next]_vars PROVE NumbersInv'
    OBVIOUS
  <2>1. CASE UNCHANGED vars
    BY <2>1 DEF vars, NumbersInv, NumbersDense, CopiesKeepNumbers, CreatorsCount, UsedNo
  <2>2. CASE Next
    BY <2>2, RequestKeepsNumbers, ContinueKeepsNumbers, CronKeepsNumbers DEF Next
  <2> QED BY <2>1, <2>2
<1> QED BY <1>1, <1>2, TypeCorrect, PTL DEF Spec

(***************************************************************************)
(* The numbers genOrderNo draws are 1, 2, 3 ... with no gap and no         *)
(* repetition, for any number of creators at once, whatever is saved over  *)
(* the orders meanwhile, and also when MaxSeq is reached.                  *)
(***************************************************************************)
THEOREM NumbersStayDense == Spec => []NumbersDense
<1>1. NumbersInv => NumbersDense
  BY DEF NumbersInv
<1> QED BY <1>1, NumbersInvariant, PTL

-----------------------------------------------------------------------------
(* The rooms as RoomLedger sees them. *)

\* The variables of the ledger.
Stays == [o \in Holds |-> StayOf(orders[o])]
Past == DOMAIN orders \ Holds

LEMMA SaveIsStrikeOrNothing ==
    ASSUME TypeOK, NEW id \in DOMAIN orders, NEW row \in OrderRow, Save(id, row),
           \/ row.status \notin Active
           \/ /\ orders[id].status \in Active /\ row.status \in Active
              /\ StayOf(row) = StayOf(orders[id])
    PROVE  Ledger!Strike(id) \/ UNCHANGED <<Stays, Past>>
<1>1. /\ DOMAIN orders' = DOMAIN orders
      /\ orders'[id] = row
      /\ \A x \in DOMAIN orders \ {id} : orders'[x] = orders[x]
  <2>1. id \in Order
    BY DEF TypeOK, DBTypeOK
  <2> QED BY <2>1, SaveFits
<1>2. CASE row.status \notin Active
  <2>1. Holds' = Holds \ {id}
    BY <1>1, <1>2 DEF Holds
  <2>2. Past' = Past \cup {id}
    BY <1>1, <2>1 DEF Past, Holds
  <2>3. Stays' = [x \in Holds \ {id} |-> Stays[x]]
    BY <1>1, <2>1 DEF Stays, Holds, StayOf
  <2>4. CASE id \in Holds
    BY <2>2, <2>3, <2>4 DEF Ledger!Strike, Stays, Past
  <2>5. CASE id \notin Holds
    <3>1. Holds' = Holds /\ Past' = Past
      BY <1>1, <2>1, <2>2, <2>5 DEF Past
    <3>2. Stays' = Stays
      BY <2>3, <2>5 DEF Stays
    <3> QED BY <3>1, <3>2
  <2> QED BY <2>4, <2>5
<1>3. CASE /\ orders[id].status \in Active /\ row.status \in Active
           /\ StayOf(row) = StayOf(orders[id])
  <2>1. Holds' = Holds
    BY <1>1, <1>3 DEF Holds
  <2>2. \A x \in Holds : StayOf(orders'[x]) = StayOf(orders[x])
    BY <1>1, <1>3 DEF Holds
  <2>3. Stays' = Stays
    BY <2>1, <2>2 DEF Stays, StayOf
  <2>4. Past' = Past
    BY <1>1, <2>1 DEF Past
  <2> QED BY <2>3, <2>4
<1> QED BY <1>2, <1>3

LEMMA InsertIsEnter ==
    ASSUME TypeOK, RowsWellMade, NEW p \in Proc, NEW o \in Order, CreateOrderInsert(p, o),
           copy[p].status = "pending",
           DateConflicts(copy[p].room, copy[p].checkIn, copy[p].checkOut, {}) = {}
    PROVE  StayOf(copy[p]) \in Ledger!Stay /\ Ledger!Enter(o, StayOf(copy[p]))
<1> DEFINE new == copy[p]
           s == StayOf(new)
<1>1. /\ TypeOK /\ new \in OrderRow /\ o \notin DOMAIN orders /\ Save(o, new)
      /\ new.status = "pending"
      /\ DateConflicts(new.room, new.checkIn, new.checkOut, {}) = {}
  BY DEF CreateOrderInsert, TypeOK, RequestTypeOK
<1>2. new.checkIn < new.checkOut
  BY DEF CreateOrderInsert, RowsWellMade, WellMade, OrderSteps, Step
<1> HIDE DEF new
<1>3. /\ DOMAIN orders' = DOMAIN orders \cup {o}
      /\ orders'[o] = new
      /\ \A x \in DOMAIN orders : orders'[x] = orders[x]
  BY <1>1, SaveFits
<1>4. s \in Ledger!Stay /\ s.room = new.room /\ s.checkIn = new.checkIn
      /\ s.checkOut = new.checkOut
  BY <1>1 DEF StayOf, OrderRow, Ledger!Stay, Day
<1>5. DOMAIN Stays = Holds /\ Holds \subseteq DOMAIN orders /\ o \notin Holds \cup Past
  BY <1>1 DEF Stays, Holds, Past
<1>6. ASSUME NEW x \in Holds PROVE Ledger!Disjoint(s, Stays[x])
  <2>1. /\ Stays[x].room = orders[x].room
        /\ Stays[x].checkIn = orders[x].checkIn /\ Stays[x].checkOut = orders[x].checkOut
    BY DEF Stays, StayOf
  <2>2. orders[x].room = new.room =>
          ~(orders[x].checkIn < new.checkOut /\ orders[x].checkOut > new.checkIn)
    BY <1>1 DEF Holds, DateConflicts, Overlaps
  <2>3. /\ orders[x].checkIn \in Int /\ orders[x].checkOut \in Int
        /\ new.checkIn \in Int /\ new.checkOut \in Int
    BY <1>1, RowFits DEF Holds, TypeOK, DBTypeOK
  <2> QED BY <1>4, <2>1, <2>2, <2>3 DEF Ledger!Disjoint
<1>7. Holds' = Holds \cup {o}
  BY <1>1, <1>3 DEF Holds, Active
<1>8. Past' = Past
  BY <1>1, <1>3, <1>7 DEF Past, Holds
<1>9. Stays' = [x \in Holds \cup {o} |-> IF x = o THEN s ELSE Stays[x]]
  BY <1>3, <1>5, <1>7 DEF Stays, StayOf
<1> HIDE DEF s
<1>10. Ledger!Enter(o, s)
  BY <1>2, <1>4, <1>5, <1>6, <1>8, <1>9 DEF Ledger!Enter, Ledger!FreeFor, Stays, Past
<1> QED BY <1>4, <1>10 DEF s, new

\* In the ledger the stays are apart, for each enters, or grows, where it is free.
StaysDisjoint ==
    \A a \in DOMAIN Stays :
        /\ Stays[a] \in Ledger!Stay
        /\ \A b \in DOMAIN Stays \ {a} : Ledger!Disjoint(Stays[a], Stays[b])

LEMMA LedgerKeepsApart == StaysDisjoint /\ Ledger!Next => StaysDisjoint'
<1> SUFFICES ASSUME StaysDisjoint, Ledger!Next PROVE StaysDisjoint'
  OBVIOUS
<1> USE DEF StaysDisjoint, Ledger!Disjoint, Ledger!FreeFor
<1>1. ASSUME NEW o \in Order, NEW s \in Ledger!Stay, Ledger!Enter(o, s) PROVE StaysDisjoint'
  <2>1. /\ Stays' = [x \in DOMAIN Stays \cup {o} |-> IF x = o THEN s ELSE Stays[x]]
        /\ \A x \in DOMAIN Stays : Ledger!Disjoint(s, Stays[x])
    BY <1>1 DEF Ledger!Enter, Stays
  <2> QED BY <2>1
<1>2. ASSUME NEW o \in Order, NEW day \in 0 .. MaxDay, Ledger!Prolong(o, day) PROVE StaysDisjoint'
  <2>1. /\ DOMAIN Stays' = DOMAIN Stays /\ o \in DOMAIN Stays
        /\ Stays'[o] = [Stays[o] EXCEPT !.checkOut = day]
        /\ \A x \in DOMAIN Stays \ {o} :
             Stays'[x] = Stays[x] /\ Ledger!Disjoint(Stays'[o], Stays[x])
    BY <1>2 DEF Ledger!Prolong, Stays
  <2>2. Stays'[o] \in Ledger!Stay
    BY <2>1 DEF Ledger!Stay
  <2> QED BY <2>1, <2>2
<1>3. ASSUME NEW o \in Order, Ledger!Strike(o) PROVE StaysDisjoint'
  <2>1. Stays' = [x \in DOMAIN Stays \ {o} |-> Stays[x]]
    BY <1>3 DEF Ledger!Strike, Stays
  <2> QED BY <2>1
<1> QED BY <1>1, <1>2, <1>3 DEF Ledger!Next

(***************************************************************************)
(* The ledger says enough: a server that implements it, by whatever locks, *)
(* never books a night of a room twice.                                    *)
(***************************************************************************)
THEOREM LedgerNeverDoubleBooks == LedgerSpec => []NoDoubleBooking
<1>1. Ledger!Init => StaysDisjoint
  BY DEF Ledger!Init, StaysDisjoint, Stays
<1>2. StaysDisjoint /\ [Ledger!Next]_<<Stays, Past>> => StaysDisjoint'
  BY LedgerKeepsApart DEF StaysDisjoint
<1>3. StaysDisjoint => NoDoubleBooking
  <2> SUFFICES ASSUME StaysDisjoint, NEW a \in Holds, NEW b \in Holds \ {a},
                      orders[a].room = orders[b].room
               PROVE  ~Overlaps(orders[a], orders[b].checkIn, orders[b].checkOut)
    BY DEF NoDoubleBooking, Holds
  <2>1. /\ Stays[a] = StayOf(orders[a]) /\ Stays[b] = StayOf(orders[b])
        /\ Stays[a] \in Ledger!Stay /\ Stays[b] \in Ledger!Stay
        /\ Ledger!Disjoint(Stays[a], Stays[b])
    BY DEF StaysDisjoint, Stays
  <2>2. /\ orders[a].checkIn \in Int /\ orders[a].checkOut \in Int
        /\ orders[b].checkIn \in Int /\ orders[b].checkOut \in Int
    BY <2>1, BoundsAssumption DEF Ledger!Stay, StayOf
  <2> QED BY <2>1, <2>2 DEF Ledger!Disjoint, StayOf, Overlaps
<1>4. LedgerSpec => Ledger!Init /\ [][Ledger!Next]_<<Stays, Past>>
  BY DEF LedgerSpec, Ledger!Spec, Stays, Past
<1> QED BY <1>1, <1>2, <1>3, <1>4, PTL
=============================================================================
