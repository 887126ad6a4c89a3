-------------------------- MODULE HotelBookingProofs --------------------------
(***************************************************************************)
(* Proofs about HotelBooking for every set of rooms, orders and requests,  *)
(* every calendar, and both databases.                                     *)
(***************************************************************************)
EXTENDS HotelBooking, TLAPS

-----------------------------------------------------------------------------
(* Lemmas on the building blocks of the actions. *)

\* Saving a row that fits the table leaves the table well formed, and leaves
\* every other row and key alone.
LEMMA SaveFits ==
    ASSUME TypeOK, NEW id \in Order, NEW row \in OrderRow, Save(id, row)
    PROVE  /\ DOMAIN orders' = DOMAIN orders \cup {id}
           /\ DOMAIN orders' \subseteq Order
           /\ orders' \in [DOMAIN orders' -> OrderRow]
           /\ orders'[id] = row
           /\ \A x \in DOMAIN orders \ {id} : orders'[x] = orders[x]
BY DEF TypeOK, DBTypeOK, Save

\* A finished request holds nothing and no lock, and leaves the others' alone.
LEMMA FinishedFits ==
    ASSUME TypeOK, NEW p \in Proc, Finished(p)
    PROVE  /\ at' \in [Proc -> Step]
           /\ target' \in [Proc -> Room \cup Order \cup {None}]
           /\ copy' \in [Proc -> OrderRow \cup RoomRow \cup {None}]
           /\ lock' \in [Room \cup Order -> Proc \cup {None}]
           /\ at'[p] = "idle"
           /\ \A q \in Proc \ {p} :
                at'[q] = at[q] /\ target'[q] = target[q] /\ copy'[q] = copy[q]
           /\ \A x \in Room \cup Order : \A q \in Proc \ {p} : lock[x] = q <=> lock'[x] = q
<1>1. None \notin Proc
  BY KeysAssumption
<1> QED BY <1>1 DEF TypeOK, DBTypeOK, Finished, Holding, Step

\* A request that goes on with a fitting row fits, and leaves the others alone.
LEMMA HoldingFits ==
    ASSUME TypeOK, NEW p \in Proc, NEW step \in Step,
           NEW id \in Room \cup Order \cup {None}, NEW row \in OrderRow \cup RoomRow \cup {None},
           Holding(p, step, id, row)
    PROVE  /\ at' \in [Proc -> Step]
           /\ target' \in [Proc -> Room \cup Order \cup {None}]
           /\ copy' \in [Proc -> OrderRow \cup RoomRow \cup {None}]
           /\ at'[p] = step /\ target'[p] = id /\ copy'[p] = row
           /\ \A q \in Proc \ {p} :
                at'[q] = at[q] /\ target'[q] = target[q] /\ copy'[q] = copy[q]
BY DEF TypeOK, DBTypeOK, Holding

\* Locking reads only lock the row for the reader.
LEMMA SelectForUpdateFits ==
    ASSUME TypeOK, NEW p \in Proc, NEW x \in Room \cup Order, SelectForUpdate(p, x)
    PROVE  /\ lock' \in [Room \cup Order -> Proc \cup {None}]
           /\ fresh' \subseteq Proc
           /\ \A y \in Room \cup Order : \A q \in Proc \ {p} : lock[y] = q <=> lock'[y] = q
           /\ \A q \in Proc \ {p} : q \in fresh <=> q \in fresh'
           /\ engine = "mysql" => lock'[x] = p
<1>1. None \notin Proc
  BY KeysAssumption
<1> QED BY <1>1 DEF TypeOK, DBTypeOK, SelectForUpdate

-----------------------------------------------------------------------------
(* Type correctness. *)

\* What a request may hold at a step, as RequestTypeOK says it of every request.
Fits(step, id, row) ==
    /\ step = "creating" => row \in OrderRow
    /\ step \in Step \ {"idle", "creating", "updating_room"}
         => id \in DOMAIN orders /\ row \in OrderRow
    /\ step = "updating_room" => id \in Room /\ row \in RoomRow

\* The step of a request that only reads.
LEMMA ReadKeepsType ==
    ASSUME TypeOK, NEW p \in Proc, NEW step \in Step,
           NEW id \in Room \cup Order \cup {None}, NEW row \in OrderRow \cup RoomRow \cup {None},
           Holding(p, step, id, row), Fits(step, id, row),
           lock' \in [Room \cup Order -> Proc \cup {None}], fresh' \subseteq Proc,
           UNCHANGED <<engine, tables, aged, batch>>
    PROVE  TypeOK'
<1>1. /\ at' \in [Proc -> Step]
      /\ target' \in [Proc -> Room \cup Order \cup {None}]
      /\ copy' \in [Proc -> OrderRow \cup RoomRow \cup {None}]
      /\ at'[p] = step /\ target'[p] = id /\ copy'[p] = row
      /\ \A q \in Proc \ {p} :
           at'[q] = at[q] /\ target'[q] = target[q] /\ copy'[q] = copy[q]
  BY HoldingFits
<1>2. DBTypeOK'
  BY <1>1 DEF TypeOK, DBTypeOK, tables
<1>3. RequestTypeOK'
  BY <1>1 DEF TypeOK, RequestTypeOK, Fits, tables
<1> QED BY <1>2, <1>3 DEF TypeOK

\* The commit of a request: the tables fit and no order is lost.
LEMMA CommitKeepsType ==
    ASSUME TypeOK, NEW p \in Proc, Finished(p), fresh' \subseteq Proc,
           DOMAIN orders \subseteq DOMAIN orders',
           DOMAIN orders' \subseteq Order, orders' \in [DOMAIN orders' -> OrderRow],
           rooms' \in [Room -> RoomStatus], payments' \in [Order -> Seq(Nat)],
           UNCHANGED <<engine, aged, batch>>
    PROVE  TypeOK'
<1>1. /\ at' \in [Proc -> Step]
      /\ target' \in [Proc -> Room \cup Order \cup {None}]
      /\ copy' \in [Proc -> OrderRow \cup RoomRow \cup {None}]
      /\ lock' \in [Room \cup Order -> Proc \cup {None}]
      /\ at'[p] = "idle"
      /\ \A q \in Proc \ {p} :
           at'[q] = at[q] /\ target'[q] = target[q] /\ copy'[q] = copy[q]
  BY FinishedFits
<1>2. DBTypeOK'
  BY <1>1 DEF TypeOK, DBTypeOK
<1>3. RequestTypeOK'
  BY <1>1 DEF TypeOK, RequestTypeOK
<1> QED BY <1>2, <1>3 DEF TypeOK

\* A commit that saves one order, and perhaps a room's status.
LEMMA SaveKeepsType ==
    ASSUME TypeOK, NEW p \in Proc, NEW id \in Order, NEW row \in OrderRow,
           Save(id, row), Commit(p),
           rooms' \in [Room -> RoomStatus], payments' \in [Order -> Seq(Nat)],
           UNCHANGED <<engine, aged, batch>>
    PROVE  TypeOK'
<1>1. Finished(p) /\ fresh' \subseteq Proc
  BY DEF Commit
<1>2. /\ DOMAIN orders' = DOMAIN orders \cup {id}
      /\ DOMAIN orders' \subseteq Order
      /\ orders' \in [DOMAIN orders' -> OrderRow]
  BY SaveFits
<1> QED BY <1>1, <1>2, CommitKeepsType

\* Columns of rows.
LEMMA RowFits ==
    ASSUME NEW row \in OrderRow
    PROVE  /\ \A s \in OrderStatus : [row EXCEPT !.status = s] \in OrderRow
           /\ \A r \in {"none", "guest", "timeout"} :
                [row EXCEPT !.status = "cancelled", !.cancelReason = r] \in OrderRow
           /\ row.room \in Room
           /\ row.checkIn \in Int /\ row.checkOut \in Int
           /\ row.totalPrice \in Nat
           /\ row.status \in OrderStatus
<1>1. \A s \in OrderStatus : [row EXCEPT !.status = s] \in OrderRow
  BY DEF OrderRow
<1>2. \A r \in {"none", "guest", "timeout"} :
        [row EXCEPT !.status = "cancelled", !.cancelReason = r] \in OrderRow
  BY DEF OrderRow, OrderStatus
<1>3. row.room \in Room /\ row.totalPrice \in Nat /\ row.status \in OrderStatus
  BY DEF OrderRow
<1>4. row.checkIn \in Int /\ row.checkOut \in Int
  BY BoundsAssumption DEF OrderRow, Day
<1> QED BY <1>1, <1>2, <1>3, <1>4

\* What a request that works on an order holds.
LEMMA HeldOrder ==
    ASSUME TypeOK, NEW p \in Proc,
           at[p] \in Step \ {"idle", "creating", "updating_room"}
    PROVE  /\ target[p] \in DOMAIN orders /\ target[p] \in Order
           /\ copy[p] \in OrderRow
BY DEF TypeOK, DBTypeOK, RequestTypeOK

\* Read and SaveWithRoom serve the staff handlers and cancellation.
LEMMA OrderReadKeepsType ==
    ASSUME TypeOK, NEW p \in Proc, NEW o \in Order, NEW allowed,
           NEW step \in Step \ {"idle", "creating", "updating_room"},
           Read(p, o, step, allowed)
    PROVE  TypeOK'
<1>1. o \in DOMAIN orders /\ orders[o] \in OrderRow
  BY DEF Read, TypeOK, DBTypeOK
<1>2. Fits(step, o, orders[o])
  BY <1>1 DEF Fits
<1>3. /\ Holding(p, step, o, orders[o])
      /\ UNCHANGED <<engine, tables, aged, batch>>
      /\ lock' \in [Room \cup Order -> Proc \cup {None}] /\ fresh' \subseteq Proc
  BY DEF Read, TypeOK, DBTypeOK
<1> QED BY <1>1, <1>2, <1>3, ReadKeepsType

LEMMA SaveWithRoomKeepsType ==
    ASSUME TypeOK, NEW p \in Proc, NEW status \in OrderStatus, NEW roomStatus \in RoomStatus,
           at[p] \in Step \ {"idle", "creating", "updating_room"},
           SaveWithRoom(p, status, roomStatus)
    PROVE  TypeOK'
<1>1. target[p] \in Order /\ copy[p] \in OrderRow
  BY HeldOrder
<1>2. [copy[p] EXCEPT !.status = status] \in OrderRow
  BY <1>1, RowFits
<1>3. rooms' \in [Room -> RoomStatus] /\ payments' \in [Order -> Seq(Nat)]
  BY DEF SaveWithRoom, UpdateWithTx, TypeOK, DBTypeOK
<1>4. /\ Save(target[p], [copy[p] EXCEPT !.status = status])
      /\ Commit(p) /\ UNCHANGED <<engine, aged, batch>>
  BY DEF SaveWithRoom
<1> QED BY <1>1, <1>2, <1>3, <1>4, SaveKeepsType

LEMMA CreateReadKeepsType ==
    ASSUME TypeOK, NEW p \in Proc, NEW r \in Room, NEW from \in Day, NEW to \in Day,
           CreateOrderRead(p, r, from, to)
    PROVE  TypeOK'
<1>1. PICK n \in 0 .. MaxSeq, price \in Prices :
        Holding(p, "creating", None,
          [room |-> r, checkIn |-> from, checkOut |-> to,
           totalPrice |-> price * (to - from), orderNo |-> SeqAfter(n),
           status |-> "pending", cancelReason |-> "none"])
  BY DEF CreateOrderRead
<1> DEFINE row == [room |-> r, checkIn |-> from, checkOut |-> to,
                   totalPrice |-> price * (to - from), orderNo |-> SeqAfter(n),
                   status |-> "pending", cancelReason |-> "none"]
<1>2. SeqAfter(n) \in 1 .. MaxSeq
  BY BoundsAssumption DEF SeqAfter
<1>3. price * (to - from) \in Nat
  <2>1. price \in Nat /\ to - from \in Nat
    BY PriceAssumption, BoundsAssumption DEF CreateOrderRead, Day
  <2>2. \A a, b \in Nat : a * b \in Nat
    OBVIOUS
  <2> QED BY <2>1, <2>2
<1>4. row \in OrderRow
  BY <1>2, <1>3 DEF OrderRow, OrderStatus
<1>5. /\ lock' \in [Room \cup Order -> Proc \cup {None}] /\ fresh' \subseteq Proc
      /\ UNCHANGED <<engine, tables, aged, batch>>
  BY SelectForUpdateFits DEF CreateOrderRead
<1>6. "creating" \in Step /\ Fits("creating", None, row)
  BY <1>4 DEF Fits, Step
<1>7. Holding(p, "creating", None, row)
  BY <1>1
<1> HIDE DEF row
<1> QED BY <1>4, <1>5, <1>6, <1>7, ReadKeepsType

LEMMA RequestKeepsType ==
    ASSUME TypeOK, NEW p \in Proc,
           \/ \E o \in Order : OrderRequest(p, o)
           \/ \E r \in Room : RoomRequest(p, r)
    PROVE  TypeOK'
<1>1. ASSUME NEW o \in Order, OrderRequest(p, o) PROVE TypeOK'
  <2> USE DEF Step
  <2>1. CASE CancelOrderRead(p, o)
    BY <2>1, OrderReadKeepsType DEF CancelOrderRead
  <2>2. CASE CheckInRead(p, o)
    BY <2>2, OrderReadKeepsType DEF CheckInRead
  <2>3. CASE CheckOutRead(p, o)
    BY <2>3, OrderReadKeepsType DEF CheckOutRead
  <2>4. CASE ExtendStayRead(p, o)
    BY <2>4, OrderReadKeepsType DEF ExtendStayRead
  <2>5. CASE CreatePaymentRead(p, o)
    <3>1. o \in DOMAIN orders /\ orders[o] \in OrderRow
      BY <2>5 DEF CreatePaymentRead, TypeOK, DBTypeOK
    <3>2. SelectForUpdate(p, o)
      BY <2>5 DEF CreatePaymentRead
    <3>3. /\ lock' \in [Room \cup Order -> Proc \cup {None}] /\ fresh' \subseteq Proc
          /\ Holding(p, "paying", o, orders[o])
          /\ UNCHANGED <<engine, tables, aged, batch>>
      BY <2>5, <3>2, SelectForUpdateFits DEF CreatePaymentRead
    <3>4. Fits("paying", o, orders[o])
      BY <3>1 DEF Fits
    <3> QED BY <3>1, <3>3, <3>4, ReadKeepsType
  <2> QED BY <1>1, <2>1, <2>2, <2>3, <2>4, <2>5 DEF OrderRequest
<1>2. ASSUME NEW r \in Room, RoomRequest(p, r) PROVE TypeOK'
  <2>1. CASE \E from, to \in Day : CreateOrderRead(p, r, from, to)
    BY <2>1, CreateReadKeepsType
  <2>2. ASSUME NEW status \in RoomStatus, UpdateRoomRead(p, r, status) PROVE TypeOK'
    <3>1. /\ Holding(p, "updating_room", r, [status |-> status])
          /\ UNCHANGED <<engine, tables, aged, batch>>
          /\ lock' \in [Room \cup Order -> Proc \cup {None}] /\ fresh' \subseteq Proc
      BY <2>2 DEF UpdateRoomRead, TypeOK, DBTypeOK
    <3>2. [status |-> status] \in RoomRow
      BY DEF RoomRow
    <3>3. "updating_room" \in Step /\ Fits("updating_room", r, [status |-> status])
      BY <3>2 DEF Fits, Step
    <3> QED BY <3>1, <3>2, <3>3, ReadKeepsType
  <2> QED BY <1>2, <2>1, <2>2 DEF RoomRequest
<1> QED BY <1>1, <1>2

\* A prolonged row fits while the new day is on the calendar.
LEMMA ExtendedFits ==
    ASSUME NEW row \in OrderRow, NEW n \in Nat, row.checkOut + n \in Day,
           NEW price \in Prices
    PROVE  Extended(row, n, price) \in OrderRow
<1>1. /\ row.room \in Room /\ row.totalPrice \in Nat
  BY RowFits
<1>2. price \in Nat
  BY PriceAssumption
<1>3. \A a, b, c \in Nat : a + b * c \in Nat
  OBVIOUS
<1>4. row.totalPrice + price * n \in Nat
  BY <1>1, <1>2, <1>3
<1> DEFINE total == row.totalPrice + price * n
<1>5. total \in Nat
  BY <1>4
<1>6. Extended(row, n, price) = [row EXCEPT !.checkOut = row.checkOut + n, !.totalPrice = total]
  BY DEF Extended, OrderRow
<1> HIDE DEF total
<1> QED BY <1>5, <1>6 DEF OrderRow

LEMMA ContinueKeepsType ==
    ASSUME TypeOK, NEW p \in Proc, Continue(p)
    PROVE  TypeOK'
<1> USE DEF Step
<1>1. ASSUME NEW o \in Order, CreateOrderInsert(p, o) PROVE TypeOK'
  <2>1. copy[p] \in OrderRow
    BY <1>1 DEF CreateOrderInsert, TypeOK, RequestTypeOK
  <2>2. /\ Save(o, copy[p]) /\ Commit(p)
        /\ rooms' \in [Room -> RoomStatus] /\ payments' \in [Order -> Seq(Nat)]
        /\ UNCHANGED <<engine, aged, batch>>
    BY <1>1 DEF CreateOrderInsert, TypeOK, DBTypeOK
  <2> QED BY <2>1, <2>2, SaveKeepsType
<1>2. CASE CancelOrderSave(p)
  <2>1. target[p] \in Order /\ copy[p] \in OrderRow
    BY <1>2, HeldOrder DEF CancelOrderSave
  <2> DEFINE row == [copy[p] EXCEPT !.status = "cancelled", !.cancelReason = "guest"]
  <2>2. row \in OrderRow
    BY <2>1, RowFits
  <2>3. rooms' \in [Room -> RoomStatus]
    BY <1>2 DEF CancelOrderSave, UpdateWithTx, TypeOK, DBTypeOK, RoomStatus
  <2>4. /\ Save(target[p], row) /\ Commit(p)
        /\ payments' \in [Order -> Seq(Nat)]
        /\ UNCHANGED <<engine, aged, batch>>
    BY <1>2 DEF CancelOrderSave, TypeOK, DBTypeOK
  <2> HIDE DEF row
  <2> QED BY <2>1, <2>2, <2>3, <2>4, SaveKeepsType
<1>3. CASE CheckInSave(p)
  BY <1>3, SaveWithRoomKeepsType DEF CheckInSave, OrderStatus, RoomStatus
<1>4. CASE CheckOutSave(p)
  BY <1>4, SaveWithRoomKeepsType DEF CheckOutSave, OrderStatus, RoomStatus
<1>5. ASSUME NEW n \in 1 .. MaxDay, ExtendStayCheck(p, n) PROVE TypeOK'
  <2>1. target[p] \in DOMAIN orders /\ target[p] \in Order /\ copy[p] \in OrderRow
    BY <1>5, HeldOrder DEF ExtendStayCheck
  <2>2. n \in Nat /\ copy[p].checkOut + n \in Day
    BY <1>5, BoundsAssumption DEF ExtendStayCheck
  <2>3. PICK price \in Prices : Holding(p, "extend_checked", target[p], Extended(copy[p], n, price))
    BY <1>5 DEF ExtendStayCheck
  <2>6. Extended(copy[p], n, price) \in OrderRow
    BY <2>1, <2>2, ExtendedFits
  <2>4. /\ Holding(p, "extend_checked", target[p], Extended(copy[p], n, price))
        /\ lock' \in [Room \cup Order -> Proc \cup {None}] /\ fresh' \subseteq Proc
        /\ UNCHANGED <<engine, tables, aged, batch>>
    BY <1>5, <2>3 DEF ExtendStayCheck, SelectInTx, TypeOK, DBTypeOK
  <2>5. Fits("extend_checked", target[p], Extended(copy[p], n, price))
    BY <2>1, <2>6 DEF Fits
  <2> QED BY <2>1, <2>6, <2>4, <2>5, ReadKeepsType
<1>6. CASE ExtendStaySave(p)
  <2>1. target[p] \in Order /\ copy[p] \in OrderRow
    BY <1>6, HeldOrder DEF ExtendStaySave
  <2>2. /\ Save(target[p], copy[p]) /\ Commit(p)
        /\ rooms' \in [Room -> RoomStatus] /\ payments' \in [Order -> Seq(Nat)]
        /\ UNCHANGED <<engine, aged, batch>>
    BY <1>6 DEF ExtendStaySave, TypeOK, DBTypeOK
  <2> QED BY <2>1, <2>2, SaveKeepsType
<1>7. CASE CreatePaymentSave(p)
  <2>1. target[p] \in Order /\ copy[p] \in OrderRow
    BY <1>7, HeldOrder DEF CreatePaymentSave
  <2>2. [copy[p] EXCEPT !.status = "paid"] \in OrderRow
    BY <2>1, RowFits DEF OrderStatus
  <2>3. copy[p].totalPrice \in Nat /\ payments[target[p]] \in Seq(Nat)
    BY <2>1, RowFits DEF TypeOK, DBTypeOK
  <2>4. Append(payments[target[p]], copy[p].totalPrice) \in Seq(Nat)
    BY <2>3
  <2>5. payments' \in [Order -> Seq(Nat)]
    BY <1>7, <2>4 DEF CreatePaymentSave, TypeOK, DBTypeOK
  <2>6. /\ Save(target[p], [copy[p] EXCEPT !.status = "paid"]) /\ Commit(p)
        /\ rooms' \in [Room -> RoomStatus]
        /\ UNCHANGED <<engine, aged, batch>>
    BY <1>7 DEF CreatePaymentSave, TypeOK, DBTypeOK
  <2> QED BY <2>1, <2>2, <2>5, <2>6, SaveKeepsType
<1>8. CASE UpdateRoomSave(p)
  <2>1. target[p] \in Room /\ copy[p].status \in RoomStatus
    BY <1>8 DEF UpdateRoomSave, TypeOK, RequestTypeOK, RoomRow
  <2>2. rooms' \in [Room -> RoomStatus]
    BY <1>8, <2>1 DEF UpdateRoomSave, TypeOK, DBTypeOK
  <2>3. /\ Finished(p) /\ fresh' \subseteq Proc
        /\ UNCHANGED <<engine, orders, payments, aged, batch>>
    BY <1>8 DEF UpdateRoomSave, Commit
  <2>4. DOMAIN orders' \subseteq Order /\ orders' \in [DOMAIN orders' -> OrderRow]
        /\ payments' \in [Order -> Seq(Nat)] /\ DOMAIN orders \subseteq DOMAIN orders'
    BY <2>3 DEF TypeOK, DBTypeOK
  <2> QED BY <2>2, <2>3, <2>4, CommitKeepsType
<1>9. CASE Rollback(p)
  <2>1. /\ Finished(p) /\ fresh' \subseteq Proc
        /\ UNCHANGED <<engine, tables, aged, batch>>
    BY <1>9 DEF Rollback, TypeOK, DBTypeOK
  <2>2. /\ DOMAIN orders' \subseteq Order /\ orders' \in [DOMAIN orders' -> OrderRow]
        /\ payments' \in [Order -> Seq(Nat)] /\ rooms' \in [Room -> RoomStatus]
        /\ DOMAIN orders \subseteq DOMAIN orders'
    BY <2>1 DEF TypeOK, DBTypeOK, tables
  <2> QED BY <2>1, <2>2, CommitKeepsType
<1> QED BY <1>1, <1>2, <1>3, <1>4, <1>5, <1>6, <1>7, <1>8, <1>9 DEF Continue

LEMMA SweepSaveFits ==
    ASSUME TypeOK, NEW o \in Order, SweepSave(o)
    PROVE  /\ batch[o] \in OrderRow
           /\ [batch[o] EXCEPT !.status = "cancelled", !.cancelReason = "timeout"] \in OrderRow
           /\ Save(o, [batch[o] EXCEPT !.status = "cancelled", !.cancelReason = "timeout"])
<1>1. batch[o] \in OrderRow
  BY DEF SweepSave, TypeOK, DBTypeOK
<1>2. [batch[o] EXCEPT !.status = "cancelled", !.cancelReason = "timeout"] \in OrderRow
  BY <1>1, RowFits
<1> QED BY <1>1, <1>2 DEF SweepSave

\* Time and the sweep leave the requests alone.
LEMMA CronKeepsType ==
    ASSUME TypeOK, Sweep \/ \E o \in Order : Age(o)
    PROVE  TypeOK'
<1>1. ASSUME NEW o \in Order, Age(o) PROVE TypeOK'
  BY <1>1 DEF Age, TypeOK, DBTypeOK, RequestTypeOK, tables, requests
<1>2. CASE SweepRead
  BY <1>2 DEF SweepRead, FindExpiredPending, TypeOK, DBTypeOK, RequestTypeOK, tables, requests
<1>3. ASSUME NEW o \in Order, SweepSave(o) PROVE TypeOK'
  <2>1. /\ DOMAIN orders' = DOMAIN orders \cup {o}
        /\ DOMAIN orders' \subseteq Order
        /\ orders' \in [DOMAIN orders' -> OrderRow]
    BY <1>3, SweepSaveFits, SaveFits
  <2>2. DBTypeOK'
    BY <1>3, <2>1 DEF SweepSave, Without, TypeOK, DBTypeOK, requests
  <2>3. RequestTypeOK'
    BY <1>3, <2>1 DEF SweepSave, TypeOK, RequestTypeOK, requests
  <2> QED BY <2>2, <2>3 DEF TypeOK
<1>4. ASSUME NEW o \in Order, SweepFail(o) PROVE TypeOK'
  BY <1>4 DEF SweepFail, Without, TypeOK, DBTypeOK, RequestTypeOK, tables, requests
<1> QED BY <1>1, <1>2, <1>3, <1>4 DEF Sweep

(***************************************************************************)
(* The tables, locks and requests of the server always fit their columns,  *)
(* whatever traffic it serves: no handler saves a malformed row.           *)
(***************************************************************************)
THEOREM TypeCorrect == Spec => []TypeOK
<1>1. Init => TypeOK
  BY DEF Init, DBInit, TypeOK, DBTypeOK, RequestTypeOK, Step, RoomStatus
<1>2. TypeOK /\ [Next]_vars => TypeOK'
  <2> SUFFICES ASSUME TypeOK, [Next]_vars PROVE TypeOK'
    OBVIOUS
  <2>1. CASE UNCHANGED vars
    BY <2>1 DEF vars, TypeOK, DBTypeOK, RequestTypeOK
  <2>2. CASE Next
    BY <2>2, RequestKeepsType, ContinueKeepsType, CronKeepsType DEF Next
  <2> QED BY <2>1, <2>2
<1> QED BY <1>1, <1>2, PTL DEF Spec

-----------------------------------------------------------------------------
(* No double booking in the traffic of guests. *)

\* A save that takes no night: the order does not hold its room afterwards, or
\* it held the same nights before.
TakesNoNight(id, row) ==
    \/ row.status \notin Active
    \/ /\ id \in DOMAIN orders
       /\ orders[id].status \in Active
       /\ StayOf(orders[id]) = StayOf(row)

LEMMA NoNightTaken ==
    ASSUME TypeOK, NoDoubleBooking, NEW id \in Order, NEW row \in OrderRow,
           Save(id, row), TakesNoNight(id, row)
    PROVE  /\ NoDoubleBooking'
           /\ \A r, from, to : DateConflicts(r, from, to, {})' \subseteq
                                 DateConflicts(r, from, to, {})
<1>1. /\ DOMAIN orders' = DOMAIN orders \cup {id}
      /\ orders'[id] = row
      /\ \A x \in DOMAIN orders \ {id} : orders'[x] = orders[x]
  BY SaveFits
<1>2. ASSUME NEW o \in DOMAIN orders', orders'[o].status \in Active
      PROVE  /\ o \in DOMAIN orders /\ orders[o].status \in Active
             /\ orders'[o].room = orders[o].room
             /\ orders'[o].checkIn = orders[o].checkIn
             /\ orders'[o].checkOut = orders[o].checkOut
  <2>1. CASE o # id
    BY <1>1, <1>2, <2>1
  <2>2. CASE o = id
    BY <1>1, <1>2, <2>2 DEF TakesNoNight, StayOf
  <2> QED BY <2>1, <2>2
<1>3. NoDoubleBooking'
  BY <1>2 DEF NoDoubleBooking, Overlaps
<1>4. \A r, from, to : DateConflicts(r, from, to, {})' \subseteq DateConflicts(r, from, to, {})
  BY <1>2 DEF DateConflicts, Overlaps
<1> QED BY <1>3, <1>4

\* What GuestInv says of one request.
RequestInv(p) ==
    /\ at[p] \in GuestSteps
    /\ CreatorHoldsFreeNights(p)
    /\ PayerHoldsItsOrder(p)

\* A commit that respects the locks leaves the other requests right: on SQLite
\* it makes them stale, on MySQL it changes nothing they rely on.
LEMMA CommitKeepsOthers ==
    ASSUME GuestInv, NEW p \in Proc, Commit(p), UNCHANGED engine,
           engine = "mysql" =>
             \A q \in Proc \ {p} :
               /\ at[q] = "creating" =>
                    DateConflicts(copy[q].room, copy[q].checkIn, copy[q].checkOut, {})' = {}
               /\ at[q] = "paying" => orders'[target[q]] = orders[target[q]]
    PROVE  \A q \in Proc : RequestInv(q)'
<1>1. /\ TypeOK /\ Finished(p) /\ fresh' = {} /\ engine \in {"mysql", "sqlite"}
  BY TrafficAssumption DEF GuestInv, Commit, TypeOK, DBTypeOK
<1>2. /\ at'[p] = "idle"
      /\ \A q \in Proc \ {p} :
           at'[q] = at[q] /\ target'[q] = target[q] /\ copy'[q] = copy[q]
      /\ \A x \in Room \cup Order : \A q \in Proc \ {p} : lock[x] = q <=> lock'[x] = q
  BY <1>1, FinishedFits
<1>3. RequestInv(p)'
  BY <1>2 DEF RequestInv, GuestSteps, CreatorHoldsFreeNights, PayerHoldsItsOrder
<1>4. ASSUME NEW q \in Proc \ {p} PROVE RequestInv(q)'
  <2>1. RequestInv(q)
    BY DEF GuestInv, RequestInv
  <2>2. ~StillCurrent(q)' \/ engine = "mysql"
    BY <1>1 DEF StillCurrent
  <2>3. CreatorHoldsFreeNights(q)'
    <3> SUFFICES ASSUME at[q] = "creating"
                 PROVE  /\ engine = "mysql" => lock'[copy[q].room] = q
                        /\ copy[q].status = "pending"
                        /\ StillCurrent(q)' => DateConflicts(copy[q].room, copy[q].checkIn,
                                                             copy[q].checkOut, {})' = {}
      BY <1>2 DEF CreatorHoldsFreeNights, DateConflicts, Overlaps
    <3>1. copy[q].room \in Room
      BY <1>1, RowFits DEF TypeOK, RequestTypeOK
    <3> QED BY <1>2, <2>1, <2>2, <3>1 DEF RequestInv, CreatorHoldsFreeNights, StillCurrent
  <2>4. PayerHoldsItsOrder(q)'
    <3> SUFFICES ASSUME at[q] = "paying"
                 PROVE  /\ engine = "mysql" => lock'[target[q]] = q
                        /\ copy[q].status = "pending"
                        /\ StillCurrent(q)' => orders'[target[q]] = copy[q]
      BY <1>2 DEF PayerHoldsItsOrder
    <3>1. target[q] \in Order
      BY <1>1, HeldOrder DEF Step
    <3> QED BY <1>2, <2>1, <2>2, <3>1 DEF RequestInv, PayerHoldsItsOrder, StillCurrent
  <2> QED BY <1>2, <2>1, <2>3, <2>4 DEF RequestInv
<1> QED BY <1>3, <1>4

\* A request's reading step leaves the tables and the other requests alone.
LEMMA ReadKeepsGuestInv ==
    ASSUME GuestInv, TypeOK', NEW p \in Proc, RequestInv(p)',
           UNCHANGED <<engine, tables>>,
           \A q \in Proc \ {p} :
             /\ at'[q] = at[q] /\ target'[q] = target[q] /\ copy'[q] = copy[q]
             /\ q \in fresh <=> q \in fresh'
             /\ \A x \in Room \cup Order : lock[x] = q <=> lock'[x] = q
    PROVE  GuestInv'
<1>1. NoDoubleBooking'
  BY DEF GuestInv, NoDoubleBooking, Overlaps, tables
<1>2. ASSUME NEW q \in Proc \ {p} PROVE RequestInv(q)'
  <2>1. RequestInv(q) /\ TypeOK
    BY DEF GuestInv, RequestInv
  <2>2. CreatorHoldsFreeNights(q)'
    <3>1. at[q] = "creating" => copy[q].room \in Room
      BY <2>1, RowFits DEF TypeOK, RequestTypeOK
    <3> QED BY <2>1, <3>1
            DEF RequestInv, CreatorHoldsFreeNights, StillCurrent, DateConflicts, Overlaps, tables
  <2>3. PayerHoldsItsOrder(q)'
    <3>1. at[q] = "paying" => target[q] \in Order
      BY <2>1, HeldOrder DEF Step
    <3> QED BY <2>1, <3>1 DEF RequestInv, PayerHoldsItsOrder, StillCurrent, tables
  <2> QED BY <2>1, <2>2, <2>3 DEF RequestInv
<1> QED BY <1>1, <1>2 DEF GuestInv, RequestInv

\* What a request counts covers what it asks for: the hours of the zone can only
\* add the stays that begin on its last day.
LEMMA AskedEndIsLater ==
    ASSUME TypeOK, NEW r, NEW from, NEW to \in Day,
           DateConflicts(r, from, AskedEnd(to), {}) = {}
    PROVE  DateConflicts(r, from, to, {}) = {}
<1>1. to \in Int /\ AskedEnd(to) \in Int /\ AskedEnd(to) >= to
  BY ZoneAssumption, BoundsAssumption DEF AskedEnd, Day
<1>2. ASSUME NEW o \in DOMAIN orders, orders[o].checkIn < to
      PROVE  orders[o].checkIn < AskedEnd(to)
  <2>1. orders[o].checkIn \in Int
    BY RowFits DEF TypeOK, DBTypeOK
  <2> QED BY <1>1, <1>2, <2>1
<1> QED BY <1>2 DEF DateConflicts, Overlaps

LEMMA CreateReadKeepsGuestInv ==
    ASSUME GuestInv, NEW p \in Proc, NEW r \in Room, NEW from \in Day, NEW to \in Day,
           CreateOrderRead(p, r, from, to)
    PROVE  GuestInv'
<1>1. TypeOK /\ TypeOK'
  BY CreateReadKeepsType DEF GuestInv
<1>2. PICK row : /\ Holding(p, "creating", None, row)
                 /\ row.room = r /\ row.checkIn = from /\ row.checkOut = to
                 /\ row.status = "pending"
  BY DEF CreateOrderRead
<1>3. /\ DateConflicts(r, from, to, {}) = {}
      /\ SelectForUpdate(p, r)
      /\ UNCHANGED <<engine, tables>>
  BY <1>1, AskedEndIsLater DEF CreateOrderRead
<1>4. /\ at'[p] = "creating" /\ copy'[p] = row
      /\ \A q \in Proc \ {p} :
           at'[q] = at[q] /\ target'[q] = target[q] /\ copy'[q] = copy[q]
  BY <1>1, <1>2 DEF Holding, TypeOK, DBTypeOK
<1>5. /\ \A q \in Proc \ {p} : q \in fresh <=> q \in fresh'
      /\ \A y \in Room \cup Order : \A q \in Proc \ {p} : lock[y] = q <=> lock'[y] = q
      /\ engine = "mysql" => lock'[r] = p
  BY <1>1, <1>3, SelectForUpdateFits
<1>6. RequestInv(p)'
  <2>1. DateConflicts(r, from, to, {})' = {}
    BY <1>3 DEF DateConflicts, Overlaps, tables
  <2> QED BY <1>2, <1>3, <1>4, <1>5, <2>1
          DEF RequestInv, GuestSteps, CreatorHoldsFreeNights, PayerHoldsItsOrder,
              DateConflicts, Overlaps
<1> QED BY <1>1, <1>3, <1>4, <1>5, <1>6, ReadKeepsGuestInv

LEMMA RequestKeepsGuestInv ==
    ASSUME Handlers \subseteq GuestHandlers, GuestInv, NEW p \in Proc,
           \/ \E o \in Order : OrderRequest(p, o)
           \/ \E r \in Room : RoomRequest(p, r)
    PROVE  GuestInv'
<1>1. TypeOK /\ TypeOK'
  BY RequestKeepsType DEF GuestInv
<1> USE DEF Step
<1>2. ASSUME NEW o \in Order, CancelOrderRead(p, o) PROVE GuestInv'
  <2>1. /\ Holding(p, "cancelling", o, orders[o]) /\ o \in DOMAIN orders
        /\ UNCHANGED <<engine, tables, lock, fresh>>
    BY <1>2 DEF CancelOrderRead, Read
  <2>2. /\ at'[p] = "cancelling"
        /\ \A q \in Proc \ {p} :
             at'[q] = at[q] /\ target'[q] = target[q] /\ copy'[q] = copy[q]
    BY <1>1, <2>1 DEF Holding, TypeOK, DBTypeOK
  <2>3. RequestInv(p)'
    BY <2>2 DEF RequestInv, GuestSteps, CreatorHoldsFreeNights, PayerHoldsItsOrder
  <2> QED BY <1>1, <2>1, <2>2, <2>3, ReadKeepsGuestInv
<1>3. ASSUME NEW o \in Order, CreatePaymentRead(p, o) PROVE GuestInv'
  <2>1. /\ Holding(p, "paying", o, orders[o]) /\ o \in DOMAIN orders
        /\ orders[o].status = "pending" /\ SelectForUpdate(p, o)
        /\ UNCHANGED <<engine, tables>>
    BY <1>3 DEF CreatePaymentRead
  <2>2. /\ at'[p] = "paying" /\ target'[p] = o /\ copy'[p] = orders[o]
        /\ \A q \in Proc \ {p} :
             at'[q] = at[q] /\ target'[q] = target[q] /\ copy'[q] = copy[q]
    BY <1>1, <2>1 DEF Holding, TypeOK, DBTypeOK
  <2>3. /\ \A q \in Proc \ {p} : q \in fresh <=> q \in fresh'
        /\ \A y \in Room \cup Order : \A q \in Proc \ {p} : lock[y] = q <=> lock'[y] = q
        /\ engine = "mysql" => lock'[o] = p
    BY <1>1, <2>1, SelectForUpdateFits
  <2>4. RequestInv(p)'
    BY <2>1, <2>2, <2>3
       DEF RequestInv, GuestSteps, CreatorHoldsFreeNights, PayerHoldsItsOrder, tables
  <2> QED BY <1>1, <2>1, <2>2, <2>3, <2>4, ReadKeepsGuestInv
<1>4. ASSUME NEW r \in Room, NEW status \in RoomStatus, UpdateRoomRead(p, r, status)
      PROVE  GuestInv'
  <2>1. /\ Holding(p, "updating_room", r, [status |-> status])
        /\ UNCHANGED <<engine, tables, lock, fresh>>
    BY <1>4 DEF UpdateRoomRead
  <2>2. /\ at'[p] = "updating_room"
        /\ \A q \in Proc \ {p} :
             at'[q] = at[q] /\ target'[q] = target[q] /\ copy'[q] = copy[q]
    BY <1>1, <2>1 DEF Holding, TypeOK, DBTypeOK
  <2>3. RequestInv(p)'
    BY <2>2 DEF RequestInv, GuestSteps, CreatorHoldsFreeNights, PayerHoldsItsOrder
  <2> QED BY <1>1, <2>1, <2>2, <2>3, ReadKeepsGuestInv
<1>5. "check_in" \notin Handlers /\ "check_out" \notin Handlers /\ "extend" \notin Handlers
  BY DEF GuestHandlers
<1> QED BY <1>2, <1>3, <1>4, <1>5, CreateReadKeepsGuestInv
        DEF OrderRequest, RoomRequest, CheckInRead, CheckOutRead, ExtendStayRead

\* The insert: the room's lock keeps other creators of the room out on MySQL.
LEMMA InsertKeepsGuestInv ==
    ASSUME GuestInv, NEW p \in Proc, NEW o \in Order, CreateOrderInsert(p, o), TypeOK'
    PROVE  GuestInv'
<1> DEFINE new == copy[p]
<1>1. /\ TypeOK /\ NoDoubleBooking /\ at[p] = "creating"
      /\ o \notin DOMAIN orders /\ StillCurrent(p)
      /\ Save(o, new) /\ Commit(p) /\ UNCHANGED engine
  BY DEF GuestInv, CreateOrderInsert
<1>2. new \in OrderRow /\ new.room \in Room
  BY <1>1, RowFits DEF TypeOK, RequestTypeOK
<1>3. /\ engine = "mysql" => lock[new.room] = p
      /\ DateConflicts(new.room, new.checkIn, new.checkOut, {}) = {}
  BY <1>1 DEF GuestInv, CreatorHoldsFreeNights
<1>4. /\ DOMAIN orders' = DOMAIN orders \cup {o}
      /\ orders'[o] = new
      /\ \A x \in DOMAIN orders : orders'[x] = orders[x]
  BY <1>1, <1>2, SaveFits
<1>5. NoDoubleBooking'
  <2>1. \A x \in DOMAIN orders :
          (orders[x].room = new.room /\ orders[x].status \in Active)
            => ~(orders[x].checkIn < new.checkOut /\ orders[x].checkOut > new.checkIn)
    BY <1>3 DEF DateConflicts, Overlaps
  <2>2. new.checkIn \in Int /\ new.checkOut \in Int
    BY <1>2, RowFits
  <2>3. \A x \in DOMAIN orders : orders[x].checkIn \in Int /\ orders[x].checkOut \in Int
    BY <1>1, RowFits DEF TypeOK, DBTypeOK
  <2> HIDE DEF new
  <2> SUFFICES ASSUME NEW a \in DOMAIN orders', NEW b \in DOMAIN orders', a # b,
                      orders'[a].room = orders'[b].room,
                      orders'[a].status \in Active, orders'[b].status \in Active
               PROVE  ~(orders'[a].checkIn < orders'[b].checkOut
                          /\ orders'[a].checkOut > orders'[b].checkIn)
    BY DEF NoDoubleBooking, Overlaps
  <2>4. CASE a # o /\ b # o
    BY <1>1, <1>4, <2>4 DEF NoDoubleBooking, Overlaps
  <2>5. CASE a = o
    BY <1>4, <2>1, <2>2, <2>3, <2>5
  <2>6. CASE b = o
    BY <1>4, <2>1, <2>6
  <2> QED BY <2>4, <2>5, <2>6
<1>6. ASSUME engine = "mysql", NEW q \in Proc \ {p}
      PROVE  /\ at[q] = "creating" =>
                  DateConflicts(copy[q].room, copy[q].checkIn, copy[q].checkOut, {})' = {}
             /\ at[q] = "paying" => orders'[target[q]] = orders[target[q]]
  <2>1. ASSUME at[q] = "creating"
        PROVE  DateConflicts(copy[q].room, copy[q].checkIn, copy[q].checkOut, {})' = {}
    <3>1. /\ lock[copy[q].room] = q
          /\ DateConflicts(copy[q].room, copy[q].checkIn, copy[q].checkOut, {}) = {}
      BY <1>6, <2>1 DEF GuestInv, CreatorHoldsFreeNights, StillCurrent
    <3>2. copy[q].room # new.room
      BY <1>3, <1>6, <3>1
    <3>3. copy'[q] = copy[q]
      BY <1>1, FinishedFits DEF Commit
    <3> HIDE DEF new
    <3> QED BY <1>4, <3>1, <3>2, <3>3 DEF DateConflicts, Overlaps
  <2>2. at[q] = "paying" => target[q] \in DOMAIN orders
    BY <1>1, HeldOrder DEF Step
  <2> QED BY <1>4, <2>1, <2>2
<1>7. \A q \in Proc : RequestInv(q)'
  BY <1>1, <1>6, CommitKeepsOthers
<1> QED BY <1>5, <1>7 DEF GuestInv, RequestInv

\* A save of a request that takes no night and waits for the order's lock.
LEMMA SaveKeepsGuestInv ==
    ASSUME GuestInv, TypeOK', NEW p \in Proc, NEW row \in OrderRow,
           target[p] \in Order, Save(target[p], row), TakesNoNight(target[p], row),
           CanWrite(p, {target[p]}), Commit(p), UNCHANGED engine
    PROVE  GuestInv'
<1>1. TypeOK /\ NoDoubleBooking
  BY DEF GuestInv
<1>2. /\ NoDoubleBooking'
      /\ \A r, from, to : DateConflicts(r, from, to, {})' \subseteq DateConflicts(r, from, to, {})
  BY <1>1, NoNightTaken
<1>3. ASSUME engine = "mysql", NEW q \in Proc \ {p}
      PROVE  /\ at[q] = "creating" =>
                  DateConflicts(copy[q].room, copy[q].checkIn, copy[q].checkOut, {})' = {}
             /\ at[q] = "paying" => orders'[target[q]] = orders[target[q]]
  <2>1. copy'[q] = copy[q]
    BY <1>1, FinishedFits DEF Commit
  <2>2. at[q] = "creating" =>
          DateConflicts(copy[q].room, copy[q].checkIn, copy[q].checkOut, {})' = {}
    <3>1. at[q] = "creating" =>
            DateConflicts(copy[q].room, copy[q].checkIn, copy[q].checkOut, {}) = {}
      BY <1>3 DEF GuestInv, CreatorHoldsFreeNights, StillCurrent
    <3>2. DateConflicts(copy[q].room, copy[q].checkIn, copy[q].checkOut, {})' \subseteq
            DateConflicts(copy[q].room, copy[q].checkIn, copy[q].checkOut, {})
      BY <1>2, <2>1 DEF DateConflicts, Overlaps
    <3> QED BY <3>1, <3>2
  <2>3. ASSUME at[q] = "paying" PROVE orders'[target[q]] = orders[target[q]]
    <3>1. lock[target[q]] = q /\ target[q] \in DOMAIN orders
      BY <1>1, <1>3, <2>3, HeldOrder DEF GuestInv, PayerHoldsItsOrder, Step
    <3>2. target[q] # target[p]
      BY <3>1, KeysAssumption DEF CanWrite
    <3> QED BY <1>1, <3>1, <3>2, SaveFits
  <2> QED BY <2>2, <2>3
<1>4. \A q \in Proc : RequestInv(q)'
  BY <1>3, CommitKeepsOthers
<1> QED BY <1>2, <1>4 DEF GuestInv, RequestInv

LEMMA ContinueKeepsGuestInv ==
    ASSUME GuestInv, NEW p \in Proc, Continue(p)
    PROVE  GuestInv'
<1>1. /\ TypeOK /\ TypeOK' /\ NoDoubleBooking /\ at[p] \in GuestSteps
  BY ContinueKeepsType DEF GuestInv
<1> USE DEF Step
<1>2. CASE \E o \in Order : CreateOrderInsert(p, o)
  BY <1>1, <1>2, InsertKeepsGuestInv
<1>3. CASE CancelOrderSave(p)
  <2> DEFINE row == [copy[p] EXCEPT !.status = "cancelled", !.cancelReason = "guest"]
  <2>1. target[p] \in Order /\ copy[p] \in OrderRow
    BY <1>1, <1>3, HeldOrder DEF CancelOrderSave
  <2>2. row \in OrderRow /\ row.status = "cancelled"
    BY <2>1, RowFits DEF OrderRow
  <2>3. TakesNoNight(target[p], row)
    BY <2>2 DEF TakesNoNight, Active
  <2>4. /\ CanWrite(p, {target[p]}) /\ Save(target[p], row) /\ Commit(p)
        /\ UNCHANGED engine
    BY <1>3 DEF CancelOrderSave
  <2> HIDE DEF row
  <2> QED BY <1>1, <2>1, <2>2, <2>3, <2>4, SaveKeepsGuestInv
<1>4. CASE CreatePaymentSave(p)
  <2> DEFINE row == [copy[p] EXCEPT !.status = "paid"]
  <2>1. target[p] \in Order /\ target[p] \in DOMAIN orders /\ copy[p] \in OrderRow
    BY <1>1, <1>4, HeldOrder DEF CreatePaymentSave
  <2>2. row \in OrderRow /\ StayOf(row) = StayOf(copy[p])
    BY <2>1, RowFits DEF OrderRow, OrderStatus, StayOf
  <2>3. orders[target[p]] = copy[p] /\ copy[p].status = "pending"
    BY <1>4 DEF CreatePaymentSave, GuestInv, PayerHoldsItsOrder
  <2>4. TakesNoNight(target[p], row)
    BY <2>1, <2>2, <2>3 DEF TakesNoNight, Active
  <2>5. /\ CanWrite(p, {target[p]}) /\ Save(target[p], row) /\ Commit(p)
        /\ UNCHANGED engine
    BY <1>4 DEF CreatePaymentSave
  <2> HIDE DEF row
  <2> QED BY <1>1, <2>1, <2>2, <2>4, <2>5, SaveKeepsGuestInv
<1>5. CASE UpdateRoomSave(p)
  <2>1. Commit(p) /\ UNCHANGED <<engine, orders>>
    BY <1>5 DEF UpdateRoomSave
  <2>2. NoDoubleBooking'
    BY <1>1, <2>1 DEF NoDoubleBooking, Overlaps
  <2>3. ASSUME engine = "mysql", NEW q \in Proc \ {p}, at[q] = "creating"
        PROVE  DateConflicts(copy[q].room, copy[q].checkIn, copy[q].checkOut, {})' = {}
    <3>1. DateConflicts(copy[q].room, copy[q].checkIn, copy[q].checkOut, {}) = {}
      BY <2>3 DEF GuestInv, CreatorHoldsFreeNights, StillCurrent
    <3>2. copy'[q] = copy[q]
      BY <1>1, <2>1, FinishedFits DEF Commit
    <3> QED BY <2>1, <3>1, <3>2 DEF DateConflicts, Overlaps
  <2>4. \A q \in Proc : RequestInv(q)'
    BY <2>1, <2>3, CommitKeepsOthers
  <2> QED BY <1>1, <2>2, <2>4 DEF GuestInv, RequestInv
<1>6. CASE Rollback(p)
  <2>1. /\ Finished(p) /\ fresh' = fresh \ {p}
        /\ UNCHANGED <<engine, tables>>
    BY <1>6 DEF Rollback
  <2>2. /\ at'[p] = "idle"
        /\ \A q \in Proc \ {p} :
             at'[q] = at[q] /\ target'[q] = target[q] /\ copy'[q] = copy[q]
        /\ \A x \in Room \cup Order : \A q \in Proc \ {p} : lock[x] = q <=> lock'[x] = q
    BY <1>1, <2>1, FinishedFits
  <2>3. RequestInv(p)'
    BY <2>2 DEF RequestInv, GuestSteps, CreatorHoldsFreeNights, PayerHoldsItsOrder
  <2> QED BY <1>1, <2>1, <2>2, <2>3, ReadKeepsGuestInv
<1>7. /\ ~CheckInSave(p) /\ ~CheckOutSave(p) /\ ~ExtendStaySave(p)
      /\ \A n \in 1 .. MaxDay : ~ExtendStayCheck(p, n)
  BY <1>1 DEF GuestSteps, CheckInSave, CheckOutSave, ExtendStaySave, ExtendStayCheck
<1> QED BY <1>2, <1>3, <1>4, <1>5, <1>6, <1>7 DEF Continue

LEMMA CronKeepsGuestInv ==
    ASSUME GuestInv, Sweep \/ \E o \in Order : Age(o)
    PROVE  GuestInv'
<1>1. TypeOK /\ TypeOK' /\ NoDoubleBooking
  BY CronKeepsType DEF GuestInv
<1>2. ASSUME UNCHANGED <<engine, orders, lock, fresh, requests>> PROVE GuestInv'
  BY <1>1, <1>2
     DEF GuestInv, NoDoubleBooking, CreatorHoldsFreeNights, PayerHoldsItsOrder,
         StillCurrent, DateConflicts, Overlaps, requests
<1>3. ASSUME NEW o \in Order, SweepSave(o) PROVE GuestInv'
  <2> DEFINE row == [batch[o] EXCEPT !.status = "cancelled", !.cancelReason = "timeout"]
  <2>1. row \in OrderRow /\ row.status = "cancelled" /\ Save(o, row)
    BY <1>1, <1>3, SweepSaveFits DEF OrderRow
  <2>2. TakesNoNight(o, row)
    BY <2>1 DEF TakesNoNight, Active
  <2> HIDE DEF row
  <2>3. /\ NoDoubleBooking'
        /\ \A r, from, to : DateConflicts(r, from, to, {})' \subseteq
                              DateConflicts(r, from, to, {})
    BY <1>1, <2>1, <2>2, NoNightTaken
  <2>4. /\ lock[o] = None /\ fresh' = {} /\ UNCHANGED <<engine, lock, requests>>
        /\ engine \in {"mysql", "sqlite"}
    BY <1>1, <1>3, TrafficAssumption DEF SweepSave, TypeOK, DBTypeOK
  <2>5. ASSUME NEW q \in Proc PROVE RequestInv(q)'
    <3>1. RequestInv(q)
      BY DEF GuestInv, RequestInv
    <3>2. DateConflicts(copy[q].room, copy[q].checkIn, copy[q].checkOut, {})' \subseteq
            DateConflicts(copy[q].room, copy[q].checkIn, copy[q].checkOut, {})
      BY <2>3, <2>4 DEF DateConflicts, Overlaps, requests
    <3>3. CreatorHoldsFreeNights(q)'
      BY <2>4, <3>1, <3>2 DEF RequestInv, CreatorHoldsFreeNights, StillCurrent, requests
    <3>4. PayerHoldsItsOrder(q)'
      <4>1. ASSUME at[q] = "paying", engine = "mysql"
            PROVE  orders'[target[q]] = orders[target[q]]
        <5>1. lock[target[q]] = q /\ target[q] \in DOMAIN orders
          BY <1>1, <3>1, <4>1, HeldOrder DEF RequestInv, PayerHoldsItsOrder, Step
        <5>2. target[q] # o
          BY <2>4, <5>1, KeysAssumption
        <5> QED BY <1>1, <2>1, <5>1, <5>2, SaveFits
      <4> QED BY <2>4, <3>1, <4>1 DEF RequestInv, PayerHoldsItsOrder, StillCurrent, requests
    <3> QED BY <2>4, <3>1, <3>3, <3>4 DEF RequestInv, requests
  <2> QED BY <1>1, <2>3, <2>5 DEF GuestInv, RequestInv
<1> QED BY <1>2, <1>3 DEF Sweep, Age, SweepRead, SweepFail, tables

(***************************************************************************)
(* In the traffic of guests, room updates and the sweep the nights         *)
(* CreateOrder has counted as free stay free until it inserts, and         *)
(* PaymentService.Create's copy stays the order's row, by the row lock on  *)
(* MySQL and until another commit overtakes it on SQLite.                  *)
(***************************************************************************)
THEOREM GuestInvariant ==
    ASSUME Handlers \subseteq GuestHandlers
    PROVE  Spec => []GuestInv
<1>1. Init => GuestInv
  BY DEF Init, DBInit, GuestInv, TypeOK, DBTypeOK, RequestTypeOK, Step, RoomStatus,
         NoDoubleBooking, GuestSteps, CreatorHoldsFreeNights, PayerHoldsItsOrder
<1>2. GuestInv /\ [Next]_vars => GuestInv'
  <2> SUFFICES ASSUME GuestInv, [Next]_vars PROVE GuestInv'
    OBVIOUS
  <2>1. CASE UNCHANGED vars
    BY <2>1 DEF vars, GuestInv, TypeOK, DBTypeOK, RequestTypeOK, NoDoubleBooking, Overlaps,
                CreatorHoldsFreeNights, PayerHoldsItsOrder, StillCurrent, DateConflicts
  <2>2. CASE Next
    BY <2>2, RequestKeepsGuestInv, ContinueKeepsGuestInv, CronKeepsGuestInv DEF Next
  <2> QED BY <2>1, <2>2
<1> QED BY <1>1, <1>2, PTL DEF Spec

(***************************************************************************)
(* In a server that takes bookings, payments, cancellations, room updates  *)
(* and the sweep, in any number and interleaving and on either database, no*)
(* room is ever booked twice for a night.  The assumption is needed: with  *)
(* check-in added TLC finds a double booking (late_check_in).              *)
(***************************************************************************)
THEOREM GuestsNeverDoubleBook ==
    ASSUME Handlers \subseteq GuestHandlers
    PROVE  Spec => []NoDoubleBooking
<1>1. GuestInv => NoDoubleBooking
  BY DEF GuestInv
<1> QED BY <1>1, GuestInvariant, PTL
=============================================================================
