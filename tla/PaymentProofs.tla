---------------------------- MODULE PaymentProofs ----------------------------
(***************************************************************************)
(* Proofs that payments agree with orders for every set of rooms, orders   *)
(* and requests, with every handler in the traffic and on both databases.  *)
(***************************************************************************)
EXTENDS HotelBookingProofs

\* What PaidInv says of one request.
RequestPaidInv(p) ==
    /\ at[p] = "creating" => copy[p].status = "pending"
    /\ PayerIsAlone(p)
    /\ StaffCopyIsPaid(p)

\* A request's reading step leaves the tables and the other requests alone.
LEMMA ReadKeepsPaidInv ==
    ASSUME PaidInv, TypeOK', NEW p \in Proc, RequestPaidInv(p)',
           UNCHANGED <<engine, tables>>,
           \A q \in Proc \ {p} :
             /\ at'[q] = at[q] /\ target'[q] = target[q] /\ copy'[q] = copy[q]
             /\ q \in fresh <=> q \in fresh'
             /\ \A x \in Room \cup Order : lock[x] = q <=> lock'[x] = q
    PROVE  PaidInv'
<1>1. PaidOnce' /\ \A o \in Order \ DOMAIN orders' : payments'[o] = <<>>
  BY DEF PaidInv, PaidOnce, tables
<1>2. ASSUME NEW q \in Proc \ {p} PROVE RequestPaidInv(q)'
  <2>1. RequestPaidInv(q) /\ TypeOK
    BY DEF PaidInv, RequestPaidInv
  <2>2. at[q] = "paying" => target[q] \in Order
    BY <2>1, HeldOrder DEF Step
  <2> QED BY <2>1, <2>2
          DEF RequestPaidInv, PayerIsAlone, StaffCopyIsPaid, StillCurrent, tables
<1> QED BY <1>1, <1>2 DEF PaidInv, RequestPaidInv

\* A request that holds a copy of an order of a given status.
LEMMA OrderReadKeepsPaidInv ==
    ASSUME PaidInv, NEW p \in Proc, NEW o \in Order, NEW allowed,
           NEW step \in {"cancelling", "checking_in", "checking_out", "extending"},
           step # "cancelling" =>
             allowed = {IF step = "checking_in" THEN "paid" ELSE "checked_in"},
           Read(p, o, step, allowed)
    PROVE  PaidInv'
<1>1. TypeOK /\ TypeOK'
  BY OrderReadKeepsType DEF PaidInv, Step
<1>2. /\ o \in DOMAIN orders /\ orders[o].status \in allowed
      /\ Holding(p, step, o, orders[o])
      /\ UNCHANGED <<engine, tables, lock, fresh>>
  BY DEF Read
<1>3. /\ at'[p] = step /\ target'[p] = o /\ copy'[p] = orders[o]
      /\ \A q \in Proc \ {p} :
           at'[q] = at[q] /\ target'[q] = target[q] /\ copy'[q] = copy[q]
  BY <1>1, <1>2 DEF Holding, TypeOK, DBTypeOK
<1>4. RequestPaidInv(p)'
  BY <1>2, <1>3 DEF RequestPaidInv, PayerIsAlone, StaffCopyIsPaid, PaidInv, PaidOnce, tables
<1> QED BY <1>1, <1>2, <1>3, <1>4, ReadKeepsPaidInv

LEMMA RequestKeepsPaidInv ==
    ASSUME PaidInv, NEW p \in Proc,
           \/ \E o \in Order : OrderRequest(p, o)
           \/ \E r \in Room : RoomRequest(p, r)
    PROVE  PaidInv'
<1>1. TypeOK /\ TypeOK'
  BY RequestKeepsType DEF PaidInv
<1>2. ASSUME NEW o \in Order, OrderRequest(p, o) PROVE PaidInv'
  <2>1. CASE CancelOrderRead(p, o)
    BY <2>1, OrderReadKeepsPaidInv DEF CancelOrderRead
  <2>2. CASE CheckInRead(p, o)
    BY <2>2, OrderReadKeepsPaidInv DEF CheckInRead
  <2>3. CASE CheckOutRead(p, o)
    BY <2>3, OrderReadKeepsPaidInv DEF CheckOutRead
  <2>4. CASE ExtendStayRead(p, o)
    BY <2>4, OrderReadKeepsPaidInv DEF ExtendStayRead
  <2>5. CASE CreatePaymentRead(p, o)
    <3>1. /\ Holding(p, "paying", o, orders[o]) /\ SelectForUpdate(p, o)
          /\ payments[o] = <<>> /\ orders[o].status = "pending"
          /\ UNCHANGED <<engine, tables>>
      BY <2>5 DEF CreatePaymentRead
    <3>2. /\ at'[p] = "paying" /\ target'[p] = o
          /\ \A q \in Proc \ {p} :
               at'[q] = at[q] /\ target'[q] = target[q] /\ copy'[q] = copy[q]
      BY <1>1, <3>1 DEF Holding, TypeOK, DBTypeOK
    <3>3. /\ \A q \in Proc \ {p} : q \in fresh <=> q \in fresh'
          /\ \A y \in Room \cup Order : \A q \in Proc \ {p} : lock[y] = q <=> lock'[y] = q
          /\ engine = "mysql" => lock'[o] = p
      BY <1>1, <3>1, SelectForUpdateFits
    <3>4. RequestPaidInv(p)'
      BY <3>1, <3>2, <3>3 DEF RequestPaidInv, PayerIsAlone, StaffCopyIsPaid, tables
    <3> QED BY <1>1, <3>1, <3>2, <3>3, <3>4, ReadKeepsPaidInv
  <2> QED BY <1>2, <2>1, <2>2, <2>3, <2>4, <2>5 DEF OrderRequest
<1>3. ASSUME NEW r \in Room, NEW from \in Day, NEW to \in Day, CreateOrderRead(p, r, from, to)
      PROVE  PaidInv'
  <2>1. PICK row : Holding(p, "creating", None, row) /\ row.status = "pending"
    BY <1>3 DEF CreateOrderRead
  <2>2. SelectForUpdate(p, r) /\ UNCHANGED <<engine, tables>>
    BY <1>3 DEF CreateOrderRead
  <2>3. /\ at'[p] = "creating" /\ copy'[p] = row
        /\ \A q \in Proc \ {p} :
             at'[q] = at[q] /\ target'[q] = target[q] /\ copy'[q] = copy[q]
    BY <1>1, <2>1 DEF Holding, TypeOK, DBTypeOK
  <2>4. /\ \A q \in Proc \ {p} : q \in fresh <=> q \in fresh'
        /\ \A y \in Room \cup Order : \A q \in Proc \ {p} : lock[y] = q <=> lock'[y] = q
    BY <1>1, <2>2, SelectForUpdateFits
  <2>5. RequestPaidInv(p)'
    BY <2>1, <2>3 DEF RequestPaidInv, PayerIsAlone, StaffCopyIsPaid
  <2> QED BY <1>1, <2>2, <2>3, <2>4, <2>5, ReadKeepsPaidInv
<1>4. ASSUME NEW r \in Room, NEW status \in RoomStatus, UpdateRoomRead(p, r, status)
      PROVE  PaidInv'
  <2>1. /\ Holding(p, "updating_room", r, [status |-> status])
        /\ UNCHANGED <<engine, tables, lock, fresh>>
    BY <1>4 DEF UpdateRoomRead
  <2>2. /\ at'[p] = "updating_room"
        /\ \A q \in Proc \ {p} :
             at'[q] = at[q] /\ target'[q] = target[q] /\ copy'[q] = copy[q]
    BY <1>1, <2>1 DEF Holding, TypeOK, DBTypeOK
  <2>3. RequestPaidInv(p)'
    BY <2>2 DEF RequestPaidInv, PayerIsAlone, StaffCopyIsPaid
  <2> QED BY <1>1, <2>1, <2>2, <2>3, ReadKeepsPaidInv
<1> QED BY <1>2, <1>3, <1>4 DEF RoomRequest

\* A commit that takes no payment back, and on MySQL leaves an order that another
\* request is paying as it is, leaves the other requests right.
LEMMA CommitKeepsPayers ==
    ASSUME PaidInv, NEW p \in Proc, Commit(p), UNCHANGED engine,
           \A o \in Order : payments[o] # <<>> => payments'[o] # <<>>,
           engine = "mysql" =>
             \A q \in Proc \ {p} :
               at[q] = "paying" => /\ payments'[target[q]] = payments[target[q]]
                                   /\ orders'[target[q]] = orders[target[q]]
    PROVE  \A q \in Proc : RequestPaidInv(q)'
<1>1. /\ TypeOK /\ Finished(p) /\ fresh' = {} /\ engine \in {"mysql", "sqlite"}
  BY TrafficAssumption DEF PaidInv, Commit, TypeOK, DBTypeOK
<1>2. /\ at'[p] = "idle"
      /\ \A q \in Proc \ {p} :
           at'[q] = at[q] /\ target'[q] = target[q] /\ copy'[q] = copy[q]
      /\ \A x \in Room \cup Order : \A q \in Proc \ {p} : lock[x] = q <=> lock'[x] = q
  BY <1>1, FinishedFits
<1>3. RequestPaidInv(p)'
  BY <1>2 DEF RequestPaidInv, PayerIsAlone, StaffCopyIsPaid
<1>4. ASSUME NEW q \in Proc \ {p} PROVE RequestPaidInv(q)'
  <2>1. RequestPaidInv(q)
    BY DEF PaidInv, RequestPaidInv
  <2>2. PayerIsAlone(q)'
    <3>1. at[q] = "paying" => target[q] \in Order
      BY <1>1, HeldOrder DEF Step
    <3> QED BY <1>1, <1>2, <2>1, <3>1 DEF RequestPaidInv, PayerIsAlone, StillCurrent
  <2>3. StaffCopyIsPaid(q)'
    <3>1. at[q] \in {"checking_in", "checking_out", "extending", "extend_checked"}
            => target[q] \in Order
      BY <1>1, HeldOrder DEF Step
    <3> QED BY <1>2, <2>1, <3>1 DEF RequestPaidInv, StaffCopyIsPaid
  <2> QED BY <1>2, <2>1, <2>2, <2>3 DEF RequestPaidInv
<1> QED BY <1>3, <1>4

\* A saved row whose status agrees with the payments keeps the tables right.
LEMMA PaidRowSaved ==
    ASSUME PaidInv, NEW id \in Order, NEW row \in OrderRow, Save(id, row),
           \A o \in Order \ {id} : payments'[o] = payments[o],
           Len(payments'[id]) <= 1,
           row.status = "pending" => payments'[id] = <<>>,
           row.status \in {"paid", "checked_in", "checked_out"} => payments'[id] # <<>>
    PROVE  PaidOnce' /\ \A o \in Order \ DOMAIN orders' : payments'[o] = <<>>
<1>1. /\ DOMAIN orders' = DOMAIN orders \cup {id}
      /\ DOMAIN orders' \subseteq Order
      /\ orders'[id] = row
      /\ \A x \in DOMAIN orders \ {id} : orders'[x] = orders[x]
  BY SaveFits DEF PaidInv
<1>2. \A o \in Order \ DOMAIN orders' : payments'[o] = <<>>
  BY <1>1 DEF PaidInv
<1>3. ASSUME NEW o \in DOMAIN orders'
      PROVE  /\ Len(payments'[o]) <= 1
             /\ orders'[o].status = "pending" => payments'[o] = <<>>
             /\ orders'[o].status \in {"paid", "checked_in", "checked_out"}
                  => payments'[o] # <<>>
  BY <1>1 DEF PaidInv, PaidOnce
<1> QED BY <1>2, <1>3 DEF PaidOnce

\* On MySQL a write leaves the orders alone that other requests are paying.
LEMMA WriteSparesPayers ==
    ASSUME PaidInv, NEW p \in Proc, NEW id \in Order, NEW row \in OrderRow,
           Save(id, row), id \in DOMAIN orders => CanWrite(p, {id}),
           engine = "mysql", NEW q \in Proc \ {p}, at[q] = "paying"
    PROVE  target[q] # id /\ orders'[target[q]] = orders[target[q]]
<1>1. target[q] \in DOMAIN orders /\ lock[target[q]] = q
  BY HeldOrder DEF PaidInv, PayerIsAlone, Step
<1>2. target[q] # id
  BY <1>1, KeysAssumption DEF CanWrite
<1> QED BY <1>1, <1>2, SaveFits DEF PaidInv

\* A save of an order that was not pending, and does not become so.
LEMMA SaveKeepsPaidInv ==
    ASSUME PaidInv, TypeOK', NEW p \in Proc, NEW id \in DOMAIN orders, NEW row \in OrderRow,
           Save(id, row), CanWrite(p, {id}), Commit(p), UNCHANGED <<engine, payments>>,
           row.status # "pending",
           row.status # "cancelled" => payments[id] # <<>>
    PROVE  PaidInv'
<1>1. id \in Order /\ Len(payments[id]) <= 1
  BY DEF PaidInv, PaidOnce, TypeOK, DBTypeOK
<1>2. PaidOnce' /\ \A o \in Order \ DOMAIN orders' : payments'[o] = <<>>
  BY <1>1, PaidRowSaved
<1>3. \A q \in Proc : RequestPaidInv(q)'
  BY <1>1, CommitKeepsPayers, WriteSparesPayers
<1> QED BY <1>2, <1>3 DEF PaidInv, RequestPaidInv

LEMMA PaymentSaveKeepsPaidInv ==
    ASSUME PaidInv, TypeOK', NEW p \in Proc, CreatePaymentSave(p)
    PROVE  PaidInv'
<1> DEFINE id == target[p]
           row == [copy[p] EXCEPT !.status = "paid"]
<1>1. TypeOK /\ at[p] = "paying" /\ id \in Order /\ copy[p] \in OrderRow
  BY HeldOrder DEF CreatePaymentSave, PaidInv, Step
<1>2. /\ payments[id] = <<>>
      /\ engine = "mysql" => lock[id] = p
  BY <1>1 DEF CreatePaymentSave, PaidInv, PayerIsAlone
<1>3. row \in OrderRow /\ row.status = "paid" /\ copy[p].totalPrice \in Nat
  BY <1>1, RowFits DEF OrderRow, OrderStatus
<1>4. /\ payments'[id] = Append(<<>>, copy[p].totalPrice)
      /\ \A o \in Order \ {id} : payments'[o] = payments[o]
  BY <1>1, <1>2 DEF CreatePaymentSave, TypeOK, DBTypeOK
<1>5. Len(payments'[id]) <= 1 /\ payments'[id] # <<>>
  BY <1>3, <1>4
<1>6. Save(id, row) /\ CanWrite(p, {id}) /\ Commit(p) /\ UNCHANGED engine
  BY DEF CreatePaymentSave
<1> HIDE DEF id, row
<1>7. ASSUME engine = "mysql", NEW q \in Proc \ {p}, at[q] = "paying"
      PROVE  /\ payments'[target[q]] = payments[target[q]]
             /\ orders'[target[q]] = orders[target[q]]
  <2>1. target[q] \in Order
    BY <1>1, <1>7, HeldOrder DEF Step
  <2>2. target[q] # id /\ orders'[target[q]] = orders[target[q]]
    BY <1>1, <1>3, <1>6, <1>7, WriteSparesPayers
  <2> QED BY <1>4, <2>1, <2>2
<1>8. PaidOnce' /\ \A o \in Order \ DOMAIN orders' : payments'[o] = <<>>
  BY <1>1, <1>3, <1>4, <1>5, <1>6, PaidRowSaved
<1>9. \A q \in Proc : RequestPaidInv(q)'
  BY <1>4, <1>5, <1>6, <1>7, CommitKeepsPayers
<1> QED BY <1>8, <1>9 DEF PaidInv, RequestPaidInv

\* CheckInSave and CheckOutSave: the copy they save was read as paid.
LEMMA SaveWithRoomKeepsPaidInv ==
    ASSUME PaidInv, TypeOK', NEW p \in Proc, NEW status \in {"checked_in", "checked_out"},
           NEW roomStatus, at[p] \in {"checking_in", "checking_out"},
           SaveWithRoom(p, status, roomStatus)
    PROVE  PaidInv'
<1> DEFINE row == [copy[p] EXCEPT !.status = status]
<1>1. TypeOK /\ target[p] \in DOMAIN orders /\ copy[p] \in OrderRow
  BY HeldOrder DEF PaidInv, Step
<1>2. row \in OrderRow /\ row.status = status
  BY <1>1, RowFits DEF OrderRow, OrderStatus
<1>3. payments[target[p]] # <<>>
  BY DEF PaidInv, StaffCopyIsPaid
<1>4. /\ Save(target[p], row) /\ CanWrite(p, {target[p]}) /\ Commit(p)
      /\ UNCHANGED <<engine, payments>>
  BY DEF SaveWithRoom, CanWrite
<1> HIDE DEF row
<1> QED BY <1>1, <1>2, <1>3, <1>4, SaveKeepsPaidInv

LEMMA ContinueKeepsPaidInv ==
    ASSUME PaidInv, NEW p \in Proc, Continue(p)
    PROVE  PaidInv'
<1>1. TypeOK /\ TypeOK'
  BY ContinueKeepsType DEF PaidInv
<1>2. ASSUME NEW o \in Order, CreateOrderInsert(p, o) PROVE PaidInv'
  <2>1. copy[p] \in OrderRow /\ copy[p].status = "pending" /\ payments[o] = <<>>
    BY <1>1, <1>2 DEF CreateOrderInsert, PaidInv, TypeOK, RequestTypeOK
  <2>2. /\ Save(o, copy[p]) /\ Commit(p) /\ UNCHANGED <<engine, payments>>
        /\ o \notin DOMAIN orders
    BY <1>2 DEF CreateOrderInsert
  <2>3. PaidOnce' /\ \A x \in Order \ DOMAIN orders' : payments'[x] = <<>>
    BY <2>1, <2>2, PaidRowSaved
  <2>4. \A q \in Proc : RequestPaidInv(q)'
    BY <2>1, <2>2, CommitKeepsPayers, WriteSparesPayers
  <2> QED BY <1>1, <2>3, <2>4 DEF PaidInv, RequestPaidInv
<1>3. CASE CancelOrderSave(p)
  <2> DEFINE row == [copy[p] EXCEPT !.status = "cancelled", !.cancelReason = "guest"]
  <2>1. target[p] \in DOMAIN orders /\ copy[p] \in OrderRow
    BY <1>1, <1>3, HeldOrder DEF CancelOrderSave, Step
  <2>2. row \in OrderRow /\ row.status = "cancelled"
    BY <2>1, RowFits DEF OrderRow
  <2>3. /\ Save(target[p], row) /\ CanWrite(p, {target[p]}) /\ Commit(p)
        /\ UNCHANGED <<engine, payments>>
    BY <1>3 DEF CancelOrderSave
  <2> HIDE DEF row
  <2> QED BY <1>1, <2>1, <2>2, <2>3, SaveKeepsPaidInv
<1>4. CASE CheckInSave(p)
  BY <1>1, <1>4, SaveWithRoomKeepsPaidInv DEF CheckInSave
<1>5. CASE CheckOutSave(p)
  BY <1>1, <1>5, SaveWithRoomKeepsPaidInv DEF CheckOutSave
<1>6. ASSUME NEW n \in 1 .. MaxDay, ExtendStayCheck(p, n) PROVE PaidInv'
  <2>0. PICK price \in Prices :
          Holding(p, "extend_checked", target[p], Extended(copy[p], n, price))
    BY <1>6 DEF ExtendStayCheck
  <2>1. /\ at[p] = "extending" /\ SelectInTx(p)
        /\ Holding(p, "extend_checked", target[p], Extended(copy[p], n, price))
        /\ UNCHANGED <<engine, tables>>
    BY <1>6, <2>0 DEF ExtendStayCheck
  <2>2. /\ at'[p] = "extend_checked" /\ target'[p] = target[p]
        /\ copy'[p] = Extended(copy[p], n, price)
        /\ \A q \in Proc \ {p} :
             at'[q] = at[q] /\ target'[q] = target[q] /\ copy'[q] = copy[q]
    BY <1>1, <2>1 DEF Holding, TypeOK, DBTypeOK
  <2>3. /\ lock' = lock
        /\ \A q \in Proc \ {p} : q \in fresh <=> q \in fresh'
    BY <2>1 DEF SelectInTx
  <2>4. copy'[p].status = copy[p].status
    <3>1. copy[p] \in OrderRow
      BY <1>1, <2>1, HeldOrder DEF Step
    <3> QED BY <2>2, <3>1 DEF Extended, OrderRow
  <2>5. RequestPaidInv(p)'
    BY <2>1, <2>2, <2>4 DEF RequestPaidInv, PayerIsAlone, StaffCopyIsPaid, PaidInv, tables
  <2> QED BY <1>1, <2>1, <2>2, <2>3, <2>5, ReadKeepsPaidInv
<1>7. CASE ExtendStaySave(p)
  <2>1. target[p] \in DOMAIN orders /\ copy[p] \in OrderRow
    BY <1>1, <1>7, HeldOrder DEF ExtendStaySave, Step
  <2>2. copy[p].status = "checked_in" /\ payments[target[p]] # <<>>
    BY <1>7 DEF ExtendStaySave, PaidInv, StaffCopyIsPaid
  <2>3. /\ Save(target[p], copy[p]) /\ CanWrite(p, {target[p]}) /\ Commit(p)
        /\ UNCHANGED <<engine, payments>>
    BY <1>7 DEF ExtendStaySave
  <2> QED BY <1>1, <2>1, <2>2, <2>3, SaveKeepsPaidInv
<1>8. CASE CreatePaymentSave(p)
  BY <1>1, <1>8, PaymentSaveKeepsPaidInv
<1>9. CASE UpdateRoomSave(p)
  <2>1. Commit(p) /\ UNCHANGED <<engine, orders, payments>>
    BY <1>9 DEF UpdateRoomSave
  <2>2. \A q \in Proc : RequestPaidInv(q)'
    BY <2>1, CommitKeepsPayers
  <2> QED BY <1>1, <2>1, <2>2 DEF PaidInv, PaidOnce, RequestPaidInv
<1>10. CASE Rollback(p)
  <2>1. Finished(p) /\ fresh' = fresh \ {p} /\ UNCHANGED <<engine, tables>>
    BY <1>10 DEF Rollback
  <2>2. /\ at'[p] = "idle"
        /\ \A q \in Proc \ {p} :
             at'[q] = at[q] /\ target'[q] = target[q] /\ copy'[q] = copy[q]
        /\ \A x \in Room \cup Order : \A q \in Proc \ {p} : lock[x] = q <=> lock'[x] = q
    BY <1>1, <2>1, FinishedFits
  <2>3. RequestPaidInv(p)'
    BY <2>2 DEF RequestPaidInv, PayerIsAlone, StaffCopyIsPaid
  <2> QED BY <1>1, <2>1, <2>2, <2>3, ReadKeepsPaidInv
<1> QED BY <1>2, <1>3, <1>4, <1>5, <1>6, <1>7, <1>8, <1>9, <1>10 DEF Continue

LEMMA CronKeepsPaidInv ==
    ASSUME PaidInv, Sweep \/ \E o \in Order : Age(o)
    PROVE  PaidInv'
<1>1. TypeOK /\ TypeOK'
  BY CronKeepsType DEF PaidInv
<1>2. ASSUME UNCHANGED <<engine, orders, payments, lock, fresh, requests>> PROVE PaidInv'
  BY <1>1, <1>2
     DEF PaidInv, PaidOnce, PayerIsAlone, StaffCopyIsPaid, StillCurrent, requests
<1>3. ASSUME NEW o \in Order, SweepSave(o) PROVE PaidInv'
  <2> DEFINE row == [batch[o] EXCEPT !.status = "cancelled", !.cancelReason = "timeout"]
  <2>1. row \in OrderRow /\ row.status = "cancelled" /\ Save(o, row)
    BY <1>1, <1>3, SweepSaveFits DEF OrderRow
  <2> HIDE DEF row
  <2>2. /\ fresh' = {} /\ UNCHANGED <<engine, payments, lock, requests>>
        /\ engine \in {"mysql", "sqlite"}
    BY <1>1, <1>3, TrafficAssumption DEF SweepSave, TypeOK, DBTypeOK
  <2>3. PaidOnce' /\ \A x \in Order \ DOMAIN orders' : payments'[x] = <<>>
    <3>1. o \in Order /\ (o \notin DOMAIN orders => payments[o] = <<>>)
      BY DEF PaidInv
    <3>2. Len(payments'[o]) <= 1
      BY <2>2, <3>1 DEF PaidInv, PaidOnce
    <3> QED BY <2>1, <2>2, <3>2, PaidRowSaved
  <2>4. ASSUME NEW q \in Proc PROVE RequestPaidInv(q)'
    <3>1. RequestPaidInv(q)
      BY DEF PaidInv, RequestPaidInv
    <3>2. ASSUME at[q] = "paying", engine = "mysql"
          PROVE  orders'[target[q]] = orders[target[q]]
      <4>1. lock[o] = None /\ lock[target[q]] = q /\ target[q] \in DOMAIN orders
        BY <1>1, <1>3, <3>1, <3>2, HeldOrder DEF SweepSave, RequestPaidInv, PayerIsAlone, Step
      <4>2. target[q] # o
        BY <4>1, KeysAssumption
      <4> QED BY <1>1, <2>1, <4>1, <4>2, SaveFits
    <3> QED BY <2>2, <3>1, <3>2
            DEF RequestPaidInv, PayerIsAlone, StaffCopyIsPaid, StillCurrent, requests
  <2> QED BY <1>1, <2>3, <2>4 DEF PaidInv, RequestPaidInv
<1> QED BY <1>2, <1>3 DEF Sweep, Age, SweepRead, SweepFail, tables

(***************************************************************************)
(* With every handler in the traffic, whoever is about to store a payment  *)
(* is alone with a pending order that has none, and what CheckIn, CheckOut *)
(* or ExtendStay hold to be saved was read from an order that had been     *)
(* paid.                                                                   *)
(***************************************************************************)
THEOREM PaidInvariant == Spec => []PaidInv
<1>1. Init => PaidInv
  BY DEF Init, DBInit, PaidInv, TypeOK, DBTypeOK, RequestTypeOK, Step, RoomStatus,
         PaidOnce, PayerIsAlone, StaffCopyIsPaid
<1>2. PaidInv /\ [Next]_vars => PaidInv'
  <2> SUFFICES ASSUME PaidInv, [Next]_vars PROVE PaidInv'
    OBVIOUS
  <2>1. CASE UNCHANGED vars
    BY <2>1 DEF vars, PaidInv, TypeOK, DBTypeOK, RequestTypeOK, PaidOnce,
                PayerIsAlone, StaffCopyIsPaid, StillCurrent
  <2>2. CASE Next
    BY <2>2, RequestKeepsPaidInv, ContinueKeepsPaidInv, CronKeepsPaidInv DEF Next
  <2> QED BY <2>1, <2>2
<1> QED BY <1>1, <1>2, PTL DEF Spec

(***************************************************************************)
(* However many requests of whatever kind run against PaymentService.Create*)
(* and the sweep, on either database, no order is charged twice, no pending*)
(* order was charged, and no guest is let in without having paid.          *)
(***************************************************************************)
THEOREM PaymentsMatchOrders == Spec => []PaidOnce
<1>1. PaidInv => PaidOnce
  BY DEF PaidInv
<1> QED BY <1>1, PaidInvariant, PTL

-----------------------------------------------------------------------------
(* Orders leave pending for good, and become paid by a payment only. *)

\* What PaidByPaymentOnly says of one step and one order.
PaysOrLeaves(o) ==
    /\ orders'[o].status = "pending" => orders[o].status = "pending"
    /\ (orders'[o].status = "paid" /\ orders[o].status # "paid")
         => orders[o].status = "pending" /\ payments'[o] # payments[o]

\* A save of a row that is neither pending nor paid.
LEMMA OtherSavePays ==
    ASSUME TypeOK, NEW id \in Order, NEW row \in OrderRow, Save(id, row),
           row.status \notin {"pending", "paid"}
    PROVE  \A o \in DOMAIN orders : PaysOrLeaves(o)
BY SaveFits DEF PaysOrLeaves

LEMMA ContinuePays ==
    ASSUME PaidInv, NEW p \in Proc, Continue(p)
    PROVE  \A o \in DOMAIN orders : PaysOrLeaves(o)
<1> DEFINE id == target[p]
           row == copy[p]
           Goal == \A o \in DOMAIN orders : PaysOrLeaves(o)
<1>1. TypeOK
  BY DEF PaidInv
<1>2. ASSUME at[p] \in Step \ {"idle", "creating", "updating_room"}
      PROVE  id \in DOMAIN orders /\ id \in Order /\ row \in OrderRow
  BY <1>1, <1>2, HeldOrder
<1>3. ASSUME NEW o \in Order, CreateOrderInsert(p, o) PROVE Goal
  <2>1. row \in OrderRow /\ o \notin DOMAIN orders /\ Save(o, row)
    BY <1>1, <1>3 DEF CreateOrderInsert, TypeOK, RequestTypeOK
  <2> QED BY <1>1, <2>1, SaveFits DEF PaysOrLeaves
<1>4. CASE CancelOrderSave(p)
  <2> DEFINE new == [row EXCEPT !.status = "cancelled", !.cancelReason = "guest"]
  <2>1. id \in Order /\ row \in OrderRow
    BY <1>2, <1>4 DEF CancelOrderSave, Step
  <2>2. new \in OrderRow /\ new.status = "cancelled"
    BY <2>1, RowFits DEF OrderRow
  <2>3. Save(id, new)
    BY <1>4 DEF CancelOrderSave
  <2> HIDE DEF new
  <2> QED BY <1>1, <2>1, <2>2, <2>3, OtherSavePays
<1>5. ASSUME NEW status \in {"checked_in", "checked_out"}, NEW roomStatus,
             at[p] \in {"checking_in", "checking_out"}, SaveWithRoom(p, status, roomStatus)
      PROVE  Goal
  <2> DEFINE new == [row EXCEPT !.status = status]
  <2>1. id \in Order /\ row \in OrderRow
    BY <1>2, <1>5 DEF Step
  <2>2. new \in OrderRow /\ new.status = status
    BY <2>1, RowFits DEF OrderRow, OrderStatus
  <2>3. Save(id, new)
    BY <1>5 DEF SaveWithRoom
  <2> HIDE DEF new
  <2> QED BY <1>1, <2>1, <2>2, <2>3, OtherSavePays
<1>6. CheckInSave(p) \/ CheckOutSave(p) => Goal
  BY <1>5 DEF CheckInSave, CheckOutSave
<1>7. CASE ExtendStaySave(p)
  <2>1. id \in Order /\ row \in OrderRow /\ Save(id, row)
    BY <1>2, <1>7 DEF ExtendStaySave, Step
  <2>2. row.status = "checked_in"
    BY <1>7 DEF ExtendStaySave, PaidInv, StaffCopyIsPaid
  <2> QED BY <1>1, <2>1, <2>2, OtherSavePays
<1>8. CASE CreatePaymentSave(p)
  <2> DEFINE new == [row EXCEPT !.status = "paid"]
  <2>1. id \in Order /\ row \in OrderRow
    BY <1>2, <1>8 DEF CreatePaymentSave, Step
  <2>2. new \in OrderRow /\ new.status = "paid" /\ row.totalPrice \in Nat
    BY <2>1, RowFits DEF OrderRow, OrderStatus
  <2>3. payments[id] = <<>> /\ orders[id].status = "pending"
    BY <1>8 DEF CreatePaymentSave, PaidInv, PayerIsAlone
  <2>4. payments'[id] = Append(<<>>, row.totalPrice)
    BY <1>1, <1>8, <2>1, <2>3 DEF CreatePaymentSave, TypeOK, DBTypeOK
  <2>5. payments'[id] # <<>>
    BY <2>2, <2>4
  <2>6. Save(id, new)
    BY <1>8 DEF CreatePaymentSave
  <2> HIDE DEF new
  <2>7. /\ orders'[id] = new
        /\ \A x \in DOMAIN orders \ {id} : orders'[x] = orders[x]
    BY <1>1, <2>1, <2>2, <2>6, SaveFits
  <2> QED BY <2>2, <2>3, <2>5, <2>7 DEF PaysOrLeaves
<1>9. ASSUME \/ UpdateRoomSave(p) \/ Rollback(p)
             \/ \E n \in 1 .. MaxDay : ExtendStayCheck(p, n)
      PROVE  Goal
  BY <1>9 DEF UpdateRoomSave, Rollback, ExtendStayCheck, tables, PaysOrLeaves
<1> QED BY <1>3, <1>4, <1>6, <1>7, <1>8, <1>9 DEF Continue

(***************************************************************************)
(* Whatever requests and sweeps save over each other, no order goes back to*)
(* pending, and none becomes paid but from pending and by a payment.       *)
(***************************************************************************)
THEOREM PaymentsMakePaid == Spec => PaidByPaymentOnly
<1>1. PaidInv /\ [Next]_vars => [\A o \in DOMAIN orders : PaysOrLeaves(o)]_vars
  <2> SUFFICES ASSUME PaidInv, Next PROVE \A o \in DOMAIN orders : PaysOrLeaves(o)
    OBVIOUS
  <2>1. ASSUME UNCHANGED orders PROVE \A o \in DOMAIN orders : PaysOrLeaves(o)
    BY <2>1 DEF PaysOrLeaves
  <2>2. ASSUME NEW p \in Proc, \/ \E o \in Order : OrderRequest(p, o)
                               \/ \E r \in Room : RoomRequest(p, r)
        PROVE  UNCHANGED orders
    BY <2>2 DEF OrderRequest, CancelOrderRead, CheckInRead, CheckOutRead, ExtendStayRead,
                Read, CreatePaymentRead, RoomRequest, CreateOrderRead, UpdateRoomRead, tables
  <2>3. ASSUME NEW o \in Order, SweepSave(o) PROVE \A x \in DOMAIN orders : PaysOrLeaves(x)
    <3> DEFINE new == [batch[o] EXCEPT !.status = "cancelled", !.cancelReason = "timeout"]
    <3>1. TypeOK /\ new \in OrderRow /\ Save(o, new) /\ new.status = "cancelled"
      BY <2>3, SweepSaveFits DEF PaidInv, OrderRow
    <3> HIDE DEF new
    <3> QED BY <3>1, OtherSavePays
  <2>4. ASSUME NEW o \in Order, Age(o) \/ SweepFail(o) PROVE UNCHANGED orders
    BY <2>4 DEF Age, SweepFail, tables
  <2>5. SweepRead => UNCHANGED orders
    BY DEF SweepRead, tables
  <2> QED BY <2>1, <2>2, <2>3, <2>4, <2>5, ContinuePays DEF Next, Sweep
<1>2. PaidByPaymentOnly <=> [][\A o \in DOMAIN orders : PaysOrLeaves(o)]_vars
  BY PTL DEF PaidByPaymentOnly, PaysOrLeaves
<1> QED BY <1>1, <1>2, PaidInvariant, PTL DEF Spec
-----------------------------------------------------------------------------
(* What was paid is the order's total.                                     *)
(*                                                                         *)
(* PaidItsBill is not inductive: a late save writes the total it read.     *)
(* What makes it one is that every row read before the guest was in, by a  *)
(* request or by the sweep, still has the total that was or will be paid,  *)
(* and that the others have at least what was paid.                        *)

Early == {"cancelling", "checking_in", "paying"}
Late == {"checking_out", "extending", "extend_checked"}

Billed(o, total) ==
    /\ payments[o] = <<>> => orders[o].totalPrice = total
    /\ \A i \in DOMAIN payments[o] : payments[o][i] = total

Covered(o, total) == \A i \in DOMAIN payments[o] : payments[o][i] <= total

OrderBilled(o) ==
    /\ Covered(o, orders[o].totalPrice)
    /\ orders[o].status \in {"pending", "paid", "cancelled"}
         => Billed(o, orders[o].totalPrice)

CopyBilled(p) ==
    /\ at[p] \in Early => Billed(target[p], copy[p].totalPrice)
    /\ at[p] \in Late => Covered(target[p], copy[p].totalPrice)

BatchBilled ==
    /\ DOMAIN batch \subseteq DOMAIN orders
    /\ \A o \in DOMAIN batch : Billed(o, batch[o].totalPrice)

BillInv ==
    /\ PaidInv
    /\ \A o \in DOMAIN orders : OrderBilled(o)
    /\ \A p \in Proc : CopyBilled(p)
    /\ BatchBilled

\* A step under which every total that was right for an order stays right.
KeepsBills(o) ==
    /\ o \in DOMAIN orders'
    /\ \A total \in Nat : Billed(o, total) => Billed(o, total)'
    /\ \A total \in Nat : (payments[o] # <<>> /\ Covered(o, total)) => Covered(o, total)'

LEMMA SameTablesKeepBills ==
    ASSUME UNCHANGED <<orders, payments>>
    PROVE  \A o \in DOMAIN orders : KeepsBills(o) /\ (OrderBilled(o) => OrderBilled(o)')
BY DEF KeepsBills, Billed, Covered, OrderBilled

\* Such a step keeps the copy of every request it does not move.
LEMMA CopyStaysBilled ==
    ASSUME BillInv, \A o \in DOMAIN orders : KeepsBills(o), NEW q \in Proc,
           at'[q] = at[q], target'[q] = target[q], copy'[q] = copy[q]
    PROVE  CopyBilled(q)'
<1>1. TypeOK /\ CopyBilled(q) /\ StaffCopyIsPaid(q)
  BY DEF BillInv, PaidInv
<1>2. CASE at[q] \in Early \cup Late
  <2>1. target[q] \in DOMAIN orders /\ copy[q].totalPrice \in Nat
    BY <1>1, <1>2, HeldOrder, RowFits DEF Early, Late, Step
  <2>2. PICK o \in DOMAIN orders : o = target[q]
    BY <2>1
  <2>3. PICK total \in Nat : total = copy[q].totalPrice
    BY <2>1
  <2>4. KeepsBills(o)
    BY <2>2
  <2>5. at[q] \in Early => Billed(o, total)'
    BY <1>1, <2>2, <2>3, <2>4 DEF CopyBilled, KeepsBills
  <2>6. at[q] \in Late => Covered(o, total)'
    <3>1. ASSUME at[q] \in Late PROVE payments[o] # <<>> /\ Covered(o, total)
      BY <1>1, <2>2, <2>3, <3>1 DEF CopyBilled, StaffCopyIsPaid, Late
    <3> QED BY <2>4, <3>1 DEF KeepsBills
  <2> QED BY <2>2, <2>3, <2>5, <2>6 DEF CopyBilled, Billed, Covered
<1>3. CASE at[q] \notin Early \cup Late
  BY <1>3 DEF CopyBilled
<1> QED BY <1>2, <1>3

LEMMA BatchStaysBilled ==
    ASSUME BillInv, \A o \in DOMAIN orders : KeepsBills(o),
           DOMAIN batch' \subseteq DOMAIN batch,
           \A o \in DOMAIN batch' : batch'[o] = batch[o]
    PROVE  BatchBilled'
<1>1. DOMAIN batch' \subseteq DOMAIN orders'
  BY DEF BillInv, BatchBilled, KeepsBills
<1>2. ASSUME NEW o \in DOMAIN batch' PROVE Billed(o, batch[o].totalPrice)'
  <2>1. o \in DOMAIN orders /\ batch[o] \in OrderRow /\ Billed(o, batch[o].totalPrice)
    BY DEF BillInv, BatchBilled, PaidInv, TypeOK, DBTypeOK
  <2>2. PICK total \in Nat : total = batch[o].totalPrice
    BY <2>1, RowFits
  <2>3. Billed(o, total)'
    BY <2>1, <2>2 DEF KeepsBills
  <2> QED BY <2>2, <2>3 DEF Billed
<1> QED BY <1>1, <1>2 DEF BatchBilled

\* A save of a row with the total that was or will be paid.
LEMMA BilledSave ==
    ASSUME BillInv, NEW id \in DOMAIN orders, NEW row \in OrderRow, Save(id, row),
           UNCHANGED payments, Billed(id, row.totalPrice)
    PROVE  /\ \A o \in DOMAIN orders : KeepsBills(o)
           /\ \A o \in DOMAIN orders' : OrderBilled(o)'
<1>1. TypeOK /\ id \in Order /\ row.totalPrice \in Nat
  BY RowFits DEF BillInv, PaidInv, TypeOK, DBTypeOK
<1>2. /\ DOMAIN orders' = DOMAIN orders /\ orders'[id] = row
      /\ \A x \in DOMAIN orders \ {id} : orders'[x] = orders[x]
  BY <1>1, SaveFits
<1>3. ASSUME NEW o \in DOMAIN orders PROVE KeepsBills(o)
  BY <1>2 DEF KeepsBills, Billed, Covered
<1>4. ASSUME NEW o \in DOMAIN orders PROVE OrderBilled(o)'
  <2>1. CASE o = id
    <3>1. \A i \in DOMAIN payments[id] : payments[id][i] <= row.totalPrice
      BY <1>1 DEF Billed
    <3> QED BY <1>2, <2>1, <3>1 DEF OrderBilled, Billed, Covered
  <2>2. CASE o # id
    BY <1>2, <2>2 DEF BillInv, OrderBilled, Billed, Covered
  <2> QED BY <2>1, <2>2
<1> QED BY <1>2, <1>3, <1>4

\* A save of a row that was read after the guest was let in.
LEMMA CoveredSave ==
    ASSUME BillInv, NEW id \in DOMAIN orders, NEW row \in OrderRow, Save(id, row),
           UNCHANGED payments, payments[id] # <<>>, Covered(id, row.totalPrice),
           row.status \in {"checked_in", "checked_out"}
    PROVE  /\ \A o \in DOMAIN orders : KeepsBills(o)
           /\ \A o \in DOMAIN orders' : OrderBilled(o)'
<1>1. TypeOK /\ id \in Order
  BY DEF BillInv, PaidInv, TypeOK, DBTypeOK
<1>2. /\ DOMAIN orders' = DOMAIN orders /\ orders'[id] = row
      /\ \A x \in DOMAIN orders \ {id} : orders'[x] = orders[x]
  BY <1>1, SaveFits
<1>3. ASSUME NEW o \in DOMAIN orders PROVE KeepsBills(o)
  BY <1>2 DEF KeepsBills, Billed, Covered
<1>4. ASSUME NEW o \in DOMAIN orders PROVE OrderBilled(o)'
  <2>1. CASE o = id
    BY <1>2, <2>1 DEF OrderBilled, Covered
  <2>2. CASE o # id
    BY <1>2, <2>2 DEF BillInv, OrderBilled, Billed, Covered
  <2> QED BY <2>1, <2>2
<1> QED BY <1>2, <1>3, <1>4

\* The commit or the rollback of a request that keeps the bills.
LEMMA FinishKeepsBillInv ==
    ASSUME BillInv, PaidInv', NEW p \in Proc, Finished(p), UNCHANGED batch,
           \A o \in DOMAIN orders : KeepsBills(o),
           \A o \in DOMAIN orders' : OrderBilled(o)'
    PROVE  BillInv'
<1>1. TypeOK
  BY DEF BillInv, PaidInv
<1>2. /\ at'[p] = "idle"
      /\ \A q \in Proc \ {p} :
           at'[q] = at[q] /\ target'[q] = target[q] /\ copy'[q] = copy[q]
  BY <1>1, FinishedFits
<1>3. CopyBilled(p)'
  BY <1>2 DEF CopyBilled, Early, Late
<1>4. \A q \in Proc : CopyBilled(q)'
  BY <1>2, <1>3, CopyStaysBilled
<1>5. BatchBilled'
  BY BatchStaysBilled
<1> QED BY <1>4, <1>5 DEF BillInv

\* A request that reads a row it may hold.
LEMMA HoldKeepsBillInv ==
    ASSUME BillInv, PaidInv', NEW p \in Proc, NEW step, NEW id, NEW row,
           Holding(p, step, id, row), UNCHANGED <<tables, batch>>,
           step \in Early => Billed(id, row.totalPrice),
           step \in Late => Covered(id, row.totalPrice)
    PROVE  BillInv'
<1>1. TypeOK
  BY DEF BillInv, PaidInv
<1>2. /\ at'[p] = step /\ target'[p] = id /\ copy'[p] = row
      /\ \A q \in Proc \ {p} :
           at'[q] = at[q] /\ target'[q] = target[q] /\ copy'[q] = copy[q]
  BY <1>1 DEF Holding, TypeOK, DBTypeOK
<1>3. UNCHANGED <<orders, payments>>
  BY DEF tables
<1>4. /\ \A o \in DOMAIN orders : KeepsBills(o)
      /\ \A o \in DOMAIN orders' : OrderBilled(o)'
  BY <1>3, SameTablesKeepBills DEF BillInv
<1>5. CopyBilled(p)'
  BY <1>2, <1>3 DEF CopyBilled, Billed, Covered
<1>6. \A q \in Proc : CopyBilled(q)'
  BY <1>2, <1>4, <1>5, CopyStaysBilled
<1>7. BatchBilled'
  BY <1>4, BatchStaysBilled
<1> QED BY <1>4, <1>6, <1>7 DEF BillInv

LEMMA RequestKeepsBillInv ==
    ASSUME BillInv, NEW p \in Proc,
           \/ \E o \in Order : OrderRequest(p, o)
           \/ \E r \in Room : RoomRequest(p, r)
    PROVE  BillInv'
<1>1. PaidInv'
  BY RequestKeepsPaidInv DEF BillInv
<1>2. ASSUME NEW o \in Order, NEW step, NEW allowed, Read(p, o, step, allowed),
             step \in Early => allowed \subseteq {"pending", "paid"}
      PROVE  BillInv'
  <2>1. /\ o \in DOMAIN orders /\ orders[o].status \in allowed
        /\ Holding(p, step, o, orders[o]) /\ UNCHANGED <<tables, batch>>
    BY <1>2 DEF Read
  <2>2. OrderBilled(o)
    BY <2>1 DEF BillInv
  <2>3. step \in Early => Billed(o, orders[o].totalPrice)
    BY <1>2, <2>1, <2>2 DEF OrderBilled
  <2>4. Covered(o, orders[o].totalPrice)
    BY <2>2 DEF OrderBilled
  <2> QED BY <1>1, <2>1, <2>3, <2>4, HoldKeepsBillInv
<1>3. ASSUME NEW o \in Order, OrderRequest(p, o) PROVE BillInv'
  <2>1. CASE CancelOrderRead(p, o)
    BY <1>2, <2>1 DEF CancelOrderRead
  <2>2. CASE CheckInRead(p, o)
    BY <1>2, <2>2 DEF CheckInRead
  <2>3. CASE CheckOutRead(p, o)
    BY <1>2, <2>3 DEF CheckOutRead, Early
  <2>4. CASE ExtendStayRead(p, o)
    BY <1>2, <2>4 DEF ExtendStayRead, Early
  <2>5. CASE CreatePaymentRead(p, o)
    <3>1. /\ o \in DOMAIN orders /\ orders[o].status = "pending"
          /\ Holding(p, "paying", o, orders[o]) /\ UNCHANGED <<tables, batch>>
      BY <2>5 DEF CreatePaymentRead
    <3>2. Billed(o, orders[o].totalPrice) /\ Covered(o, orders[o].totalPrice)
      BY <3>1 DEF BillInv, OrderBilled
    <3> QED BY <1>1, <3>1, <3>2, HoldKeepsBillInv
  <2> QED BY <1>3, <2>1, <2>2, <2>3, <2>4, <2>5 DEF OrderRequest
<1>4. ASSUME NEW step \in {"creating", "updating_room"}, NEW id, NEW row,
             Holding(p, step, id, row), UNCHANGED <<tables, batch>>
      PROVE  BillInv'
  BY <1>1, <1>4, HoldKeepsBillInv DEF Early, Late
<1>5. ASSUME NEW r \in Room, RoomRequest(p, r) PROVE BillInv'
  BY <1>4, <1>5 DEF RoomRequest, CreateOrderRead, UpdateRoomRead
<1> QED BY <1>3, <1>5

\* The payment is the total of the order it finds unpaid.
LEMMA PaymentKeepsBills ==
    ASSUME BillInv, NEW p \in Proc, CreatePaymentSave(p)
    PROVE  /\ \A o \in DOMAIN orders : KeepsBills(o)
           /\ \A o \in DOMAIN orders' : OrderBilled(o)'
<1> DEFINE id == target[p]
           total == copy[p].totalPrice
           row == [copy[p] EXCEPT !.status = "paid"]
<1>1. TypeOK /\ id \in Order /\ id \in DOMAIN orders /\ copy[p] \in OrderRow
  BY HeldOrder DEF CreatePaymentSave, BillInv, PaidInv, Step
<1>2. row \in OrderRow /\ total \in Nat /\ row.totalPrice = total
  BY <1>1, RowFits DEF OrderRow, OrderStatus
<1>3. payments[id] = <<>> /\ orders[id].totalPrice = total
  BY DEF CreatePaymentSave, BillInv, PaidInv, PayerIsAlone, CopyBilled, Billed, Early
<1>4. /\ payments'[id] = Append(<<>>, total)
      /\ \A o \in Order \ {id} : payments'[o] = payments[o]
  BY <1>1, <1>3 DEF CreatePaymentSave, TypeOK, DBTypeOK
<1>5. payments'[id] = <<total>>
  BY <1>2, <1>4
<1>6. /\ DOMAIN orders' = DOMAIN orders /\ orders'[id] = row
      /\ \A x \in DOMAIN orders \ {id} : orders'[x] = orders[x]
  <2>1. Save(id, row)
    BY DEF CreatePaymentSave
  <2> HIDE DEF id, row
  <2> QED BY <1>1, <1>2, <2>1, SaveFits
<1>7. /\ DOMAIN orders \subseteq Order
      /\ payments'[id] # <<>>
      /\ \A i \in DOMAIN payments'[id] : payments'[id][i] = total
  BY <1>1, <1>5 DEF TypeOK, DBTypeOK
<1> HIDE DEF id, row, total
<1>8. ASSUME NEW o \in DOMAIN orders PROVE KeepsBills(o)
  <2>1. CASE o = id
    BY <1>3, <1>6, <1>7, <2>1 DEF KeepsBills, Billed
  <2>2. CASE o # id
    BY <1>4, <1>6, <1>7, <2>2 DEF KeepsBills, Billed, Covered
  <2> QED BY <2>1, <2>2
<1>9. ASSUME NEW o \in DOMAIN orders PROVE OrderBilled(o)'
  <2>1. CASE o = id
    <3>1. \A i \in DOMAIN payments'[id] : payments'[id][i] <= total
      BY <1>2, <1>7
    <3> QED BY <1>2, <1>6, <1>7, <2>1, <3>1 DEF OrderBilled, Billed, Covered
  <2>2. CASE o # id
    BY <1>4, <1>6, <1>7, <2>2 DEF BillInv, OrderBilled, Billed, Covered
  <2> QED BY <2>1, <2>2
<1> QED BY <1>6, <1>8, <1>9

LEMMA ContinueKeepsBillInv ==
    ASSUME BillInv, NEW p \in Proc, Continue(p)
    PROVE  BillInv'
<1> DEFINE id == target[p]
           total == copy[p].totalPrice
           KeepsAll == /\ \A o \in DOMAIN orders : KeepsBills(o)
                       /\ \A o \in DOMAIN orders' : OrderBilled(o)'
<1>1. /\ PaidInv' /\ TypeOK /\ CopyBilled(p) /\ StaffCopyIsPaid(p)
      /\ \A o \in DOMAIN orders : OrderBilled(o)
  BY ContinueKeepsPaidInv DEF BillInv, PaidInv
<1>2. ASSUME at[p] \in Step \ {"idle", "creating", "updating_room"}
      PROVE  id \in DOMAIN orders /\ copy[p] \in OrderRow /\ total \in Nat
  BY <1>1, <1>2, HeldOrder, RowFits
<1>3. ASSUME NEW o \in Order, CreateOrderInsert(p, o) PROVE BillInv'
  <2>1. /\ copy[p] \in OrderRow /\ o \notin DOMAIN orders /\ payments[o] = <<>>
        /\ Save(o, copy[p]) /\ Finished(p) /\ UNCHANGED <<payments, batch>>
    BY <1>1, <1>3 DEF CreateOrderInsert, Commit, BillInv, PaidInv, TypeOK, RequestTypeOK
  <2>2. /\ DOMAIN orders' = DOMAIN orders \cup {o}
        /\ \A x \in DOMAIN orders \ {o} : orders'[x] = orders[x]
    BY <1>1, <2>1, SaveFits
  <2>3. ASSUME NEW x \in DOMAIN orders PROVE KeepsBills(x) /\ OrderBilled(x)'
    BY <1>1, <2>1, <2>2 DEF KeepsBills, OrderBilled, Billed, Covered
  <2>4. OrderBilled(o)'
    BY <2>1 DEF OrderBilled, Billed, Covered
  <2> QED BY <1>1, <2>1, <2>2, <2>3, <2>4, FinishKeepsBillInv
<1>4. CASE CancelOrderSave(p)
  <2> DEFINE row == [copy[p] EXCEPT !.status = "cancelled", !.cancelReason = "guest"]
  <2>1. id \in DOMAIN orders /\ copy[p] \in OrderRow /\ Billed(id, total)
    BY <1>1, <1>2, <1>4 DEF CancelOrderSave, Step, CopyBilled, Early
  <2>2. row \in OrderRow /\ row.totalPrice = total
    BY <2>1, RowFits DEF OrderRow
  <2>3. Save(id, row) /\ Finished(p) /\ UNCHANGED <<payments, batch>>
    BY <1>4 DEF CancelOrderSave, Commit
  <2>4. Billed(id, row.totalPrice)
    BY <2>1, <2>2
  <2> HIDE DEF id, row, total
  <2>5. KeepsAll
    BY <2>1, <2>2, <2>3, <2>4, BilledSave
  <2> QED BY <1>1, <2>3, <2>5, FinishKeepsBillInv
<1>5. ASSUME NEW status \in {"checked_in", "checked_out"}, NEW roomStatus,
             at[p] \in {"checking_in", "checking_out"}, SaveWithRoom(p, status, roomStatus)
      PROVE  BillInv'
  <2> DEFINE row == [copy[p] EXCEPT !.status = status]
  <2>1. id \in DOMAIN orders /\ copy[p] \in OrderRow /\ total \in Nat /\ payments[id] # <<>>
    BY <1>1, <1>2, <1>5 DEF Step, StaffCopyIsPaid
  <2>2. row \in OrderRow /\ row.totalPrice = total /\ row.status = status
    BY <2>1, RowFits DEF OrderRow, OrderStatus
  <2>3. Save(id, row) /\ Finished(p) /\ UNCHANGED <<payments, batch>>
    BY <1>5 DEF SaveWithRoom, Commit
  <2>4. Covered(id, row.totalPrice)
    <3>1. at[p] = "checking_in" => Billed(id, total)
      BY <1>1 DEF CopyBilled, Early
    <3>2. at[p] = "checking_out" => Covered(id, total)
      BY <1>1 DEF CopyBilled, Late
    <3>3. Billed(id, total) => Covered(id, total)
      BY <2>1 DEF Billed, Covered
    <3> QED BY <1>5, <2>2, <3>1, <3>2, <3>3
  <2> HIDE DEF id, row, total
  <2>5. KeepsAll
    BY <2>1, <2>2, <2>3, <2>4, CoveredSave
  <2> QED BY <1>1, <2>3, <2>5, FinishKeepsBillInv
<1>6. CheckInSave(p) \/ CheckOutSave(p) => BillInv'
  BY <1>5 DEF CheckInSave, CheckOutSave
<1>7. ASSUME NEW n \in 1 .. MaxDay, ExtendStayCheck(p, n) PROVE BillInv'
  <2>1. PICK price \in Prices :
          Holding(p, "extend_checked", target[p], Extended(copy[p], n, price))
    BY <1>7 DEF ExtendStayCheck
  <2>2. /\ at[p] = "extending" /\ UNCHANGED <<tables, batch>>
    BY <1>7 DEF ExtendStayCheck
  <2>3. id \in DOMAIN orders /\ copy[p] \in OrderRow /\ total \in Nat /\ Covered(id, total)
    BY <1>1, <1>2, <2>2 DEF Step, CopyBilled, Late
  <2>4. Extended(copy[p], n, price).totalPrice = total + price * n
    BY <2>3 DEF Extended, OrderRow
  <2>5. price \in Nat /\ n \in Nat
    BY PriceAssumption, BoundsAssumption
  <2>6. PICK added \in Nat : added = price * n
    BY <2>5
  <2>7. DOMAIN payments[id] \subseteq Nat /\ \A i \in DOMAIN payments[id] : payments[id][i] \in Nat
    BY <1>1, <2>3 DEF TypeOK, DBTypeOK
  <2> HIDE DEF id, total
  <2>8. Covered(id, total + added)
    BY <2>3, <2>6, <2>7 DEF Covered
  <2>9. Covered(target[p], Extended(copy[p], n, price).totalPrice)
    BY <2>4, <2>6, <2>8 DEF id
  <2> QED BY <1>1, <2>1, <2>2, <2>9, HoldKeepsBillInv DEF Early
<1>8. CASE ExtendStaySave(p)
  <2>1. id \in DOMAIN orders /\ copy[p] \in OrderRow
    BY <1>2, <1>8 DEF ExtendStaySave, Step
  <2>2. copy[p].status = "checked_in" /\ payments[id] # <<>> /\ Covered(id, copy[p].totalPrice)
    BY <1>1, <1>8 DEF ExtendStaySave, StaffCopyIsPaid, CopyBilled, Late
  <2>3. Save(id, copy[p]) /\ Finished(p) /\ UNCHANGED <<payments, batch>>
    BY <1>8 DEF ExtendStaySave, Commit
  <2> HIDE DEF id
  <2>4. KeepsAll
    BY <2>1, <2>2, <2>3, CoveredSave
  <2> QED BY <1>1, <2>3, <2>4, FinishKeepsBillInv
<1>9. CASE CreatePaymentSave(p)
  BY <1>1, <1>9, PaymentKeepsBills, FinishKeepsBillInv DEF CreatePaymentSave, Commit
<1>10. CASE UpdateRoomSave(p) \/ Rollback(p)
  <2>1. Finished(p) /\ UNCHANGED <<orders, payments, batch>>
    BY <1>10 DEF UpdateRoomSave, Rollback, Commit, tables
  <2>2. KeepsAll
    BY <1>1, <2>1, SameTablesKeepBills
  <2> QED BY <1>1, <2>1, <2>2, FinishKeepsBillInv
<1> QED BY <1>3, <1>4, <1>6, <1>7, <1>8, <1>9, <1>10 DEF Continue

LEMMA CronKeepsBillInv ==
    ASSUME BillInv, Sweep \/ \E o \in Order : Age(o)
    PROVE  BillInv'
<1>1. PaidInv' /\ TypeOK
  BY CronKeepsPaidInv DEF BillInv, PaidInv
<1>2. ASSUME UNCHANGED requests, \A o \in DOMAIN orders : KeepsBills(o),
             \A o \in DOMAIN orders' : OrderBilled(o)', BatchBilled'
      PROVE  BillInv'
  <2>1. \A q \in Proc : CopyBilled(q)'
    BY <1>2, CopyStaysBilled DEF requests
  <2> QED BY <1>1, <1>2, <2>1 DEF BillInv
<1>3. ASSUME UNCHANGED <<orders, payments>>
      PROVE  /\ \A o \in DOMAIN orders : KeepsBills(o)
             /\ \A o \in DOMAIN orders' : OrderBilled(o)'
  BY <1>3, SameTablesKeepBills DEF BillInv
<1>4. ASSUME NEW o \in Order, Age(o) PROVE BillInv'
  <2>1. UNCHANGED <<orders, payments, batch, requests>>
    BY <1>4 DEF Age, tables
  <2>2. BatchBilled'
    BY <1>3, <2>1, BatchStaysBilled
  <2> QED BY <1>2, <1>3, <2>1, <2>2
<1>5. ASSUME NEW o \in Order, SweepFail(o) PROVE BillInv'
  <2>1. /\ UNCHANGED <<orders, payments, requests>>
        /\ DOMAIN batch' \subseteq DOMAIN batch
        /\ \A x \in DOMAIN batch' : batch'[x] = batch[x]
    BY <1>5 DEF SweepFail, Without, tables
  <2>2. BatchBilled'
    BY <1>3, <2>1, BatchStaysBilled
  <2> QED BY <1>2, <1>3, <2>1, <2>2
<1>6. ASSUME SweepRead PROVE BillInv'
  <2>1. /\ UNCHANGED <<orders, payments, requests>>
        /\ batch' = [o \in FindExpiredPending |-> orders[o]]
    BY <1>6 DEF SweepRead, tables
  <2>2. ASSUME NEW o \in FindExpiredPending PROVE Billed(o, orders[o].totalPrice)
    BY <2>2 DEF FindExpiredPending, BillInv, OrderBilled
  <2>3. BatchBilled'
    BY <2>1, <2>2 DEF BatchBilled, FindExpiredPending, Billed
  <2> QED BY <1>2, <1>3, <2>1, <2>3
<1>7. ASSUME NEW o \in Order, SweepSave(o) PROVE BillInv'
  <2> DEFINE row == [batch[o] EXCEPT !.status = "cancelled", !.cancelReason = "timeout"]
  <2>1. row \in OrderRow /\ batch[o] \in OrderRow /\ Save(o, row)
    BY <1>1, <1>7, SweepSaveFits
  <2>2. row.totalPrice = batch[o].totalPrice
    BY <2>1 DEF OrderRow
  <2>3. o \in DOMAIN orders /\ Billed(o, batch[o].totalPrice)
    BY <1>7 DEF SweepSave, BillInv, BatchBilled
  <2>4. Billed(o, row.totalPrice)
    BY <2>2, <2>3
  <2>5. /\ UNCHANGED <<payments, requests>>
        /\ DOMAIN batch' \subseteq DOMAIN batch
        /\ \A x \in DOMAIN batch' : batch'[x] = batch[x]
    BY <1>7 DEF SweepSave, Without
  <2> HIDE DEF row
  <2>6. /\ \A x \in DOMAIN orders : KeepsBills(x)
        /\ \A x \in DOMAIN orders' : OrderBilled(x)'
    BY <2>1, <2>3, <2>4, <2>5, BilledSave
  <2>7. BatchBilled'
    BY <2>5, <2>6, BatchStaysBilled
  <2> QED BY <1>2, <2>5, <2>6, <2>7
<1> QED BY <1>4, <1>5, <1>6, <1>7 DEF Sweep

(***************************************************************************)
(* However the room type's price changes and whatever rows are saved late, *)
(* what was paid for an order is its total until the guest is in and after *)
(* a cancellation, and never more than its total.                          *)
(***************************************************************************)
THEOREM PaymentsMatchBills == Spec => []PaidItsBill
<1>1. Init => BillInv
  <2>1. Init => PaidInv
    BY DEF Init, DBInit, PaidInv, TypeOK, DBTypeOK, RequestTypeOK, Step, RoomStatus,
           PaidOnce, PayerIsAlone, StaffCopyIsPaid
  <2> QED BY <2>1 DEF Init, DBInit, BillInv, CopyBilled, Early, Late, BatchBilled
<1>2. BillInv /\ [Next]_vars => BillInv'
  <2> SUFFICES ASSUME BillInv, [Next]_vars PROVE BillInv'
    OBVIOUS
  <2>1. CASE UNCHANGED vars
    <3>1. PaidInv'
      BY <2>1 DEF vars, BillInv, PaidInv, TypeOK, DBTypeOK, RequestTypeOK, PaidOnce,
                  PayerIsAlone, StaffCopyIsPaid, StillCurrent
    <3> QED BY <2>1, <3>1 DEF vars, BillInv, OrderBilled, CopyBilled, BatchBilled, Billed, Covered
  <2>2. CASE Next
    BY <2>2, RequestKeepsBillInv, ContinueKeepsBillInv, CronKeepsBillInv DEF Next
  <2> QED BY <2>1, <2>2
<1>3. BillInv => PaidItsBill
  BY DEF BillInv, OrderBilled, Billed, Covered, PaidItsBill
<1> QED BY <1>1, <1>2, <1>3, PTL DEF Spec
=============================================================================
