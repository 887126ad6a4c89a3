----------------------------- MODULE OrderService -----------------------------
(***************************************************************************)
(* internal/service/order_service.go: the life of an order.  Each method is*)
(* a transaction; its checks that fail change nothing and are left out.    *)
(* CreateOrder reads inside its transaction.  CancelOrder, CheckIn,        *)
(* CheckOut and ExtendStay read the order through OrderDAO.FindByID, which *)
(* uses the pool and not the transaction, takes no lock, and lets other    *)
(* requests commit before the whole row is saved back.                     *)
(***************************************************************************)
EXTENDS HotelDB

-----------------------------------------------------------------------------
(* CreateOrder. *)

\* The row lock and the transaction's snapshot are taken together, so the room,
\* its conflicts and the last order number are read as of one moment.  The price
\* is the room type's at the read: staff changes it at any time.
CreateOrderRead(p, r, from, to) ==
    /\ "create" \in Handlers /\ at[p] = "idle"
    /\ from < to
    /\ rooms[r] = "available"
    /\ SelectForUpdate(p, r)
    /\ DateConflicts(r, from, AskedEnd(to), {}) = {}
    /\ \E n \in 0 .. MaxSeq, price \in Prices :
        /\ IsLastNo(n)
        /\ Holding(p, "creating", None,
             [room |-> r, checkIn |-> from, checkOut |-> to,
              totalPrice |-> price * (to - from), orderNo |-> SeqAfter(n),
              status |-> "pending", cancelReason |-> "none"])
    /\ UNCHANGED <<engine, tables, aged, batch>>

\* Fault: the index on order_no is not unique.
CreateOrderInsertAnyNo(p, o) ==
    /\ at[p] = "creating"
    /\ o \notin DOMAIN orders
    /\ StillCurrent(p)
    /\ Save(o, copy[p])
    /\ Commit(p)
    /\ UNCHANGED <<engine, rooms, payments, aged, batch>>

\* The unique index on order_no refuses a number another order took meanwhile;
\* the transaction then rolls back, which Rollback covers.
CreateOrderInsert(p, o) ==
    /\ at[p] = "creating"
    /\ o \notin DOMAIN orders
    /\ StillCurrent(p)
    /\ copy[p].orderNo \notin UsedNo
    /\ Save(o, copy[p])
    /\ Commit(p)
    /\ UNCHANGED <<engine, rooms, payments, aged, batch>>

-----------------------------------------------------------------------------
(* CancelOrder, CheckIn and CheckOut. *)

\* FindByID outside the transaction, and the check of the status it returned.
Read(p, o, step, allowed) ==
    /\ at[p] = "idle"
    /\ o \in DOMAIN orders
    /\ orders[o].status \in allowed
    /\ Holding(p, step, o, orders[o])
    /\ UNCHANGED <<engine, tables, aged, lock, fresh, batch>>

\* UpdateWithTx on the order's room, then Save of the copy, then the commit.
SaveWithRoom(p, status, roomStatus) ==
    /\ CanWrite(p, {target[p], copy[p].room})
    /\ UpdateWithTx(copy[p].room, roomStatus)
    /\ Save(target[p], [copy[p] EXCEPT !.status = status])
    /\ Commit(p)
    /\ UNCHANGED <<engine, payments, aged, batch>>

\* Fault: a guest who is in can cancel.
CancelOrderReadAny(p, o) ==
    "cancel" \in Handlers /\ Read(p, o, "cancelling", Active)

CancelOrderRead(p, o) ==
    "cancel" \in Handlers /\ Read(p, o, "cancelling", {"pending", "paid"})

\* The room is set available only when the copy was paid.
CancelOrderSave(p) ==
    /\ at[p] = "cancelling"
    /\ CanWrite(p, {target[p]})
    /\ IF copy[p].status = "paid"
         THEN /\ CanWrite(p, {copy[p].room})
              /\ UpdateWithTx(copy[p].room, "available")
         ELSE UNCHANGED rooms
    /\ Save(target[p], [copy[p] EXCEPT !.status = "cancelled", !.cancelReason = "guest"])
    /\ Commit(p)
    /\ UNCHANGED <<engine, payments, aged, batch>>

\* Neither the room's status nor the dates are looked at.
CheckInRead(p, o) == "check_in" \in Handlers /\ Read(p, o, "checking_in", {"paid"})

CheckInSave(p) ==
    at[p] = "checking_in" /\ SaveWithRoom(p, "checked_in", "occupied")

CheckOutRead(p, o) == "check_out" \in Handlers /\ Read(p, o, "checking_out", {"checked_in"})

\* Fault: check-out forgets the room.
CheckOutSaveOrderOnly(p) ==
    /\ at[p] = "checking_out"
    /\ CanWrite(p, {target[p]})
    /\ Save(target[p], [copy[p] EXCEPT !.status = "checked_out"])
    /\ Commit(p)
    /\ UNCHANGED <<engine, rooms, payments, aged, batch>>

CheckOutSave(p) ==
    at[p] = "checking_out" /\ SaveWithRoom(p, "checked_out", "available")

-----------------------------------------------------------------------------
(* ExtendStay. *)

\* Fault: a guest who has paid can extend before coming.
ExtendStayReadPaid(p, o) ==
    "extend" \in Handlers /\ Read(p, o, "extending", {"paid", "checked_in"})

ExtendStayRead(p, o) ==
    "extend" \in Handlers /\ Read(p, o, "extending", {"checked_in"})

\* The added nights cost what the room type cost when the order was read.
Extended(row, extraDays, price) ==
    [row EXCEPT !.checkOut = @ + extraDays,
                !.totalPrice = @ + price * extraDays]

\* Fault: the added nights are not checked.
ExtendStayUnchecked(p, extraDays) ==
    /\ at[p] = "extending"
    /\ extraDays > 0
    /\ copy[p].checkOut + extraDays \in Day
    /\ SelectInTx(p)
    /\ \E price \in Prices :
         Holding(p, "extend_checked", target[p], Extended(copy[p], extraDays, price))
    /\ UNCHANGED <<engine, tables, aged, batch>>

\* Counts the conflicts of the added nights in the transaction, with no lock on
\* the room: another request may book them before the save.
ExtendStayCheck(p, extraDays) ==
    /\ at[p] = "extending"
    /\ extraDays > 0
    /\ copy[p].checkOut + extraDays \in Day      \* bound
    /\ SelectInTx(p)
    /\ DateConflicts(copy[p].room, copy[p].checkOut, copy[p].checkOut + extraDays,
                     {target[p]}) = {}
    /\ \E price \in Prices :
         Holding(p, "extend_checked", target[p], Extended(copy[p], extraDays, price))
    /\ UNCHANGED <<engine, tables, aged, batch>>

ExtendStaySave(p) ==
    /\ at[p] = "extend_checked"
    /\ StillCurrent(p)
    /\ CanWrite(p, {target[p]})
    /\ Save(target[p], copy[p])
    /\ Commit(p)
    /\ UNCHANGED <<engine, rooms, payments, aged, batch>>

-----------------------------------------------------------------------------
(* AutoCancelExpired, which cron calls. *)

\* Time passes: an order becomes AutoCancelMinutes old.
Age(o) ==
    /\ "sweep" \in Handlers
    /\ o \in DOMAIN orders \ aged
    /\ aged' = aged \cup {o}
    /\ UNCHANGED <<engine, tables, lock, fresh, requests, batch>>

\* One query reads every expired order; the loop saves them one by one.
SweepRead ==
    /\ "sweep" \in Handlers /\ DOMAIN batch = {}
    /\ FindExpiredPending # {}
    /\ batch' = [o \in FindExpiredPending |-> orders[o]]
    /\ UNCHANGED <<engine, tables, aged, lock, fresh, requests>>

Without(o) == [x \in DOMAIN batch \ {o} |-> batch[x]]

\* The row read is saved as cancelled whatever has happened to it since.
SweepSave(o) ==
    /\ o \in DOMAIN batch
    /\ lock[o] = None
    /\ Save(o, [batch[o] EXCEPT !.status = "cancelled", !.cancelReason = "timeout"])
    /\ batch' = Without(o)
    /\ fresh' = {}
    /\ UNCHANGED <<engine, rooms, payments, aged, lock, requests>>

\* The error of a transaction that fails is dropped and the loop goes on.
SweepFail(o) ==
    /\ o \in DOMAIN batch
    /\ batch' = Without(o)
    /\ UNCHANGED <<engine, tables, aged, lock, fresh, requests>>
=============================================================================
