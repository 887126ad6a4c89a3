----------------------------- MODULE HotelBooking -----------------------------
(***************************************************************************)
(* The booking side of the server: requests of guests and staff and the    *)
(* cron sweep, interleaved at every database call, over one database.      *)
(***************************************************************************)
EXTENDS OrderService, PaymentService, RoomService, FiniteSets

OrderRequest(p, o) ==
    \/ CancelOrderRead(p, o)
    \/ CheckInRead(p, o)
    \/ CheckOutRead(p, o)
    \/ ExtendStayRead(p, o)
    \/ CreatePaymentRead(p, o)

RoomRequest(p, r) ==
    \/ \E from, to \in Day : CreateOrderRead(p, r, from, to)
    \/ \E status \in RoomStatus : UpdateRoomRead(p, r, status)

Continue(p) ==
    \/ \E o \in Order : CreateOrderInsert(p, o)
    \/ CancelOrderSave(p)
    \/ CheckInSave(p)
    \/ CheckOutSave(p)
    \/ \E extraDays \in 1 .. MaxDay : ExtendStayCheck(p, extraDays)
    \/ ExtendStaySave(p)
    \/ CreatePaymentSave(p)
    \/ UpdateRoomSave(p)
    \/ Rollback(p)

Sweep == SweepRead \/ \E o \in Order : SweepSave(o) \/ SweepFail(o)

Next ==
    \/ \E p \in Proc :
         \/ \E o \in Order : OrderRequest(p, o)
         \/ \E r \in Room : RoomRequest(p, r)
         \/ Continue(p)
    \/ \E o \in Order : Age(o)
    \/ Sweep

Init == DBInit
Spec == Init /\ [][Next]_vars

-----------------------------------------------------------------------------
(* Types: what each table, lock and request can hold. *)
TypeOK == DBTypeOK /\ RequestTypeOK

(***************************************************************************)
(* No two orders that hold the same room share a night, the promise of     *)
(* CreateOrder's row lock and conflict count.                              *)
(***************************************************************************)
NoDoubleBooking ==
    \A a, b \in DOMAIN orders :
        (/\ a # b
         /\ orders[a].room = orders[b].room
         /\ orders[a].status \in Active
         /\ orders[b].status \in Active)
        => ~Overlaps(orders[a], orders[b].checkIn, orders[b].checkOut)

(***************************************************************************)
(* A status only moves along pending, paid, checked_in, checked_out, or to *)
(* cancelled from the first two: no late save brings an order back.        *)
(***************************************************************************)
StatusMoves == {<<"pending", "paid">>, <<"pending", "cancelled">>,
                <<"paid", "checked_in">>, <<"paid", "cancelled">>,
                <<"checked_in", "checked_out">>}

LegalStatusMoves ==
    [][\A o \in DOMAIN orders :
         orders'[o].status # orders[o].status
           => <<orders[o].status, orders'[o].status>> \in StatusMoves]_vars

(***************************************************************************)
(* The booking side implements RoomLedger: seen through the orders that    *)
(* hold a room, every commit enters a stay in free nights, prolongs one    *)
(* into free nights, strikes one out for good, or changes nothing.         *)
(***************************************************************************)
Holds == {o \in DOMAIN orders : orders[o].status \in Active}

StayOf(row) == [room |-> row.room, checkIn |-> row.checkIn, checkOut |-> row.checkOut]

Ledger == INSTANCE RoomLedger WITH stays <- [o \in Holds |-> StayOf(orders[o])],
                                   past <- DOMAIN orders \ Holds
LedgerSpec == Ledger!Spec

(***************************************************************************)
(* The payments of an order agree with its status in every interleaving:   *)
(* no order is paid twice, a pending one was not paid, and a guest who may *)
(* stay paid exactly once.  PaymentService.Create's row lock is what this  *)
(* rests on.                                                               *)
(***************************************************************************)
PaidOnce ==
    \A o \in DOMAIN orders :
        /\ Len(payments[o]) <= 1
        /\ orders[o].status = "pending" => payments[o] = <<>>
        /\ orders[o].status \in {"paid", "checked_in", "checked_out"}
             => payments[o] # <<>>

(***************************************************************************)
(* Whatever rows are saved over each other, an order leaves pending for    *)
(* good, and becomes paid from pending and by a payment only.              *)
(***************************************************************************)
PaidByPaymentOnly ==
    [][\A o \in DOMAIN orders :
         /\ orders'[o].status = "pending" => orders[o].status = "pending"
         /\ (orders'[o].status = "paid" /\ orders[o].status # "paid")
              => orders[o].status = "pending" /\ payments'[o] # payments[o]]_vars

(***************************************************************************)
(* What was paid for an order is its total until the guest is in, and what *)
(* a cancelled one would be refunded, whatever became of the room type's   *)
(* price and whichever stale rows were saved.  Only an extension raises the*)
(* total over the payment, and no late save takes it below.                *)
(***************************************************************************)
PaidItsBill ==
    \A o \in DOMAIN orders : \A i \in DOMAIN payments[o] :
        /\ payments[o][i] <= orders[o].totalPrice
        /\ orders[o].status \in {"pending", "paid", "cancelled"}
             => payments[o][i] = orders[o].totalPrice

(***************************************************************************)
(* genOrderNo's promise: the numbers of a day are 1, 2, 3 ... with no gap  *)
(* and no repetition, also when two creators read the same last number and *)
(* when MaxSeq is reached.                                                 *)
(***************************************************************************)
NumbersDense ==
    /\ \A a, b \in DOMAIN orders : a # b => orders[a].orderNo # orders[b].orderNo
    /\ \A o \in DOMAIN orders : 1 .. orders[o].orderNo \subseteq UsedNo

(***************************************************************************)
(* While staff and the sweep are kept apart from other requests (module    *)
(* Separation), a room is occupied only while one of its guests is in.     *)
(***************************************************************************)
OccupiedHasGuest ==
    \A r \in Room : rooms[r] = "occupied" =>
        \E o \in DOMAIN orders : orders[o].room = r /\ orders[o].status = "checked_in"

(***************************************************************************)
(* What the message of ErrRoomOccupied says: a room a guest is in cannot be*)
(* put into maintenance.                                                   *)
(***************************************************************************)
GuestRoomNotInMaintenance ==
    \A o \in DOMAIN orders :
        orders[o].status = "checked_in" => rooms[orders[o].room] # "maintenance"

(***************************************************************************)
(* What the comment of AutoCancelExpired says: the orders it cancels are   *)
(* the ones that were not paid.                                            *)
(***************************************************************************)
AutoCancelSparesPaid ==
    \A o \in DOMAIN orders :
        orders[o].cancelReason = "timeout" => payments[o] = <<>>

-----------------------------------------------------------------------------
(***************************************************************************)
(* Fairness.  A request that was started ends: its calls return or fail.   *)
(* Time passes and cron keeps ticking, so an expired order is read and the *)
(* save of an order whose lock is free again and again is made: InnoDB     *)
(* serves the waiters of a lock in turn.  The sweep's own transactions fail*)
(* only finitely often: the database comes back.                           *)
(***************************************************************************)
Fairness ==
    /\ \A p \in Proc : WF_vars(Continue(p))
    /\ WF_vars(SweepRead)
    /\ \A o \in Order : WF_vars(Age(o)) /\ SF_vars(SweepSave(o))
    /\ <>[][\A o \in Order : ~SweepFail(o)]_vars
FairSpec == Spec /\ Fairness

(***************************************************************************)
(* A pending order does not hold its room for ever: it is paid, cancelled, *)
(* or swept after AutoCancelMinutes.                                       *)
(***************************************************************************)
Pending == {o \in DOMAIN orders : orders[o].status = "pending"}

PendingEnds == \A o \in Order : (o \in Pending) ~> (o \notin Pending)

-----------------------------------------------------------------------------
(***************************************************************************)
(* Why guests cannot book a room twice.  In the traffic of guests, the     *)
(* sweep and room updates, a creator's nights stay free from the read to   *)
(* the insert, by the room's lock on MySQL and as long as no commit comes  *)
(* between on SQLite; and a payer's copy stays the order's row.  Staff     *)
(* handlers break this: they save a row that was read with neither.        *)
(***************************************************************************)
GuestHandlers == {"create", "pay", "cancel", "sweep", "update_room"}
GuestSteps == {"idle", "creating", "paying", "cancelling", "updating_room"}

CreatorHoldsFreeNights(p) ==
    at[p] = "creating" =>
        /\ engine = "mysql" => lock[copy[p].room] = p
        /\ copy[p].status = "pending"
        /\ StillCurrent(p) =>
             DateConflicts(copy[p].room, copy[p].checkIn, copy[p].checkOut, {}) = {}

PayerHoldsItsOrder(p) ==
    at[p] = "paying" =>
        /\ engine = "mysql" => lock[target[p]] = p
        /\ copy[p].status = "pending"
        /\ StillCurrent(p) => orders[target[p]] = copy[p]

GuestInv ==
    /\ TypeOK
    /\ NoDoubleBooking
    /\ \A p \in Proc : /\ at[p] \in GuestSteps
                       /\ CreatorHoldsFreeNights(p)
                       /\ PayerHoldsItsOrder(p)

-----------------------------------------------------------------------------
(***************************************************************************)
(* Why payments stay right with every handler in the traffic.  A payer     *)
(* holds a pending order nobody else can write before it commits; and the  *)
(* stale copy a staff handler saves was read from an order that had been   *)
(* paid, which nothing takes back.                                         *)
(***************************************************************************)
PayerIsAlone(p) ==
    at[p] = "paying" =>
        /\ engine = "mysql" => lock[target[p]] = p
        /\ StillCurrent(p) => /\ payments[target[p]] = <<>>
                              /\ orders[target[p]].status = "pending"

StaffCopyIsPaid(p) ==
    at[p] \in {"checking_in", "checking_out", "extending", "extend_checked"} =>
        /\ payments[target[p]] # <<>>
        /\ copy[p].status = IF at[p] = "checking_in" THEN "paid" ELSE "checked_in"

PaidInv ==
    /\ TypeOK
    /\ PaidOnce
    /\ \A o \in Order \ DOMAIN orders : payments[o] = <<>>
    /\ \A p \in Proc : /\ at[p] = "creating" => copy[p].status = "pending"
                       /\ PayerIsAlone(p)
                       /\ StaffCopyIsPaid(p)
=============================================================================
