------------------------------- MODULE HotelDB -------------------------------
(***************************************************************************)
(* The database the services share (internal/dao, internal/model) and the  *)
(* requests that run against it.  The services open GORM transactions on   *)
(* MySQL, at its default REPEATABLE READ, or on SQLite; this module says   *)
(* what a row lock, a snapshot and a commit are in each of them, and holds *)
(* the queries of OrderDAO, RoomDAO and PaymentDAO the services make.      *)
(*                                                                         *)
(* A request is one call of a service method.  It is split where another   *)
(* request can come between two of its database calls: `at' is the step it *)
(* is at, `target' the row it works on and `copy' the row it holds in      *)
(* memory.  A transaction's writes become visible with its commit, so the  *)
(* writes and the commit are one step.                                     *)
(***************************************************************************)
EXTENDS Integers, Sequences

CONSTANTS
    Room,       \* primary keys of the rooms of a hotel
    Order,      \* primary keys the orders table can give out
    Proc,       \* requests the server can be serving at the same time
    MaxDay,     \* bound: the last day of the calendar; day 0 is today
    MaxSeq,     \* the last sequence number of a day (9999 in the code)
    Prices,     \* prices of a night that UpdateRoomType gives the room types
    ZoneAhead,  \* 1 where the server's time zone is ahead of UTC (the Dockerfile's is), or 0
    Handlers,   \* kinds of request in the traffic
    Engines,    \* databases the server is run on
    None        \* no row, no owner

AllHandlers == {"create", "pay", "cancel", "check_in", "check_out", "extend",
                "update_room", "sweep"}

ASSUME KeysAssumption == /\ Room \cap Order = {}
                         /\ None \notin Room \cup Order \cup Proc
ASSUME BoundsAssumption == MaxDay \in Nat /\ MaxSeq \in Nat \ {0}
ASSUME PriceAssumption == Prices \subseteq Nat
ASSUME ZoneAssumption == ZoneAhead \in {0, 1}
ASSUME TrafficAssumption == /\ Handlers \subseteq AllHandlers
                            /\ Engines \subseteq {"mysql", "sqlite"}

VARIABLES
    engine,     \* the database of this deployment
    orders,     \* the orders table: a row for each key that was given out
    rooms,      \* rooms.status
    payments,   \* amounts of the successful payments of each order
    aged,       \* orders created more than AutoCancelMinutes ago
    lock,       \* owner of each row lock (MySQL)
    fresh,      \* transactions no commit has overtaken since they read (SQLite)
    at,         \* step of each request
    target,     \* row each request works on
    copy,       \* row each request has read, or the one it will write
    batch       \* rows the running sweep has still to write back

tables == <<orders, rooms, payments>>
requests == <<at, target, copy>>
vars == <<engine, orders, rooms, payments, aged, lock, fresh, at, target, copy, batch>>

-----------------------------------------------------------------------------
(* Rows. *)

Day == 0 .. MaxDay
OrderStatus == {"pending", "paid", "checked_in", "checked_out", "cancelled"}
RoomStatus == {"available", "occupied", "maintenance"}
Active == {"pending", "paid", "checked_in"}

OrderRow == [room : Room, checkIn : Day, checkOut : Day, totalPrice : Nat,
             orderNo : 1 .. MaxSeq, status : OrderStatus,
             cancelReason : {"none", "guest", "timeout"}]
RoomRow == [status : RoomStatus]

Step == {"idle", "creating", "paying", "cancelling", "checking_in",
         "checking_out", "extending", "extend_checked", "updating_room"}

\* Save writes every column of the row, whatever the table holds by then.
Save(id, row) ==
    orders' = [x \in DOMAIN orders \cup {id} |-> IF x = id THEN row ELSE orders[x]]

UpdateWithTx(r, status) == rooms' = [rooms EXCEPT ![r] = status]

-----------------------------------------------------------------------------
(* Queries. *)

Overlaps(row, from, to) == row.checkIn < to /\ row.checkOut > from

\* The end of a stay as the database sees it when a request asks for it.  The
\* handlers parse dates as UTC and the DSN says loc=Local: ahead of UTC, MySQL
\* compares its DATE columns with a later hour of that day, so a stay that
\* begins on the day counts as well.  The first day is compared with
\* check_out > ?, which that does not change, and a date read from a row comes
\* back without the hours.  SQLite stores the time with the date.
AskedEnd(to) == IF engine = "mysql" THEN to + ZoneAhead ELSE to

\* Fault: a pending order does not count as holding its room.
DateConflictsOfPaid(r, from, to, except) ==
    {o \in DOMAIN orders \ except : /\ orders[o].room = r
                                    /\ orders[o].status \in Active \ {"pending"}
                                    /\ Overlaps(orders[o], from, to)}

\* The orders that CountDateConflict counts.
DateConflicts(r, from, to, except) ==
    {o \in DOMAIN orders \ except : /\ orders[o].room = r
                                    /\ orders[o].status \in Active
                                    /\ Overlaps(orders[o], from, to)}

UsedNo == {orders[o].orderNo : o \in DOMAIN orders}

\* The highest number of today's orders, 0 when there is none.
IsLastNo(n) == n \in UsedNo \cup {0} /\ \A m \in UsedNo : m <= n

\* Fault: the number is not capped.
SeqAfterUncapped(n) == n + 1

SeqAfter(n) == IF n + 1 > MaxSeq THEN MaxSeq ELSE n + 1

\* Fault: the cutoff is compared the wrong way round.
FindRecentPending == {o \in DOMAIN orders \ aged : orders[o].status = "pending"}

FindExpiredPending == {o \in DOMAIN orders \cap aged : orders[o].status = "pending"}

-----------------------------------------------------------------------------
(* Transactions. *)

\* Fault: a locking read that does not lock.
SelectNoLock(p, x) ==
    /\ fresh' = IF engine = "sqlite" THEN fresh \cup {p} ELSE fresh
    /\ UNCHANGED lock

\* SELECT ... FOR UPDATE.  MySQL waits for the row and holds it to the end of
\* the transaction; SQLite's dialect drops the clause, and the read only takes
\* the transaction's snapshot.
SelectForUpdate(p, x) ==
    \/ /\ engine = "mysql"
       /\ lock[x] = None
       /\ lock' = [lock EXCEPT ![x] = p]
       /\ UNCHANGED fresh
    \/ /\ engine = "sqlite"
       /\ fresh' = fresh \cup {p}
       /\ UNCHANGED lock

\* A plain SELECT inside a transaction.
SelectInTx(p) ==
    /\ fresh' = IF engine = "sqlite" THEN fresh \cup {p} ELSE fresh
    /\ UNCHANGED lock

\* Fault: the read was made on another connection than the write.
CurrentAnyway(p) == p \in Proc

\* SQLite turns a transaction that read before another commit away when it
\* starts to write.
StillCurrent(p) == engine = "sqlite" => p \in fresh

\* Fault: a write that does not wait for row locks.
WriteAnyway(p, rows) == \A x \in rows : lock[x] \in Proc \cup {None}

\* An UPDATE waits for the locks of other transactions on its rows.
CanWrite(p, rows) == \A x \in rows : lock[x] \in {None, p}

Holding(p, step, id, row) ==
    /\ at' = [at EXCEPT ![p] = step]
    /\ target' = [target EXCEPT ![p] = id]
    /\ copy' = [copy EXCEPT ![p] = row]

Finished(p) ==
    /\ Holding(p, "idle", None, None)
    /\ lock' = [x \in Room \cup Order |-> IF lock[x] = p THEN None ELSE lock[x]]

Commit(p) == Finished(p) /\ fresh' = {}

\* Any database call may fail: the transaction is rolled back and the request
\* answers with the error.
Rollback(p) ==
    /\ at[p] # "idle"
    /\ Finished(p)
    /\ fresh' = fresh \ {p}
    /\ UNCHANGED <<engine, tables, aged, batch>>

-----------------------------------------------------------------------------
DBTypeOK ==
    /\ engine \in Engines
    /\ DOMAIN orders \subseteq Order
    /\ orders \in [DOMAIN orders -> OrderRow]
    /\ rooms \in [Room -> RoomStatus]
    /\ payments \in [Order -> Seq(Nat)]
    /\ aged \subseteq Order
    /\ lock \in [Room \cup Order -> Proc \cup {None}]
    /\ fresh \subseteq Proc
    /\ at \in [Proc -> Step]
    /\ target \in [Proc -> Room \cup Order \cup {None}]
    /\ copy \in [Proc -> OrderRow \cup RoomRow \cup {None}]
    /\ DOMAIN batch \subseteq Order
    /\ batch \in [DOMAIN batch -> OrderRow]

\* What a request holds in memory fits the step it is at.
RequestTypeOK ==
    \A p \in Proc :
        /\ at[p] = "creating" => copy[p] \in OrderRow
        /\ at[p] \in Step \ {"idle", "creating", "updating_room"}
             => target[p] \in DOMAIN orders /\ copy[p] \in OrderRow
        /\ at[p] = "updating_room" => target[p] \in Room /\ copy[p] \in RoomRow

\* The server starts on rooms the staff has created and an empty orders table.
DBInit ==
    /\ engine \in Engines
    /\ orders = [o \in {} |-> None]
    /\ rooms = [r \in Room |-> "available"]
    /\ payments = [o \in Order |-> <<>>]
    /\ aged = {}
    /\ lock = [x \in Room \cup Order |-> None]
    /\ fresh = {}
    /\ at = [p \in Proc |-> "idle"]
    /\ target = [p \in Proc |-> None]
    /\ copy = [p \in Proc |-> None]
    /\ batch = [o \in {} |-> None]
=============================================================================
