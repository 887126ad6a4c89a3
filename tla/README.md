# A verification of hotel-booking-go

TLA+ models of the booking server in `src/`, the TLC configurations that check
them on small instances, and theorems about them that TLAPS checks for every
instance.

- `tlc -config <run>.cfg MCHotelBooking` runs one of the configurations of the
  booking side.  `back_office` and `code_once` are of `MCBackOffice`, `pool` of
  `ConnectionPool`, `rate_limit` and `steady_client` of `RateLimit`.
- `tlapm` on the eight modules named `*Proofs.tla` checks the proofs.

`PROJECT.json` holds the definition-to-source map, the runs, one mutation of the
code for each property, the hazards and the findings.

## The system

A Gin server with services over GORM, on MySQL or SQLite
(`internal/config/config.go` chooses), Redis where there is one, and a cron
ticker.  Every request runs in a goroutine of its own.

| Part | State | Operations | Talks to |
| --- | --- | --- | --- |
| Order service | `orders` | create, cancel, check in, check out, extend, sweep | writes `orders` and `rooms.status` in transactions |
| Payment service, providers | `payments` | pay | locks and writes the order, calls a provider inside the transaction |
| Payment callbacks | none of its own | WeChat and Alipay callback | writes `payments` and `orders` |
| Room service | `rooms`, `room_types` | create, batch create, update, delete, availability, calendar | writes `rooms.status`; bookings read it |
| Data access | none | queries and saves of whole rows | the database |
| Cron sweep | the rows it read | cancel the expired orders | writes `orders` |
| SMS codes | one code per phone, with expiry | send, verify | Redis, or a map in memory |
| Accounts | `users`, `login_logs` | register, log in, create staff | SMS codes |
| Sessions, middleware | blacklist of tokens, request counters | authenticate, log out, limit | Redis |
| Staff administration | `users.is_active` | toggle, delete, dashboard | the database |
| Seed | the rows of a demo hotel | runs at each start | the database |
| Connection pool | connections | take, give back | every query and transaction |
| Hotels | `hotels` | create, update, list | the database |
| Routing, home page, configuration, encryption, responses | none | | |

`main.go` is not in the repository.  How the cron ticker, the connection pool
and the foreign keys are set up is therefore not known; the model only assumes
that `AutoCancelExpired` (or its twin `AutoCancelExpiredOrders` of
`seed/seed.go`) is called again and again, one call at a time.

### What is hard

1. **Bookings race for a room.**  `CreateOrder` counts conflicts and inserts
   under the lock of the room's row.  On SQLite the driver drops `FOR UPDATE`;
   what protects the booking there is that SQLite does not let a transaction
   write once another commit has overtaken its snapshot.
2. **Staff handlers read outside their transaction.**  `CancelOrder`,
   `CheckIn`, `CheckOut` and `ExtendStay` call `OrderDAO.FindByID`, which uses
   the pool and takes no lock, and save *every column* of that copy later.
3. **The sweep reads once and saves one by one**, and drops the errors.
4. **A room has one status and many orders**: it is set by whoever wrote last.
5. **Order numbers** come from the highest number read, guarded only by a
   unique index and a cap.
6. **One pool of connections** serves everyone, and five handlers ask for a
   second connection while their transaction keeps the first.
7. **Codes and sessions** are read and written in separate calls, to Redis or
   not, with errors dropped; a token carries the account as it was at login.
8. **Whole rows are saved late** in the back office too: a `Save` may bring back
   a row that was deleted, or land on the row that took its key.
9. **The seed** is a chain of creations whose errors are dropped, and the server
   may stop between any two of them.

### What makes each part correct

- orders: no night of a room is held twice; a status never moves backwards;
  numbers are dense and unique; a pending order ends.
- payments: an order is charged at most once, with its total, whatever becomes of
  the prices, and only a charged guest gets in.
- rooms: occupied exactly while a guest is in; never put into maintenance then;
  the calendar and the rooms offered agree.
- sweep: it cancels only unpaid orders, and all of them in the end.
- codes: a code is used, and codes are sent, no more often than requests can run
  at once, as long as the code is there to count by.
- sessions: a token that was logged out stays refused; a disabled account is locked
  out in the end.
- accounts and rooms: names and room numbers are unique; the administrator stays;
  a room's type is one of its hotel's.
- seed: a start in which nothing failed leaves the demo accounts there.
- request counter: it forgets requests older than its window.
- pool: requests never end up all waiting for each other.

## The modules

| Module | Models |
| --- | --- |
| `HotelDB` | tables, row locks, snapshots and commits, the queries of the DAOs |
| `OrderService` | the order service and the cron sweep |
| `PaymentService` | `Create` with the providers the repository ships |
| `RoomService` | `UpdateRoom`, as far as it writes the status |
| `RoomCalendar` | what guests are shown: the rooms offered and the month calendar |
| `RateLimit` | the request counter in Redis |
| `HotelBooking` | all of them at once: `Next`, the properties, the fairness, the inductive invariants |
| `RoomLedger` | the abstract specification: a ledger of stays |
| `MCHotelBooking` | definitions for the TLC instances |
| `Dashboard` | the dashboard's count of today's guests over the rooms |
| `Separation` | a condition that the code does not ensure: staff is kept out of other requests' way |
| `OfficeDB` | the back office's tables, codes, tokens and requests; inserts, saves and deletes under a unique index |
| `SmsCodes` | sending and verifying codes, in Redis or in memory |
| `Sessions` | login, the token check of the middleware, logout |
| `Accounts` | registration, staff creation and administration |
| `Catalogue` | hotels, room types and rooms |
| `Seed` | start, seed and stop of the server |
| `BackOffice` | the six above at once |
| `MCBackOffice` | the mixes of traffic TLC looks at |
| `ConnectionPool` | the connections that all requests share |
| `HotelBookingProofs` | type correctness; no double booking |
| `PaymentProofs` | payments agree with the status and the totals of orders, and only a payment makes an order paid |
| `OrderProofs` | nights and numbers of orders; the calendar; what the ledger promises |
| `SeparationProofs` | every handler while staff is kept apart, guests as a special case; the ledger is implemented |
| `RateLimitProofs` | the bound on every window |
| `PoolProofs` | how requests can block each other, and how not |
| `BackOfficeProofs` | type correctness of the back office; logged-out tokens; how often a code is sent and used |
| `TableProofs` | names and room numbers stay unique; rooms keep a type of their hotel; an administrator stays; a start repairs the accounts of the seed |

`HotelBooking` and `BackOffice` are two systems that share the tables of rooms and
users; each has the other's writes as actions.  `RoomService` has the staff's
writes of `rooms.status` (`UpdateRoomRead`, `UpdateRoomSave`); `Catalogue` has what
an order does to the back office's tables (`StayRead`, `StaySave`): it sets a
room's status, and it is saved together with the room and the guest that were
preloaded with it, which brings them back if they were deleted meanwhile.
`ConnectionPool` looks at the requests of both from below: as queries and
transactions.

### State

Of the booking side:

| Variable | In the code |
| --- | --- |
| `orders`, `rooms`, `payments` | the tables; `rooms` keeps `status`, `payments` the amounts of the rows with status `success` of each order |
| `engine` | the database of the deployment, fixed at the start |
| `lock` | InnoDB row locks on rooms and orders |
| `fresh` | SQLite: the open transactions no commit has overtaken since they read |
| `at`, `target`, `copy` | a request: the database call it is about to make, the row it works on, the struct it holds |
| `batch` | the slice the running sweep iterates over |
| `aged` | orders whose `created_at` is more than `AutoCancelMinutes` back |

Of the back office:

| Variable | In the code |
| --- | --- |
| `engine`, `store`, `traffic` | the deployment: database; no Redis, one that answers, one whose answers get lost; the kinds of request served |
| `users`, `hotels`, `types`, `rooms` | the tables, as sequences of all rows that ever had an id; a deleted one leaves `Gone`.  `key` is what the unique index is on |
| `codes` | minutes each phone's code is still valid |
| `tally` | history, not in the code: codes sent this minute, uses and removals of the code |
| `tokens`, `black`, `lead` | the tokens given out, with their claims and hours left by the server's clock; hours left of their blacklist entries by Redis' clock; hours that clock has gained on the server's |
| `boot` | where `seed.Run` is, the ids it got, whether a call of it failed, and (history) whether a room was stored without a type |
| `at`, `target`, `copy` | a request: the step it is at, the key it works on, the struct it holds |

Of the pool: `size` is the limit of connections, `first` and `second` the
requests that hold one, or another one besides, `lock` who has locked each row,
`at` and `todo` the step of each request and how many queries its read has left.

### Steps

A service method is split where another request can come between two of its
database calls.  `XRead` is the read, with all the checks the code makes before
it writes; `XSave` is the writes and the commit, which other requests see at
once.  `Rollback(p)` lets any database call of a request fail.  A request whose
check fails answers with an error and changes nothing: a stutter.

Why a read is *one* step: in `CreateOrder` and `PaymentService.Create` the
transaction starts with a locking read.  On MySQL at REPEATABLE READ (its
default, which GORM does not change) the snapshot of the later plain reads is
taken when the lock is held, so everything read is as of that moment.  On SQLite
the snapshot is taken by the first read.  The room, its conflicts and the last
order number thus belong together.  `ExtendStay` reads the order *outside* and
counts conflicts *inside* its transaction: it has two reading steps.

MySQL: `SelectForUpdate` waits for the row's lock and keeps it to the end of the
transaction, a write waits for the locks of others (`CanWrite`).  SQLite:
`SelectForUpdate` takes no lock; `StillCurrent` refuses a write after a read
that another commit has overtaken.  A handler that reads through the pool and
only writes in its transaction is not refused.

In the back office no transaction spans two steps, so a request is a chain of
single calls.  `Insert` does nothing when the unique index refuses, `Landing`
says which row a late `Save` writes: the row with its id; if that is gone, a new
row with the same id, unless another row has the same key by now, which MySQL's
`ON DUPLICATE KEY UPDATE` then overwrites and SQLite refuses.  `Fail` lets any
call return an error; `VerifyCodeDelete` has no error to return, for the code
drops it.  `Stop` ends the process at any moment, also within the seed, and with
it the requests and the codes in memory; `StartUp` runs the seed again.  A step
of the seed works, or fails unnoticed (`FailAndProceed`).

Two instants of the code that the model keeps apart because much depends on
them: the middleware looks at a token before the handler reads anything, and
trusts the role and hotel in it (`AdminRequest`); `UpdateRoom` has preloaded the
room's type, so `Save` overwrites the type that the request named (`WithType`),
but for a room whose type is missing: there is nothing preloaded then.  Such a room
is what the seed leaves when the creation of its room types fails; the traffic
`"untyped"` starts from one.

The middleware asks Redis for a token's blacklist entry and drops the error
(`Answers`): without Redis nothing is asked, an answering Redis is obeyed, and
one that does not answer lets the token in.  Without Redis a logout does nothing.
Tokens and entries age together (`Hour`) except where one of the clocks is set or
runs ahead (`RedisGains`, `RedisLoses`), by at most `MaxDrift` hours in all.

Dates.  The handlers parse a request's dates as midnight UTC; the MySQL driver
sends them in local time (`loc=Local`), which the Dockerfile sets to
Asia/Shanghai.  A `DATE` column is thus compared with 08:00 of the day:
`check_in < ?` then also holds of a stay that begins on the day the asked one ends,
in `CountDateConflict` of a booking and in `FindAvailableByHotel`.  `AskedEnd` is
that day as the database sees it: one later on MySQL if `ZoneAhead` is 1.  The day
a stay begins is compared with `check_out > ?`, which the hours do not change; the
extension's dates are read from the row and have no hours; SQLite stores the time
with the date and compares like with like.  West of UTC the driver would send
the day before, and every date would be stored a day early; that is not modelled.

The price of a room type changes at any time (`UpdateRoomType`); `Prices` is what
it can be, and each of `CreateOrder` and `ExtendStay` takes the one it reads.

### Abstractions

- Dates are days `0 .. MaxDay`, with 0 for today; all orders are of one calendar
  day as far as their numbers go.
- `FindAvailableByHotel` and `GetCalendar` read rooms and orders in two queries;
  `CalendarMatchesOffers` compares them on one state of the tables.
- `RateLimit`: Redis runs the two commands of the pipeline back to back; a break
  of the connection between them is `PipelineFails`.
- Guest names, identity cards and timestamps other than `aged` are left out, and
  so is the access check, which reads columns that never change.
- GORM's `Save` also inserts the preloaded associations where they are missing.
  On the booking side rooms and users are neither created nor deleted, so this
  only takes further row locks there, and leaving those out only allows more
  interleavings; where it brings deleted rows back is in `Catalogue` (`Restored`).
  The booking side starts with all rooms available, as `CreateRoom` leaves them,
  and no orders.
- A shipped provider either succeeds at once (mock) or returns an error, upon
  which everything is rolled back (WeChat, Alipay): `Rollback` from `paying`.
- Registration takes names of the length of a phone number; the hotel's seeded
  accounts and the demo guest are phone numbers, too, and may be registered first
  (`Phone` may overlap with their names).  `CreateStaff` takes any name: `StaffNames`
  are the ones that are tried, the administrator's among them.  The one thing
  assumed is that the administrator's name is not a phone number (`OfficeNames`).
- A code has no value: a request names the stored one, or it is refused.
  `SendCode`'s cooldown is read off the time the code has left, as in the code.
- Minutes and hours are ticks that concern codes and tokens only; each passes in
  the traffic that has such things.  Reading a token and reading its blacklist
  entry is one step: nothing a logout does in between can be seen.
- The order that `StayRead` reads has any room and any of the users in `Targets`:
  the booking side's orders are not repeated in the back office.
- A room type stands for the several that the seed creates in one statement.
- In the pool each query is a step, each `Preload` a query of its own; of the
  rows a transaction may lock one at a time matters.  Each order that the sweep
  saves counts as a request of its own.

### Not modelled

- `home.go` is a page that runs in the browser; `aes.go` and `response.go` are
  pure functions; `config.go` is read once at the start, its choices are the
  constants `Engines` and `Deployments`.  The Excel export, the print page, the
  listings and the sums of revenue only format what they read.
- What a payment callback saves.  `PaymentService.Create` stores a payment as
  `success` or rolls it back, with every provider in the repository, so that a
  callback finds no pending payment: it answers without a change, whatever it
  would do to one.  Its connections are in `ConnectionPool`.
- `main.go` is missing, so the pool's size and the foreign keys are unknown: the
  pool is looked at for every size, rows are deleted without regard to others
  that refer to them.
- `order_service.go:62` compares a check-in day with midnight UTC.  The hour of the
  day is not modelled; day 0 is what that comparison lets in.
- Servers west of UTC, see above.
- Who may see which order: columns that never change are compared once.

## The runs

The runs of the booking side are on both databases (`engine` is chosen by
`Init`).  Every request may fail at any call.

| Run | Instance | Checks |
| --- | --- | --- |
| `guests` | 1 room, 2 orders, 2 requests, 2 nights, `GuestHandlers` | `TypeOK`, `NoDoubleBooking`, `GuestInv`, `CalendarMatchesOffers`, `LegalStatusMoves`, `LedgerSpec` |
| `all_traffic` | 1 room, 1 order, 3 requests, 2 nights, 2 prices, every handler | `PaidOnce`, `PaidInv`, `PaidItsBill`, `PaidByPaymentOnly` |
| `apart` | 1 room, 2 orders, 2 requests, 3 nights, every handler but room updates, staff kept apart | `NoDoubleBooking`, `OccupiedHasGuest`, `OccupancyWithinRooms`, `LegalStatusMoves`, `LedgerSpec` |
| `expiry` | 2 rooms, 3 orders, 2 requests, 1 night, `MaxSeq` 2, creations, payments and the sweep, with fairness | `NumbersDense`, `PendingEnds` |
| `late_check_in` | check-in among guests | violates `NoDoubleBooking` |
| `late_sweep` | payments and the sweep | violates `AutoCancelSparesPaid` |
| `shared_room` | 1 request at a time | violates `GuestRoomNotInMaintenance` |
| `rate_limit` | 2 requests in a window of 3 ticks, counter to 5 | `WindowBounded` |
| `back_office` | 2 requests, 1 phone, 2 names for staff, 2 room numbers, up to 6 users, 3 hotels, 3 types, 3 rooms, 2 tokens; codes live 2 minutes, tokens 2 hours, clocks drift by 1; 2 starts; with fairness | `TypeOK`, `UniqueNames`, `UniqueNumbers`, `RoomTypeOfItsHotel`, `CooldownHeld`, `CodeUseBounded`, `RefusedForGood`, `AdminKept`, `BootRepairs`, `DisabledLockedOut` |
| `pool` | 4 requests, 2 of them nesting, 2 rows, reads of 2 queries, 1 to 3 connections, with fairness | `TypeOK`, `StuckOnlyByNesting`, `EveryRequestEnds` |
| `steady_client` | 2 requests in a window of 2 ticks | violates `RefusedOnlyWhenFull` |
| `code_once` | registrations of one phone, no Redis | violates `CodeUsedOnce` |

- `guests` shows that what guests can do never double books, that no order
  moves backwards, and that every commit is a move of `RoomLedger`.  Bounds: a
  conflict is between two orders and needs two requests; a stay of one night
  next to another, of one over another, and of two nights over both need two
  nights; order numbers reach the cap.  The sweep adds a third actor.
  `CalendarMatchesOffers` looks a night up in every interval of days that contains
  it: months that begin, end or lie within a stay.  On MySQL `ZoneAhead` is 1, so a
  stay is refused or held back when another begins where it ends; on SQLite the
  two touch.
- `all_traffic` asks what survives when staff save stale rows: payments and
  status still agree, an order becomes paid only from pending and only by a
  payment, and what was paid is the order's total until the guest is in, and never
  more than it.  All of this is about one order; three requests let two stale
  copies meet, as those of an extension and a check-out, while a third works on.
  Two prices tell a total from one that was recomputed.
- `apart` runs every handler over the whole life of two orders, extensions and
  the sweep included, under `StaffApartSpec` of `Separation`: while staff checks a
  guest in or out or extends a stay, nobody else works on that room and the sweep
  holds no order of it.  Guests and the sweep come as they like.  What the late
  saves break elsewhere then holds; without the condition, which the code does not
  ensure, `late_check_in` double books.  One room is where requests meet (a
  condition about one room leaves the others alone; the theorems below are for any
  number of rooms, and with room updates); three nights let an extension meet
  another order, or not; two orders for one room let the dashboard count more
  orders than rooms if it counts wrong.
- `expiry` shows that no pending order keeps its room for ever, and, with two
  rooms, whose creators do hold their locks together, that they may draw the same
  number but never keep it; with three orders and `MaxSeq` 2 the cap is reached and
  the third order is refused.

- `rate_limit` shows that a window never holds more than the allowed number of
  requests let through on Redis' answer, wherever it starts; a counter of a fixed
  window (expiry not renewed) would fail here.  The counter of one client on one
  route is enough, for they share nothing.  Three ticks separate the beginning,
  the middle and the end of a window; the counter goes past the limit by as many
  refusals as there are ticks.

- `back_office` shows that the unique keys survive rows brought back by a late
  `Save`; that concurrent sends and verifications exceed what they may by no
  more than the number of requests at once, and by which events (a verified
  code takes the cooldown with it; a restart without Redis, too; a lost removal
  leaves a code usable); that a blacklist entry outlives its token, up to the drift
  of the clocks; that no chain of requests, under whatever name, takes the last
  administrator away; that a start in
  which nothing failed leaves the demo accounts, wherever earlier ones broke off;
  and that a disabled account is locked out in the end.

  `MCDeployments` serves one mix of traffic at a time.  Kinds of request are put
  together that write what the other reads; a request for room types and one for
  a login share nothing, and their product would only multiply states.  Two
  requests are enough for a stale read, and each may be followed by more: users
  have room for two new accounts, so that a name can be deleted, given again,
  and then brought back by a late save.  `Targets` are the administrator, the
  hotel's manager and the first new account.  Two room numbers and three rows of
  rooms allow the same for numbers.  `MaxTally` is one more than the requests.
  A life of 2 separates new, half expired and expired.

- `pool` shows that requests block each other for good only when every
  connection is kept by a transaction that waits for a second one, which with a
  bounded pool does happen (`CancelOrder` on all connections at once); row locks
  add no other way.  With more connections than such requests everyone is
  answered.  Two nesters against 1, 2 and 3 connections give fewer, as many and
  more connections than nesters; two other requests compete with them for the
  pool and the rows.

Three instances of `MCHotelBooking`, in which no liveness is checked, use symmetry:
rooms, orders and requests are interchangeable.  (`LegalStatusMoves`,
`PaidByPaymentOnly` and `LedgerSpec` are safety properties.)  Deadlock checking is off
on the booking side because the server may rest: with the keys of the instance used up and no
request running, nothing has to happen.  The same goes for the back office and
the pool; that requests block each other is what `StuckOnlyByNesting` is about.

### Fairness

`FairSpec` assumes: a request that was started goes on (its goroutine runs, its
calls return or fail; a waiter is served or times out, which is `Rollback`);
the clock moves; cron ticks, so the sweep reads; the sweep's save of an order
is *strongly* fair, because it waits for a row lock that payments take and
release, and InnoDB serves waiters in turn; and the sweep's transactions fail
finitely often.  The last one is needed: `AutoCancelExpired` drops errors, and
if every transaction failed no order would ever be swept.  Nothing is assumed
about guests: no request has to be made.

In the back office hours pass, and a request that was started goes on; nobody has
to log in or out, to send a code, or to stop the server.  In the pool, the calls
of a request return (`WF` of `Proceed`); taking a connection is *strongly* fair,
because `database/sql` hands a connection that comes free to a request that
waits for one, and the others of the queue are not passed over for ever.  That a
request arrives is not assumed.

## Findings

- **`late_check_in`** (`order_service.go:199`).  The repository's README promises
  row locks against overselling.  `CheckIn` reads the order outside its
  transaction.  Read paid; the guest cancels; another guest books the night; the
  check-in saves its copy: two orders hold the night.  `CheckOut` and
  `ExtendStay` save stale rows in the same way.
- **`late_sweep`** (`order_service.go:413`).  "Cancel unpaid orders": an order
  paid between the sweep's query and its save is cancelled, its payment kept.
- **`shared_room`** (`room_service.go:153`).  "An occupied room cannot be put
  into maintenance": the check looks only at `rooms.status`, which staff may set
  to available while the guest is in, and which cancelling or checking out
  another order of that room sets to available as well.  Two calls, one after
  the other, are enough.
- **`steady_client`** (`ratelimit.go:27`).  "A sliding window": every request,
  refused ones too, renews the expiry of the counter, so that only a window
  without requests resets it.  A client that stays under the limit in every
  window is refused in the end, and as long as it keeps asking.

- **`code_once`** (`sms.go:130`).  "A code is one-time": reading it and removing it
  are two calls, and two registrations that read it before either removes it are
  both accepted.  `CodeUseBounded` says how far it can go.

Not findings, for the repository says nothing against them, but worth knowing: after
a stop between the creation of the demo hotel and its staff, the accounts of
`README.md:47-52` that belong to the hotel are never made (`BootRepairs` leaves this
case out); a logged-out token is accepted while Redis does not answer, and a logout
does nothing without Redis; on MySQL ahead of UTC a stay cannot end on the day
another begins; a deleted account or room comes back with the late save of an
account, a room or an order.

## The proofs

Assumed of the booking side's constants: keys are distinct (`KeysAssumption`),
the bounds are naturals (`BoundsAssumption`), prices are naturals
(`PriceAssumption`), `ZoneAhead` is 0 or 1 (`ZoneAssumption`), and the traffic and databases are among those modelled
(`TrafficAssumption`).  Sets of rooms, orders and requests may be infinite.

- `TypeCorrect`: `Spec => []TypeOK`.  `TypeOK` is inductive by itself because it
  also says what a request holds at each step (`RequestTypeOK`): a save is well
  typed only if the copy is.
- `GuestsNeverDoubleBook`: if `Handlers \subseteq GuestHandlers`, then
  `Spec => []NoDoubleBooking`.  `NoDoubleBooking` is not inductive: nothing in it
  says that the nights a creator has counted stay free.  `GuestInv` adds it: a
  creator holds its room's lock (MySQL), and as long as it is current (SQLite)
  its nights are free; and the copy of a payer is the order's row.  The key
  lemmas: a save of a row that takes no new night keeps the orders apart and
  takes no free night away (`NoNightTaken`); other saves are made under the lock
  or overtake the snapshot.  The assumption is necessary, as `late_check_in`
  shows.
- `PaymentsMatchOrders`: `Spec => []PaidOnce` with *every* handler.  `PaidInv`
  adds that a payer that holds the lock or is current is alone with its order,
  which is still pending and has no payment; that the copies of staff handlers
  were read from orders that had been paid (nothing takes a payment back), with
  the status their check asked for; and that keys not given out have none.
- `PaymentsMakePaid`: `Spec => PaidByPaymentOnly` with every handler, from the
  same invariant: a staff handler's stale copy is of a later status than pending,
  so its save never turns a pending order into a paid one.
- `PaymentsMatchBills`: `Spec => []PaidItsBill` with every handler.  Late saves
  write the total they read.  `BillInv` adds that a row read before the guest was in
  (by who cancels, checks in or pays, and by the sweep) has the total that was or
  will be paid (`Billed`), that the other copies have at least what was paid
  (`Covered`), and that the sweep holds only orders that exist.  The lemmas say that
  no step makes a total wrong that was right (`KeepsBills`), whoever holds it.
- `CalendarCorrect`: `Spec => []CalendarMatchesOffers`, with every handler.  An
  overlap with a stay is a common night, which needs that no order is empty:
  `RowsWellMade` says so of the tables, of the rows requests hold and of the sweep's.
  On MySQL the common night may be the one after the stay.
- `NumbersStayDense`: `Spec => []NumbersDense` with every handler.  `NumbersInv`
  adds that copies in memory have the number of their row, which saves therefore
  never change, and that below the number a creator has drawn all are taken; the
  unique index decides between two creators with the same one.
- `LedgerNeverDoubleBooks`: `LedgerSpec => []NoDoubleBooking`.  The ledger is
  strong enough: in it stays are apart (`StaysDisjoint`), since each enters, or
  grows, where it is free.  An implementation of it has nothing more to show.
- `ApartNeverDoubleBook`, `ApartHasGuests`, `ApartMovesForward`,
  `ApartKeepsLedger` and, for finitely many rooms, `ApartFitsRooms`: every
  handler, extensions and the sweep included, keeps `NoDoubleBooking`,
  `OccupiedHasGuest`, `LegalStatusMoves`, `LedgerSpec` and
  `OccupancyWithinRooms` under `StaffApartSpec`.  The invariant is `ApartInv`.  It
  says what each request, and the sweep, may rely on: a creator on the nights it
  has counted; a payer on its row; who cancels, and the sweep, on the nights of
  the row it holds and on its guest not being in (`EarlyCopy`), though the order
  may have been paid or cancelled meanwhile; staff on its row, and on the nights
  it adds being free (`StaffCopy`).  The lemmas say what a step does to the
  orders of the one room it works on (`RoomSave`), the less that guests and the
  sweep can do (`GuestSave`), and that each holding survives the others' steps:
  `EarlyCopy` survives `GuestSave`, the rest needs another room or a lock.  An
  extension is a `Prolong` of the ledger, a check-out a `Strike`.
- `GuestsMoveForward` and `GuestsKeepLedger`: if
  `Handlers \subseteq GuestHandlers`, then `Spec => LegalStatusMoves` and
  `Spec => LedgerSpec`.  There is no staff to be kept apart (`GuestsAreApart`,
  by `GuestInvariant`), so they follow from the theorems on `StaffApartSpec`.

`GuestInv` and `PaidInv` are theorems of their own (`GuestInvariant`,
`PaidInvariant`), and TLC checks them as invariants of `guests` and
`all_traffic`.

Of the request counter only its constants' types are assumed
(`WindowAssumption`).

- `WindowStaysBounded`: `Spec => []WindowBounded`.  `LimitInv` adds
  (`PassedCounted`) that the counter is at least the number of requests let
  through within the window, hence none were when there is no key; and that they
  are at least as old as the key's life has run down, for each of them renewed
  the expiry: when the key ends they have left the window.
  The bound is on a sum over the ticks of a window.  Induction is out of the
  prover's reach as a rule that takes a predicate; the lemmas on sums argue from
  a smallest counterexample instead, among the naturals or the finite sets:
  that `FoldFunction` computes a sum, that the order does not matter
  (`SumsUnique`), what one more request adds (`TotalRecord`), and that a tick
  shifts the window (`TotalOlder`).

Assumed of the pool: finitely many requests, a row, pools of at least one
connection, reads of at least one query (`PoolConstants`).

- `PoolTypeCorrect`: `Spec => []TypeOK`, that is, who holds a connection is
  determined by the step each request is at, and the pool is never overdrawn.
- `OnlyNestingSticks`: `Spec => []StuckOnlyByNesting`.  `LockHolderWrites` is the
  strengthening: who holds a row lock is at its write, so a stuck system has no
  lock taken; then every connection is with a request that waits for a second.
- `EnoughNeverStick`: when there are more connections than requests of the five
  handlers, `Spec => []~Stuck`; the nesting ones are too few to keep the pool.

Assumed of the back office: the bounds have room for a running server
(`OfficeBounds`), deployments are among those modelled (`OfficeTraffic`), `Gone`
is not a row (`GoneIsNoRow`), the administrator's name is not a phone number and
`None` is no hotel (`OfficeNames`).

- `OfficeTypeCorrect`: `Spec => []TypeOK`.  `Fits` says what a request holds at
  each step; the ids it holds stay valid because tables do not shrink.
- `RefusedStaysRefused`: `Spec => RefusedForGood`, about the answers of a Redis that
  answers.  The strengthening (`EntriesOutlive`): an entry on the blacklist has at
  least as long to live as its token, but for the hours that Redis' clock is ahead.
- `NamesStayUnique`, `NumbersStayUnique`: `Spec => []UniqueNames` and
  `Spec => []UniqueNumbers`.  Uniqueness is not inductive, because a `Save`
  writes a whole row that was read earlier.  `KeysInv` adds, of the pairs of an
  id and a key that requests hold for a save: the pair agrees with the row while
  it is there, and two requests hold an id with the same key only.  So a `Save`
  either writes the key that is there, or brings it back when no other row has
  it, or lands on the row that does.

- `TypesStayOfTheirHotel`: `Spec => []RoomTypeOfItsHotel`.  No call moves a type
  to another hotel, and `TypesInv` says of every row, every copy and every batch
  in memory, and of the seed's ids, that its type is one of its hotel, as long as
  no room was stored without a type.  `UpdateRoom` keeps that because `Save`
  overwrites the requested type with the preloaded one.
- `AdminStays`: `Spec => AdminKept`.  `StaffInv` says of rows, copies in memory and
  tokens that who has the role `super_admin` has the administrator's name and no
  hotel, and that a copy that may be written over the administrator's row has its
  role (`CopyFits`).  A delete never aims at that row: the administrator does not
  delete itself, and others only delete staff of their hotel.  `Known` is what the
  argument takes from the theorems before it: types, unique names, the seed's ids.
- `StartsRepair`: `Spec => BootRepairs`.  `BootInv` says of each step of a start
  what it has found or made so far if no call failed (`Seeded`), and that no
  request is served before the server is up, so nobody takes it away meanwhile.
- `CooldownStaysHeld` and `CodeUseStaysBounded`, for finitely many requests:
  `Spec => []CooldownHeld` and `Spec => []CodeUseBounded`.  The invariant
  `CodesInv` counts the requests that have passed a check and not yet acted on
  it (`Waiting`).  While a code is new nobody joins those about to send, so the
  codes sent and the requests waiting to send share the bound; while a code is
  valid each use of it was a lost removal; and once it is gone nobody joins those
  that have read it.

Only model-checked: what must eventually happen (`PendingEnds`,
`EveryRequestEnds`, `DisabledLockedOut`), for liveness under fairness is out of
the prover's reach.  Every invariant and every action property of the passing
runs is proved, those of `apart` and `guests` under the conditions named.

## What is left

No part of the server is left to model besides those named above, and every
property of the passing runs that the prover can reach is proved.
