------------------------------- MODULE OfficeDB -------------------------------
(***************************************************************************)
(* What the back office works on: the tables of accounts, hotels, room     *)
(* types and rooms, the verification codes, the tokens and their blacklist,*)
(* the start-up of the server, and the requests in progress.  A table is   *)
(* the sequence of the rows it ever gave an id to (ids count up and are not*)
(* used again); a deleted row leaves Gone behind.                          *)
(*                                                                         *)
(* As in HotelDB, a request is split where another one can come between two*)
(* of its calls: `at' is the step it is at, `target' the key it works on,  *)
(* `copy' the struct it holds.                                             *)
(***************************************************************************)
EXTENDS Integers, Sequences, FiniteSets

CONSTANTS
    Proc,       \* requests the server can be serving at the same time
    Phone,      \* telephone numbers guests register with
    StaffNames, \* bound: names that staff accounts are created under
    Number,     \* room numbers
    MaxUsers, MaxHotels, MaxTypes, MaxRooms,    \* bounds: ids of each table
    MaxStarts,  \* bound: starts of the server that are followed
    MaxTokens,  \* bound: tokens in use at the same time
    MaxTally,   \* bound: how far uses of a code are counted
    CodeLife,   \* minutes a code is valid (5)
    TokenLife,  \* hours a token is valid (JWTExpireHours)
    MaxDrift,   \* bound: hours the clocks of server and Redis drift apart
    Targets,    \* bound: the users that log in and that staff requests name
    Deployments,    \* a database, a Redis and the kinds of request served together
    None, Gone

OfficeHandlers ==
    {"send_code", "register", "create_staff", "toggle", "delete_staff", "login",
     "logout", "create_room", "batch", "update_room", "delete_room",
     "create_type", "update_type", "create_hotel", "update_hotel", "stays",
     "restart", "first_boot", "untyped"}

\* A server that runs has its seed and a second hotel: they fit in the bounds.
ASSUME OfficeBounds ==
    /\ MaxUsers \in Nat /\ MaxUsers >= 4 /\ MaxHotels \in Nat /\ MaxHotels >= 2
    /\ MaxTypes \in Nat /\ MaxTypes >= 2 /\ MaxRooms \in Nat /\ MaxRooms >= 1
    /\ MaxTokens \in Nat /\ MaxTally \in Nat /\ MaxStarts \in Nat \ {0}
    /\ CodeLife \in Nat \ {0} /\ TokenLife \in Nat \ {0} /\ MaxDrift \in Nat
    /\ Number \subseteq Nat /\ Targets \subseteq Nat \ {0}
ASSUME OfficeTraffic ==
    Deployments \subseteq
        {"mysql", "sqlite"} \X {"memory", "redis", "flaky"} \X SUBSET OfficeHandlers

VARIABLES
    engine,     \* the database of this deployment
    store,      \* no Redis, a Redis that answers, one whose answers get lost
    traffic,    \* the kinds of request served
    users, hotels, types, rooms,    \* tables
    codes,      \* minutes each phone's code is still valid, 0 when there is none
    tally,      \* history: sends and removals of this minute, uses of this code
    tokens,     \* the tokens given out: their claims and the hours left
    black,      \* hours the blacklist entry of each token stays, by Redis' clock
    lead,       \* hours Redis' clock has gained on the server's
    boot,       \* the server's start-up, step by step
    at, target, copy

deployment == <<engine, store, traffic>>
tables == <<users, hotels, types, rooms>>
smsVars == <<codes, tally>>
sessionVars == <<tokens, black, lead>>
requests == <<at, target, copy>>
vars == <<deployment, tables, smsVars, sessionVars, boot, requests>>

-----------------------------------------------------------------------------
(* Rows. *)

Role == {"super_admin", "hotel_admin", "front_desk", "guest"}
SeedName == {"admin", "manager", "clerk", "demo_guest"}
Name == SeedName \cup Phone
HotelId == 0 .. MaxHotels       \* 0: the id of a hotel that could not be created
TypeId == 0 .. MaxTypes
Token == 1 .. MaxTokens

\* key: the columns of the table's unique index.
UserRow == [key : Name, role : Role, hotel : HotelId \cup {None}, active : BOOLEAN]
RoomRow == [key : HotelId \X Number, type : TypeId,
            status : {"available", "occupied", "maintenance"}]
TypeRow == [hotel : HotelId, active : BOOLEAN]
HotelRow == [name : {"demo", "other"}]

User(name, role, hotel) == [key |-> name, role |-> role, hotel |-> hotel, active |-> TRUE]
NewRoom(h, n, ty) == [key |-> <<h, n>>, type |-> ty, status |-> "available"]

ASSUME GoneIsNoRow == Gone \notin UserRow \cup RoomRow

\* The name of the platform's administrator is shorter than a telephone number;
\* the other seeded accounts are named like one, and a guest may have theirs.
ASSUME OfficeNames == "admin" \notin Phone /\ StaffNames \subseteq Name /\ None \notin Nat

Live(t) == {id \in DOMAIN t : t[id] # Gone}
Rivals(t, key) == {id \in Live(t) : t[id].key = key}

\* Fault: the unique index is missing.
InsertAnyway(t, row) == Append(t, row)

\* INSERT: nothing is written when the unique index refuses the row.
Insert(t, row) == IF Rivals(t, row.key) = {} THEN Append(t, row) ELSE t

Delete(t, id) == [t EXCEPT ![id] = Gone]

\* The rows a Save can write.  Its UPDATE finds the row by id; if there is none
\* any more Save creates it, and if a row with the same key has taken its place
\* MySQL's ON DUPLICATE KEY UPDATE writes that row; SQLite refuses.
Landing(t, id, key) ==
    IF id \in Live(t) \/ Rivals(t, key) = {} THEN {id}
    ELSE {x \in Rivals(t, key) : engine = "mysql"}

\* The rows that were preloaded with an order are saved with it, as an INSERT
\* that does nothing when their id or their key is there.
Restored(t, id, row) ==
    IF id \in Live(t) \/ Rivals(t, row.key) # {} THEN t ELSE [t EXCEPT ![id] = row]

-----------------------------------------------------------------------------
(* Requests. *)

Step == {"idle", "sending", "matched", "finding", "enrolling", "logging_in",
         "toggle_checked", "toggling", "deleting_staff", "creating_room",
         "batching", "updating_room", "deleting_room", "updating_type",
         "updating_hotel", "saving_order"}

Free(p, kind) == kind \in traffic /\ boot.step = "up" /\ at[p] = "idle"

Holding(p, step, x, row) ==
    /\ at' = [at EXCEPT ![p] = step]
    /\ target' = [target EXCEPT ![p] = x]
    /\ copy' = [copy EXCEPT ![p] = row]

Answered(p) == Holding(p, "idle", None, None)

\* Any call may fail, a row may be gone or an index refuse: the request answers
\* with an error.  Only the removal of a code has no error to report.
Fail(p) ==
    /\ at[p] \notin {"idle", "matched"}
    /\ Answered(p)
    /\ UNCHANGED <<deployment, tables, smsVars, sessionVars, boot>>

-----------------------------------------------------------------------------
BatchRow == [hotel : HotelId, type : TypeId, todo : SUBSET Number]
Tally == [sent : Nat, cleared : Nat, used : Nat, kept : Nat]
Claims == [user : Nat, role : Role, hotel : HotelId \cup {None}, left : 0 .. TokenLife]
Preloads == [room : RoomRow, user : DOMAIN users, guest : UserRow]
BootStep == {"down", "admin", "hotel", "manager", "clerk", "types", "rooms", "guest", "up"}

\* How a tally goes on: a code was sent; one was accepted, and was removed or
\* stayed behind (0 or 1 each); it was removed without use; a minute passed.
CodeSent(c) == [sent |-> c.sent + 1, cleared |-> c.cleared, used |-> 0, kept |-> 0]
CodeUsed(c, removed, lost) ==
    [sent |-> c.sent, cleared |-> c.cleared + removed, used |-> c.used + 1, kept |-> c.kept + lost]
CodeLost(c) == [sent |-> c.sent, cleared |-> c.cleared + 1, used |-> c.used, kept |-> c.kept]
MinuteOver(c) == [sent |-> 0, cleared |-> 0, used |-> c.used, kept |-> c.kept]

NoToken == [user |-> 0, role |-> "guest", hotel |-> None, left |-> 0]

\* What a request holds at each step.
Fits(step, x, row) ==
    /\ step = "idle" => x = None /\ row = None
    /\ step \in {"sending", "matched"} => x \in Phone /\ row = None
    /\ step \in {"finding", "enrolling"} => x \in Name /\ row \in UserRow /\ row.key = x
    /\ step \in {"toggle_checked", "deleting_staff"} => x \in DOMAIN users /\ row = None
    /\ step \in {"logging_in", "toggling"} => x \in DOMAIN users /\ row \in UserRow
    /\ step = "creating_room" => row \in RoomRow
    /\ step = "batching" => row \in BatchRow
    /\ step = "updating_room" => x \in DOMAIN rooms /\ row \in RoomRow
    /\ step = "deleting_room" => x \in DOMAIN rooms /\ row = None
    /\ step = "updating_type" => x \in DOMAIN types /\ row \in TypeRow
    /\ step = "updating_hotel" => x \in DOMAIN hotels /\ row \in HotelRow
    /\ step = "saving_order" => x \in DOMAIN rooms /\ row \in Preloads

TablesTypeOK ==
    /\ users \in Seq(UserRow \cup {Gone}) /\ Len(users) <= MaxUsers
    /\ rooms \in Seq(RoomRow \cup {Gone}) /\ Len(rooms) <= MaxRooms
    /\ types \in Seq(TypeRow) /\ Len(types) <= MaxTypes
    /\ hotels \in Seq(HotelRow) /\ Len(hotels) <= MaxHotels

SmsTypeOK == codes \in [Phone -> 0 .. CodeLife] /\ tally \in [Phone -> Tally]

SessionsTypeOK ==
    tokens \in [Token -> Claims] /\ black \in [Token -> 0 .. TokenLife] /\ lead \in 0 .. MaxDrift

BootTypeOK ==
    boot \in [step : BootStep, hotel : HotelId, type : TypeId, failed : BOOLEAN,
              untyped : BOOLEAN, starts : 0 .. MaxStarts]

RequestsTypeOK ==
    /\ at \in [Proc -> Step]
    /\ DOMAIN target = Proc /\ DOMAIN copy = Proc
    /\ \A p \in Proc : Fits(at[p], target[p], copy[p])

OfficeTypeOK ==
    /\ deployment \in Deployments
    /\ TablesTypeOK /\ SmsTypeOK /\ SessionsTypeOK /\ BootTypeOK /\ RequestsTypeOK

-----------------------------------------------------------------------------
NoTally == [sent |-> 0, cleared |-> 0, used |-> 0, kept |-> 0]

\* The first start on an empty database.
FirstBoot ==
    /\ users = <<>> /\ hotels = <<>> /\ types = <<>> /\ rooms = <<>>
    /\ tokens = [t \in Token |-> NoToken]
    /\ boot = [step |-> "down", hotel |-> 0, type |-> 0, failed |-> FALSE,
               untyped |-> FALSE, starts |-> 0]

\* A server that has run for a while: the rows of the seed, a second hotel with
\* a room type, the platform's and the hotel's administrators logged in.  The
\* seed may have failed to create the room types of its hotel.
Running(untyped) ==
    /\ users = <<User("admin", "super_admin", None), User("manager", "hotel_admin", 1),
                 User("clerk", "front_desk", 1), User("demo_guest", "guest", None)>>
    /\ hotels = <<[name |-> "demo"], [name |-> "other"]>>
    /\ types = IF untyped THEN <<[hotel |-> 2, active |-> TRUE]>>
               ELSE <<[hotel |-> 1, active |-> TRUE], [hotel |-> 2, active |-> TRUE]>>
    /\ \E n \in Number : /\ rooms = <<NewRoom(1, n, IF untyped THEN 0 ELSE 1)>>
                        /\ \A m \in Number : n <= m
    /\ tokens = [t \in Token |->
                   CASE t = 1 -> [user |-> 1, role |-> "super_admin", hotel |-> None,
                                  left |-> TokenLife]
                     [] t = 2 -> [user |-> 2, role |-> "hotel_admin", hotel |-> 1,
                                  left |-> TokenLife]
                     [] OTHER -> NoToken]
    /\ boot = [step |-> "up", hotel |-> 0, type |-> 0, failed |-> FALSE,
               untyped |-> untyped, starts |-> 1]

OfficeInit ==
    /\ \E d \in Deployments : engine = d[1] /\ store = d[2] /\ traffic = d[3]
    /\ IF "first_boot" \in traffic THEN FirstBoot ELSE Running("untyped" \in traffic)
    /\ codes = [ph \in Phone |-> 0] /\ tally = [ph \in Phone |-> NoTally]
    /\ black = [t \in Token |-> 0] /\ lead = 0
    /\ at = [p \in Proc |-> "idle"]
    /\ target = [p \in Proc |-> None] /\ copy = [p \in Proc |-> None]
=============================================================================
