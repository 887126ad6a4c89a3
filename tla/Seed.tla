--------------------------------- MODULE Seed ---------------------------------
(***************************************************************************)
(* seed.Run at the start of the server: the platform's administrator, a    *)
(* demonstration hotel with its staff, room types and rooms, and a guest.  *)
(* Each row is created by a call of its own, whose error is dropped; the   *)
(* rows of the hotel are created only when the hotel was missing.  The     *)
(* server can stop at any moment, also within the seed.                    *)
(***************************************************************************)
EXTENDS OfficeDB

Present(name) == Rivals(users, name) # {}
DemoHotels == {h \in DOMAIN hotels : hotels[h].name = "demo"}

Boots(step) == boot.step = step
Proceed(step) == boot' = [boot EXCEPT !.step = step]
FailAndProceed(step) == boot' = [boot EXCEPT !.step = step, !.failed = TRUE]

\* db.Create of a user: it works, or it fails and the seed goes on.  A lookup
\* that fails is taken for a missing row, too; the unique index then refuses.
SeedUser(row, step) ==
    /\ \/ /\ Rivals(users, row.key) = {} /\ Len(users) < MaxUsers
          /\ users' = Append(users, row) /\ Proceed(step)
       \/ UNCHANGED users /\ FailAndProceed(step)
    /\ UNCHANGED <<deployment, hotels, types, rooms, smsVars, sessionVars, requests>>

Skip(step) ==
    /\ Proceed(step)
    /\ UNCHANGED <<deployment, tables, smsVars, sessionVars, requests>>

StartUp ==
    /\ Boots("down") /\ boot.starts < MaxStarts
    /\ boot' = [boot EXCEPT !.step = "admin", !.starts = @ + 1]
    /\ UNCHANGED <<deployment, tables, smsVars, sessionVars, requests>>

\* Fault: the seed takes a database with an administrator for complete.
SeedAdminOnce ==
    /\ Boots("admin")
    /\ \/ Present("admin") /\ Skip("up")
       \/ SeedUser(User("admin", "super_admin", None), "hotel")

SeedAdmin ==
    /\ Boots("admin")
    /\ \/ Present("admin") /\ Skip("hotel")
       \/ SeedUser(User("admin", "super_admin", None), "hotel")

\* When its creation fails the hotel's id stays 0, and the rest follows.  No
\* index keeps a second hotel out when the lookup fails.
SeedHotel ==
    /\ Boots("hotel")
    /\ \/ DemoHotels # {} /\ Skip("guest")
       \/ /\ Len(hotels) < MaxHotels
          /\ hotels' = Append(hotels, [name |-> "demo"])
          /\ boot' = [boot EXCEPT !.step = "manager", !.hotel = Len(hotels) + 1,
                                  !.failed = @ \/ DemoHotels # {}]
          /\ UNCHANGED <<deployment, users, types, rooms, smsVars, sessionVars, requests>>
       \/ /\ FailAndProceed("manager")
          /\ UNCHANGED <<deployment, tables, smsVars, sessionVars, requests>>

SeedManager ==
    Boots("manager") /\ SeedUser(User("manager", "hotel_admin", boot.hotel), "clerk")

SeedClerk ==
    Boots("clerk") /\ SeedUser(User("clerk", "front_desk", boot.hotel), "types")

\* All room types in one INSERT; when it fails their ids stay 0.
SeedTypes ==
    /\ Boots("types")
    /\ \/ /\ Len(types) < MaxTypes
          /\ types' = Append(types, [hotel |-> boot.hotel, active |-> TRUE])
          /\ boot' = [boot EXCEPT !.step = "rooms", !.type = Len(types) + 1]
       \/ UNCHANGED types /\ FailAndProceed("rooms")
    /\ UNCHANGED <<deployment, users, hotels, rooms, smsVars, sessionVars, requests>>

\* The rooms in the order of their numbers.  (`untyped', history: some room was
\* stored without a type.)
SeedRoom(n) ==
    /\ Boots("rooms")
    /\ \A m \in Number : m > n => Rivals(rooms, <<boot.hotel, m>>) = {}
    /\ Rivals(rooms, <<boot.hotel, n>>) = {} /\ Len(rooms) < MaxRooms
    /\ rooms' = Append(rooms, NewRoom(boot.hotel, n, boot.type))
    /\ boot' = [boot EXCEPT !.untyped = @ \/ boot.type = 0]
    /\ UNCHANGED <<deployment, users, hotels, types, smsVars, sessionVars, requests>>

RoomsSeeded(h) == \A n \in Number : Rivals(rooms, <<h, n>>) # {}

\* The loop over the rooms is over; an insert in it may have failed.
SeedRoomsDone ==
    /\ Boots("rooms")
    /\ IF RoomsSeeded(boot.hotel) THEN Proceed("guest") ELSE FailAndProceed("guest")
    /\ UNCHANGED <<deployment, tables, smsVars, sessionVars, requests>>

SeedGuest ==
    /\ Boots("guest")
    /\ \/ Present("demo_guest") /\ Skip("up")
       \/ SeedUser(User("demo_guest", "guest", None), "up")

\* The process ends: requests and codes in memory are lost.
Stop ==
    /\ "restart" \in traffic /\ ~Boots("down")
    /\ boot' = [boot EXCEPT !.step = "down", !.hotel = 0, !.type = 0, !.failed = FALSE]
    /\ at' = [p \in Proc |-> "idle"]
    /\ target' = [p \in Proc |-> None] /\ copy' = [p \in Proc |-> None]
    /\ IF store = "memory"
         THEN /\ codes' = [ph \in Phone |-> 0]
              /\ tally' = [ph \in Phone |->
                             IF codes[ph] = 0 THEN tally[ph] ELSE CodeLost(tally[ph])]
         ELSE UNCHANGED smsVars
    /\ UNCHANGED <<deployment, tables, sessionVars>>
=============================================================================
