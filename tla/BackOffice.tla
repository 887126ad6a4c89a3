------------------------------ MODULE BackOffice ------------------------------
(***************************************************************************)
(* The back office of the server: accounts, sessions, verification codes   *)
(* and the catalogue of rooms, their requests interleaved at every call    *)
(* with each other, the clock, and stops and starts of the server.         *)
(***************************************************************************)
EXTENDS Accounts, Catalogue, Seed

AccountRequest(p) ==
    \/ \E ph \in Phone : SendCodeRead(p, ph) \/ VerifyCodeRead(p, ph)
    \/ \E u \in DOMAIN users : LoginRead(p, u)
    \/ \E t \in Token :
         \/ \E name \in StaffNames, role \in Role, h \in DOMAIN hotels : CreateStaff(p, t, name, role, h)
         \/ \E u \in Targets \cap DOMAIN users : ToggleStaff(p, t, u) \/ DeleteStaff(p, t, u)

StayRequest(p) == \E r \in DOMAIN rooms, u \in DOMAIN users : StayRead(p, r, u)

HotelRequest(p, t) ==
    \E name \in {"demo", "other"} :
        CreateHotel(p, t, name) \/ \E h \in DOMAIN hotels : UpdateHotelRead(p, t, h, name)

TypeRequest(p, t) ==
    \/ \E h \in DOMAIN hotels : CreateRoomType(p, t, h)
    \/ \E ty \in DOMAIN types, active \in BOOLEAN : UpdateRoomTypeRead(p, t, ty, active)

RoomRequest(p, t) ==
    \/ \E h \in DOMAIN hotels, ty \in DOMAIN types :
         \/ \E n \in Number : CreateRoomRead(p, t, h, ty, n)
         \/ \E numbers \in SUBSET Number \ {{}} : BatchCreateRead(p, t, h, ty, numbers)
    \/ \E r \in DOMAIN rooms :
         \/ DeleteRoomRead(p, t, r)
         \/ \E ty \in TypeId, status \in {"available", "occupied", "maintenance"} :
              UpdateRoomRead(p, t, r, ty, status)

CatalogueRequest(p, t) == HotelRequest(p, t) \/ TypeRequest(p, t) \/ RoomRequest(p, t)

Continue(p) ==
    \/ SendCodeSave(p) \/ VerifyCodeDelete(p)
    \/ FindByUsername(p) \/ CreateUser(p)
    \/ \E t \in Token : LoginIssue(p, t)
    \/ ToggleStaffRead(p) \/ ToggleStaffSave(p) \/ DeleteUser(p)
    \/ UpdateHotelSave(p) \/ UpdateRoomTypeSave(p)
    \/ CreateRoomInsert(p) \/ BatchCreateNext(p) \/ BatchCreateDone(p)
    \/ UpdateRoomSave(p) \/ DeleteRoom(p) \/ StaySave(p)
    \/ Fail(p)

Boot ==
    \/ StartUp \/ SeedAdmin \/ SeedHotel \/ SeedManager \/ SeedClerk \/ SeedTypes
    \/ \E n \in Number : SeedRoom(n)
    \/ SeedRoomsDone \/ SeedGuest

Outside ==
    \/ Minute \/ Hour \/ RedisGains \/ RedisLoses \/ Stop
    \/ \E t \in Token : Logout(t)

Next ==
    \/ \E p \in Proc :
         \/ AccountRequest(p) \/ StayRequest(p)
         \/ \E t \in Token : CatalogueRequest(p, t)
         \/ Continue(p)
    \/ Boot
    \/ Outside

Init == OfficeInit
Spec == Init /\ [][Next]_vars

\* A request that was started goes on until it is answered, and hours pass.
\* Nobody has to log in, log out or make a request.
FairSpec == Spec /\ WF_vars(Hour) /\ \A p \in Proc : WF_vars(Continue(p))

-----------------------------------------------------------------------------
(* Types: what each table, token and request can hold. *)
TypeOK == OfficeTypeOK

(***************************************************************************)
(* A user name belongs to one account and a room number to one room of a   *)
(* hotel, whatever registrations, staff and room requests run into each    *)
(* other, and also when a late Save brings a deleted row back.             *)
(***************************************************************************)
UniqueKeys(t) == \A a, b \in Live(t) : a # b => t[a].key # t[b].key
UniqueNames == UniqueKeys(users)
UniqueNumbers == UniqueKeys(rooms)

(***************************************************************************)
(* A room's type is one of its own hotel, unless the seed has stored a room*)
(* without a type.  CreateRoom checks it; UpdateRoom takes any type from   *)
(* the request, and only what Save makes of it keeps the room's own.  A    *)
(* room that has none can so get the type of another hotel.                *)
(***************************************************************************)
RoomTypeOfItsHotel ==
    ~boot.untyped => \A r \in Live(rooms) : TypeOfHotel(rooms[r].type, rooms[r].key[1])

(***************************************************************************)
(* The cooldown, as far as it goes: in one minute a phone is sent no more  *)
(* codes than requests can run at once, unless its code was removed        *)
(* meanwhile.  A code that was verified, and a restart without Redis, take *)
(* the cooldown with them.                                                 *)
(***************************************************************************)
CooldownHeld ==
    \A ph \in Phone : tally[ph].sent <= Cardinality(Proc) * (1 + tally[ph].cleared)

(***************************************************************************)
(* A code that was sent once is accepted by no more requests than can read *)
(* it at once, and one more for every removal that Redis loses.            *)
(***************************************************************************)
CodeUseBounded ==
    \A ph \in Phone : tally[ph].used <= Cardinality(Proc) + tally[ph].kept

(***************************************************************************)
(* sms.go calls a code one-time: it is accepted once.                      *)
(***************************************************************************)
CodeUsedOnce == \A ph \in Phone : tally[ph].used <= 1

(***************************************************************************)
(* A token that a Redis that answers has refused, because it was logged out*)
(* is not accepted by an answering Redis again, but for as many of its last*)
(* hours as Redis' clock can be ahead: the entry outlives the token.  When *)
(* Redis does not answer the token is accepted all the same.               *)
(***************************************************************************)
RefusedForGood ==
    [][\A t \in Token :
         Accepted(t, TRUE)' /\ ~Accepted(t, TRUE)
           => tokens[t].left = 0 \/ tokens'[t].left <= MaxDrift]_vars

(***************************************************************************)
(* The platform keeps its administrator: no sequence of creating, toggling,*)
(* deleting and late saves of staff, also under the administrator's name,  *)
(* removes that account or takes its role away.                            *)
(***************************************************************************)
Admins == {u \in Live(users) : users[u].role = "super_admin"}
AdminKept == [][Admins # {} => Admins' # {}]_vars

(***************************************************************************)
(* A start of the server in which no call failed ends with the demo        *)
(* accounts of the README there, wherever earlier starts broke off.  The   *)
(* staff and rooms of the hotel are only promised by the start that created*)
(* the hotel.                                                              *)
(***************************************************************************)
BootRepairs ==
    [][~Boots("up") /\ Boots("up")' /\ ~boot'.failed
         => /\ Present("admin")' /\ Present("demo_guest")'
            /\ DemoHotels' # {}
            /\ boot.hotel # 0 => /\ Present("manager") /\ Present("clerk")
                                 /\ RoomsSeeded(boot.hotel)]_vars

(***************************************************************************)
(* An account that is disabled or deleted for good is locked out in the    *)
(* end, although its tokens go on being accepted for a while: no token of  *)
(* it is left, and no login that had passed the check before.  (Hours pass *)
(* in the traffic with logins.)                                            *)
(***************************************************************************)
Disabled(u) == u \notin Live(users) \/ ~users[u].active

LockedOut(u) == /\ \A t \in Token : tokens[t].user = u => tokens[t].left = 0
                /\ \A p \in Proc : ~(at[p] = "logging_in" /\ target[p] = u)

DisabledLockedOut ==
    "login" \in traffic => \A u \in Targets : <>[]Disabled(u) => <>[]LockedOut(u)
=============================================================================
