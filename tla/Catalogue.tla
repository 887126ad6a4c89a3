------------------------------- MODULE Catalogue -------------------------------
(***************************************************************************)
(* Hotels, room types and rooms: HotelService and the part of RoomService  *)
(* that creates, changes and deletes them, with the scope checks of their  *)
(* handlers.                                                               *)
(***************************************************************************)
EXTENDS Sessions

ScopeRequest(p, kind, t, h) ==
    /\ AdminRequest(p, kind, t)
    /\ tokens[t].role = "super_admin" \/ tokens[t].hotel = h

SuperRequest(p, kind, t) ==
    /\ AdminRequest(p, kind, t)
    /\ tokens[t].role = "super_admin"

unchangedButRequests == UNCHANGED <<deployment, tables, smsVars, sessionVars, boot>>
unchangedBut(others) == UNCHANGED <<deployment, others, users, smsVars, sessionVars, boot>>

-----------------------------------------------------------------------------
(* Hotels. *)

CreateHotel(p, t, name) ==
    /\ SuperRequest(p, "create_hotel", t)
    /\ Len(hotels) < MaxHotels
    /\ hotels' = Append(hotels, [name |-> name])
    /\ unchangedBut(<<types, rooms, requests>>)

UpdateHotelRead(p, t, h, name) ==
    /\ SuperRequest(p, "update_hotel", t)
    /\ h \in DOMAIN hotels
    /\ Holding(p, "updating_hotel", h, [hotels[h] EXCEPT !.name = name])
    /\ unchangedButRequests

UpdateHotelSave(p) ==
    /\ at[p] = "updating_hotel"
    /\ hotels' = [hotels EXCEPT ![target[p]] = copy[p]]
    /\ Answered(p)
    /\ unchangedBut(<<types, rooms>>)

-----------------------------------------------------------------------------
(* Room types; they are never deleted. *)

CreateRoomType(p, t, h) ==
    /\ ScopeRequest(p, "create_type", t, h)
    /\ Len(types) < MaxTypes
    /\ types' = Append(types, [hotel |-> h, active |-> TRUE])
    /\ unchangedBut(<<hotels, rooms, requests>>)

UpdateRoomTypeRead(p, t, ty, active) ==
    /\ AdminRequest(p, "update_type", t)
    /\ ty \in DOMAIN types
    /\ Holding(p, "updating_type", ty, [types[ty] EXCEPT !.active = active])
    /\ unchangedButRequests

UpdateRoomTypeSave(p) ==
    /\ at[p] = "updating_type"
    /\ types' = [types EXCEPT ![target[p]] = copy[p]]
    /\ Answered(p)
    /\ unchangedBut(<<hotels, rooms>>)

-----------------------------------------------------------------------------
(* Rooms. *)

TypeOfHotel(ty, h) == ty \in DOMAIN types /\ types[ty].hotel = h

\* A number that exists is refused; a lookup that fails goes on to the insert.
CreateRoomRead(p, t, h, ty, n) ==
    /\ ScopeRequest(p, "create_room", t, h)
    /\ TypeOfHotel(ty, h)
    /\ Holding(p, "creating_room", h, NewRoom(h, n, ty))
    /\ unchangedButRequests

CreateRoomInsert(p) ==
    /\ at[p] = "creating_room"
    /\ Len(rooms) < MaxRooms
    /\ rooms' = Insert(rooms, copy[p])
    /\ Answered(p)
    /\ unchangedBut(<<hotels, types>>)

BatchCreateRead(p, t, h, ty, numbers) ==
    /\ ScopeRequest(p, "batch", t, h)
    /\ TypeOfHotel(ty, h)
    /\ Holding(p, "batching", h, [hotel |-> h, type |-> ty, todo |-> numbers])
    /\ unchangedButRequests

\* The next number of the batch.  One that exists is skipped, and so is one
\* whose insert is refused or fails: the error is dropped.
BatchCreateNext(p) ==
    /\ at[p] = "batching"
    /\ \E n \in copy[p].todo :
         /\ \A m \in copy[p].todo : n <= m
         /\ \/ /\ Len(rooms) < MaxRooms
               /\ rooms' = Insert(rooms, NewRoom(copy[p].hotel, n, copy[p].type))
            \/ UNCHANGED rooms
         /\ Holding(p, "batching", target[p], [copy[p] EXCEPT !.todo = @ \ {n}])
    /\ unchangedBut(<<hotels, types>>)

BatchCreateDone(p) ==
    /\ at[p] = "batching" /\ copy[p].todo = {}
    /\ Answered(p)
    /\ unchangedButRequests

\* Fault: the room type of the request is written.
WithTypeAsked(row, ty) == [row EXCEPT !.type = ty]

\* FindByID has preloaded the room's RoomType.  Save stores that first and then
\* sets room_type_id from it: the type the request names is overwritten.  Only a
\* room whose type is missing has nothing preloaded and takes the named one.
WithType(row, ty) == IF row.type \in DOMAIN types THEN row ELSE [row EXCEPT !.type = ty]

\* A request that names no status keeps the one it read.
UpdateRoomRead(p, t, r, ty, status) ==
    /\ r \in Live(rooms)
    /\ ScopeRequest(p, "update_room", t, rooms[r].key[1])
    /\ status \in {"available", "maintenance", rooms[r].status}
    /\ ~(status = "maintenance" /\ rooms[r].status = "occupied")
    /\ Holding(p, "updating_room", r, [WithType(rooms[r], ty) EXCEPT !.status = status])
    /\ unchangedButRequests

UpdateRoomSave(p) ==
    /\ at[p] = "updating_room"
    /\ \E r \in Landing(rooms, target[p], copy[p].key) :
         rooms' = [rooms EXCEPT ![r] = copy[p]]
    /\ Answered(p)
    /\ unchangedBut(<<hotels, types>>)

DeleteRoomRead(p, t, r) ==
    /\ r \in Live(rooms)
    /\ ScopeRequest(p, "delete_room", t, rooms[r].key[1])
    /\ rooms[r].status \in {"available", "maintenance"}
    /\ Holding(p, "deleting_room", r, None)
    /\ unchangedButRequests

DeleteRoom(p) ==
    /\ at[p] = "deleting_room"
    /\ rooms' = Delete(rooms, target[p])
    /\ Answered(p)
    /\ unchangedBut(<<hotels, types>>)

-----------------------------------------------------------------------------
(* What the booking side (HotelBooking) does to these tables: it reads an    *)
(* order with its room and its guest, and saves it.                          *)

StayRead(p, r, u) ==
    /\ Free(p, "stays")
    /\ r \in Live(rooms) /\ u \in Live(users) \cap Targets
    /\ Holding(p, "saving_order", r, [room |-> rooms[r], user |-> u, guest |-> users[u]])
    /\ unchangedButRequests

\* Checking in, checking out and cancelling write the status of the room by its
\* id.  The save of the order brings the room and the guest back if they are
\* gone, with the values read but for the default of the column is_active.  A
\* payment has preloaded neither, the sweep only the room.
StaySave(p) ==
    /\ at[p] = "saving_order"
    /\ \/ /\ target[p] \in Live(rooms)
          /\ \E status \in {"available", "occupied"} :
               rooms' = [rooms EXCEPT ![target[p]].status = status]
       \/ rooms' = Restored(rooms, target[p], copy[p].room)
       \/ UNCHANGED rooms
    /\ \/ users' = Restored(users, copy[p].user, [copy[p].guest EXCEPT !.active = TRUE])
       \/ UNCHANGED users
    /\ Answered(p)
    /\ UNCHANGED <<deployment, hotels, types, smsVars, sessionVars, boot>>
=============================================================================
