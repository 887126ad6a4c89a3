------------------------------ MODULE RoomService ------------------------------
(***************************************************************************)
(* internal/service/room_service.go: UpdateRoom, the staff's only way to   *)
(* write a room's status.  It reads the room, decides, and saves the whole *)
(* row in a second call, with no transaction around the two.               *)
(***************************************************************************)
EXTENDS HotelDB

\* A request that names no status (only a floor or a type) writes back the one
\* it read.
UpdateRoomRead(p, r, status) ==
    /\ "update_room" \in Handlers /\ at[p] = "idle"
    /\ status \in {"available", "maintenance"} \cup {rooms[r]}
    /\ ~(status = "maintenance" /\ rooms[r] = "occupied")
    /\ Holding(p, "updating_room", r, [status |-> status])
    /\ UNCHANGED <<engine, tables, aged, lock, fresh, batch>>

UpdateRoomSave(p) ==
    /\ at[p] = "updating_room"
    /\ CanWrite(p, {target[p]})
    /\ rooms' = [rooms EXCEPT ![target[p]] = copy[p].status]
    /\ Commit(p)
    /\ UNCHANGED <<engine, orders, payments, aged, batch>>
=============================================================================
