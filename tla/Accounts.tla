------------------------------- MODULE Accounts -------------------------------
(***************************************************************************)
(* The users table: AuthService.Register and CreateStaff, and the staff    *)
(* administration of AdminHandler and AdminService.                        *)
(***************************************************************************)
EXTENDS SmsCodes, Sessions

\* CreateStaff; an administrator of a hotel adds front desk clerks to it only.
CreateStaff(p, t, name, role, h) ==
    /\ AdminRequest(p, "create_staff", t)
    /\ role \in {"hotel_admin", "front_desk"}
    /\ tokens[t].role = "hotel_admin" => role = "front_desk" /\ h = tokens[t].hotel
    /\ Holding(p, "finding", name, User(name, role, h))
    /\ UNCHANGED <<deployment, tables, smsVars, sessionVars, boot>>

\* FindByUsername of Register and CreateStaff: the name has to be free.
FindByUsername(p) ==
    /\ at[p] = "finding"
    /\ Rivals(users, target[p]) = {}
    /\ Holding(p, "enrolling", target[p], copy[p])
    /\ UNCHANGED <<deployment, tables, smsVars, sessionVars, boot>>

CreateUser(p) ==
    /\ at[p] = "enrolling"
    /\ Len(users) < MaxUsers
    /\ users' = Insert(users, copy[p])
    /\ Answered(p)
    /\ UNCHANGED <<deployment, hotels, types, rooms, smsVars, sessionVars, boot>>

OwnStaff(t, u) ==
    tokens[t].role = "hotel_admin"
      => u \in Live(users) /\ users[u].hotel = tokens[t].hotel

\* The handler's checks; then the service reads the row itself.
ToggleStaff(p, t, u) ==
    /\ AdminRequest(p, "toggle", t)
    /\ OwnStaff(t, u)
    /\ tokens[t].role = "hotel_admin" => u # tokens[t].user
    /\ Holding(p, "toggle_checked", u, None)
    /\ UNCHANGED <<deployment, tables, smsVars, sessionVars, boot>>

ToggleStaffRead(p) ==
    /\ at[p] = "toggle_checked"
    /\ target[p] \in Live(users)
    /\ Holding(p, "toggling", target[p], [users[target[p]] EXCEPT !.active = ~@])
    /\ UNCHANGED <<deployment, tables, smsVars, sessionVars, boot>>

\* A row that Save creates takes the column's default: the account is active.
ToggleStaffSave(p) ==
    /\ at[p] = "toggling"
    /\ \E u \in Landing(users, target[p], copy[p].key) :
         users' = [users EXCEPT ![u] = IF target[p] \in Live(users) THEN copy[p]
                                       ELSE [copy[p] EXCEPT !.active = TRUE]]
    /\ Answered(p)
    /\ UNCHANGED <<deployment, hotels, types, rooms, smsVars, sessionVars, boot>>

\* Fault: the handler only compares hotels.
DeleteStaffSelf(p, t, u) ==
    /\ AdminRequest(p, "delete_staff", t)
    /\ OwnStaff(t, u)
    /\ Holding(p, "deleting_staff", u, None)
    /\ UNCHANGED <<deployment, tables, smsVars, sessionVars, boot>>

DeleteStaff(p, t, u) ==
    /\ AdminRequest(p, "delete_staff", t)
    /\ u # tokens[t].user
    /\ OwnStaff(t, u)
    /\ Holding(p, "deleting_staff", u, None)
    /\ UNCHANGED <<deployment, tables, smsVars, sessionVars, boot>>

\* Deleting a row that is not there is no error.
DeleteUser(p) ==
    /\ at[p] = "deleting_staff"
    /\ users' = Delete(users, target[p])
    /\ Answered(p)
    /\ UNCHANGED <<deployment, hotels, types, rooms, smsVars, sessionVars, boot>>
=============================================================================
