------------------------------ MODULE TableProofs ------------------------------
(***************************************************************************)
(* Proofs about the tables of the back office: their keys stay unique, rooms *)
(* keep a type of their hotel, the platform keeps its administrator, and a *)
(* start of the server leaves its accounts there.                          *)
(***************************************************************************)
EXTENDS BackOfficeProofs

-----------------------------------------------------------------------------
(***************************************************************************)
(* Unique keys: the names of the users and the numbers of a hotel's rooms. *)
(* Uniqueness alone is not inductive: a Save writes back a whole row that  *)
(* was read earlier, perhaps over a row that is gone by now.  What is      *)
(* inductive also speaks of the rows that requests hold for a Save, as the *)
(* pairs of an id and the key held for it: the pair agrees with the table  *)
(* while that row is there, and all who hold an id hold it with one key.   *)
(***************************************************************************)

\* H: the pairs that are held for table t.
KeysInv(t, H) ==
    /\ UniqueKeys(t)
    /\ \A h \in H : h[1] \in Live(t) => t[h[1]].key = h[2]
    /\ \A g, h \in H : g[1] = h[1] => g[2] = h[2]
    /\ \A h \in H : h[1] \in DOMAIN t

At(step) == {p \in Proc : at[p] = step}

\* A request of the staff administration holds an account, one of the catalogue
\* a room, and one about an order both.
HeldUsers ==
    {<<target[p], copy[p].key>> : p \in At("toggling")}
      \cup {<<copy[p].user, copy[p].guest.key>> : p \in At("saving_order")}
HeldRooms ==
    {<<target[p], copy[p].key>> : p \in At("updating_room")}
      \cup {<<target[p], copy[p].room.key>> : p \in At("saving_order")}

-----------------------------------------------------------------------------
(* Tables, for any rows. *)

LEMMA FewerHeld ==
    ASSUME NEW t, NEW H, KeysInv(t, H), NEW G, G \subseteq H
    PROVE  KeysInv(t, G)
  BY DEF KeysInv

LEMMA ReadKeepsKeys ==
    ASSUME NEW t, NEW H, KeysInv(t, H), NEW i \in Live(t)
    PROVE  KeysInv(t, H \cup {<<i, t[i].key>>})
  BY DEF KeysInv, Live

LEMMA AppendKeepsKeys ==
    ASSUME NEW R, NEW t \in Seq(R), NEW H, KeysInv(t, H),
           NEW row \in R, row # Gone, Rivals(t, row.key) = {}
    PROVE  KeysInv(Append(t, row), H)
<1>1. /\ DOMAIN Append(t, row) = DOMAIN t \cup {Len(t) + 1}
      /\ Append(t, row)[Len(t) + 1] = row
      /\ \A i \in DOMAIN t : Append(t, row)[i] = t[i]
  BY Grows
<1>2. Len(t) + 1 \notin DOMAIN t
  OBVIOUS
<1>3. Live(Append(t, row)) = Live(t) \cup {Len(t) + 1}
  BY <1>1, <1>2 DEF Live
<1>4. \A i \in Live(t) : i \in DOMAIN t /\ t[i].key # row.key
  BY DEF Rivals, Live
<1>5. UniqueKeys(Append(t, row))
  BY <1>1, <1>3, <1>4 DEF KeysInv, UniqueKeys
<1> QED BY <1>1, <1>2, <1>3, <1>5 DEF KeysInv

LEMMA InsertKeepsKeys ==
    ASSUME NEW R, NEW t \in Seq(R), NEW H, KeysInv(t, H), NEW row \in R, row # Gone
    PROVE  KeysInv(Insert(t, row), H)
  BY AppendKeepsKeys DEF Insert

LEMMA WriteKeepsKeys ==
    ASSUME NEW R, NEW t \in Seq(R), NEW H, KeysInv(t, H),
           NEW row \in R, row # Gone, NEW i \in DOMAIN t,
           \/ i \in Live(t) /\ t[i].key = row.key
           \/ /\ Rivals(t, row.key) = {}
              /\ \A h \in H : h[1] = i => h[2] = row.key
    PROVE  KeysInv([t EXCEPT ![i] = row], H)
<1> DEFINE u == [t EXCEPT ![i] = row]
<1>1. /\ DOMAIN u = DOMAIN t /\ u[i] = row
      /\ \A j \in DOMAIN t \ {i} : u[j] = t[j]
  OBVIOUS
<1>2. Live(u) = Live(t) \cup {i}
  BY <1>1 DEF Live
<1> HIDE DEF u
<1>3. \A j \in Live(t) \ {i} : j \in DOMAIN t /\ t[j].key # row.key
  BY DEF KeysInv, UniqueKeys, Rivals, Live
<1>4. UniqueKeys(u)
  BY <1>1, <1>2, <1>3 DEF KeysInv, UniqueKeys, Live
<1>5. \A h \in H : h[1] \in Live(u) => u[h[1]].key = h[2]
  <2> SUFFICES ASSUME NEW h \in H, h[1] \in Live(u) PROVE u[h[1]].key = h[2]
    OBVIOUS
  <2>1. CASE h[1] = i
    BY <1>1, <2>1 DEF KeysInv
  <2>2. CASE h[1] # i
    BY <1>1, <1>2, <2>2 DEF KeysInv, Live
  <2> QED BY <2>1, <2>2
<1>6. KeysInv(u, H)
  BY <1>1, <1>4, <1>5 DEF KeysInv
<1> QED BY <1>6 DEF u

LEMMA DeleteKeepsKeys ==
    ASSUME NEW R, NEW t \in Seq(R), NEW H, KeysInv(t, H), NEW i \in DOMAIN t
    PROVE  KeysInv(Delete(t, i), H)
<1>1. /\ DOMAIN Delete(t, i) = DOMAIN t
      /\ \A j \in DOMAIN t \ {i} : Delete(t, i)[j] = t[j]
      /\ Delete(t, i)[i] = Gone
  BY DEF Delete
<1>2. Live(Delete(t, i)) = Live(t) \ {i}
  BY <1>1 DEF Live
<1>3. \A j \in Live(Delete(t, i)) : j \in Live(t) /\ Delete(t, i)[j] = t[j]
  BY <1>1, <1>2 DEF Live
<1> QED BY <1>1, <1>3 DEF KeysInv, UniqueKeys

\* A Save of a row that is held.
LEMMA SaveKeepsKeys ==
    ASSUME NEW R, NEW t \in Seq(R), NEW H, KeysInv(t, H),
           NEW row \in R, row # Gone, NEW i, <<i, row.key>> \in H,
           NEW x \in Landing(t, i, row.key)
    PROVE  KeysInv([t EXCEPT ![x] = row], H)
<1>1. /\ i \in DOMAIN t
      /\ i \in Live(t) => t[i].key = row.key
      /\ \A h \in H : h[1] = i => h[2] = row.key
  BY DEF KeysInv
<1>2. CASE i \in Live(t)
  BY <1>1, <1>2, WriteKeepsKeys DEF Landing
<1>3. CASE i \notin Live(t) /\ Rivals(t, row.key) = {}
  BY <1>1, <1>3, WriteKeepsKeys DEF Landing
<1>4. CASE i \notin Live(t) /\ Rivals(t, row.key) # {}
  <2>1. x \in Live(t) /\ t[x].key = row.key
    BY <1>4 DEF Landing, Rivals
  <2> QED BY <2>1, WriteKeepsKeys DEF Live
<1> QED BY <1>2, <1>3, <1>4

\* A preloaded row that is held, brought back if it is gone.
LEMMA RestoreKeepsKeys ==
    ASSUME NEW R, NEW t \in Seq(R), NEW H, KeysInv(t, H),
           NEW row \in R, row # Gone, NEW i, <<i, row.key>> \in H
    PROVE  KeysInv(Restored(t, i, row), H)
<1>1. i \in DOMAIN t /\ \A h \in H : h[1] = i => h[2] = row.key
  BY DEF KeysInv
<1>2. CASE Rivals(t, row.key) = {}
  <2>1. KeysInv([t EXCEPT ![i] = row], H)
    BY <1>1, <1>2, WriteKeepsKeys
  <2> QED BY <2>1 DEF Restored
<1> QED BY <1>2 DEF Restored

-----------------------------------------------------------------------------
(* What requests hold. *)

LEMMA HeldMoves ==
    ASSUME RequestsTypeOK, NEW p \in Proc, NEW step \in Step, NEW x, NEW row,
           Holding(p, step, x, row)
    PROVE  /\ step \notin {"toggling", "saving_order"} => HeldUsers' \subseteq HeldUsers
           /\ step = "toggling" => HeldUsers' \subseteq HeldUsers \cup {<<x, row.key>>}
           /\ step = "saving_order" =>
                HeldUsers' \subseteq HeldUsers \cup {<<row.user, row.guest.key>>}
           /\ step \notin {"updating_room", "saving_order"} => HeldRooms' \subseteq HeldRooms
           /\ step = "updating_room" => HeldRooms' \subseteq HeldRooms \cup {<<x, row.key>>}
           /\ step = "saving_order" =>
                HeldRooms' \subseteq HeldRooms \cup {<<x, row.room.key>>}
<1>1. /\ at'[p] = step /\ target'[p] = x /\ copy'[p] = row
      /\ \A q \in Proc \ {p} :
           at'[q] = at[q] /\ target'[q] = target[q] /\ copy'[q] = copy[q]
  BY DEF RequestsTypeOK, Holding
<1>2. \A s : At(s)' \subseteq At(s) \cup (IF s = step THEN {p} ELSE {})
  BY <1>1 DEF At
<1>3. \A s : p \notin At(s)' \/ s = step
  BY <1>1 DEF At
<1> QED BY <1>1, <1>2, <1>3 DEF HeldUsers, HeldRooms, At

LEMMA AnsweredHoldsLess ==
    ASSUME RequestsTypeOK, NEW p \in Proc, Answered(p)
    PROVE  HeldUsers' \subseteq HeldUsers /\ HeldRooms' \subseteq HeldRooms
  BY HeldMoves DEF Answered, Step

LEMMA OthersHoldTheSame ==
    ASSUME UNCHANGED requests
    PROVE  HeldUsers' = HeldUsers /\ HeldRooms' = HeldRooms
  BY DEF HeldUsers, HeldRooms, At, requests

\* After a stop nothing is held.
LEMMA StopHoldsNothing ==
    ASSUME Stop
    PROVE  HeldUsers' = {} /\ HeldRooms' = {}
  BY DEF Stop, HeldUsers, HeldRooms, At

-----------------------------------------------------------------------------
(* The users table. *)

\* The accounts of the seed.
SeedRow ==
    {User("admin", "super_admin", None), User("demo_guest", "guest", None)}
      \cup {User("manager", "hotel_admin", h) : h \in HotelId}
      \cup {User("clerk", "front_desk", h) : h \in HotelId}

LEMMA SeedRowsAreRows == SeedRow \subseteq UserRow
<1>1. ASSUME NEW name \in SeedName, NEW role \in Role, NEW h \in HotelId \cup {None}
      PROVE  User(name, role, h) \in UserRow
  BY DEF User, UserRow, Name
<1> QED BY <1>1 DEF SeedRow, SeedName, Role

UsersAlone == users' = users /\ HeldUsers' \subseteq HeldUsers

\* A request may have read an account to write it back.
UserRead ==
    \E u \in Live(users) :
        users' = users /\ HeldUsers' \subseteq HeldUsers \cup {<<u, users[u].key>>}

\* Who writes to the table, and who holds a row of it.
LEMMA UserSteps ==
    ASSUME OfficeTypeOK, [Next]_vars
    PROVE  \/ UsersAlone \/ UserRead
           \/ \E p \in Proc :
                CreateUser(p) \/ ToggleStaffSave(p) \/ DeleteUser(p) \/ StaySave(p)
           \/ \E row \in SeedRow, step \in BootStep :
                boot.step # "up" /\ SeedUser(row, step)
<1>0. RequestsTypeOK
  BY DEF OfficeTypeOK
<1>1. ASSUME NEW p \in Proc, Reads(p) PROVE UsersAlone \/ UserRead
  <2>1. PICK step, x, row : step \in Step /\ StepsTo(p, step, x, row) /\ FreshCopy(step, x, row)
    BY <1>1 DEF Reads
  <2>2. CASE step = "saving_order"
    <3>1. row.user \in Live(users) /\ row.guest = users[row.user] /\ users' = users
      BY <2>1, <2>2 DEF StepsTo, FreshCopy, tables
    <3>2. HeldUsers' \subseteq HeldUsers \cup {<<row.user, row.guest.key>>}
      BY <1>0, <2>1, <2>2, HeldMoves DEF StepsTo
    <3> QED BY <3>1, <3>2 DEF UserRead
  <2>3. CASE step # "saving_order"
    <3>1. step # "toggling"
      BY <2>1 DEF FreshCopy
    <3> QED BY <1>0, <2>1, <2>3, <3>1, HeldMoves DEF StepsTo, UsersAlone, tables
  <2> QED BY <2>2, <2>3
<1>2. ASSUME UNCHANGED <<users, requests>> PROVE UsersAlone
  BY <1>2, OthersHoldTheSame DEF UsersAlone
<1>3. ASSUME NEW p \in Proc, users' = users, Answered(p) PROVE UsersAlone
  BY <1>0, <1>3, AnsweredHoldsLess DEF UsersAlone
<1>4. ASSUME NEW p \in Proc, AccountRequest(p) \/ StayRequest(p)
      PROVE  UsersAlone \/ UserRead
  BY <1>1, <1>4, RequestsRead
<1>5. ASSUME NEW p \in Proc, NEW t \in Token, CatalogueRequest(p, t)
      PROVE  UsersAlone \/ UserRead
  BY <1>1, <1>2, <1>5, CatalogueReads DEF CreateHotel, CreateRoomType, unchangedBut
<1>6. ASSUME NEW p \in Proc, Continue(p)
      PROVE  \/ UsersAlone \/ UserRead
             \/ CreateUser(p) \/ ToggleStaffSave(p) \/ DeleteUser(p) \/ StaySave(p)
  <2>1. CASE SendCodeSave(p) \/ (\E t \in Token : LoginIssue(p, t)) \/ Fail(p)
    BY <1>3, <2>1 DEF SendCodeSave, LoginIssue, Fail, tables
  <2>2. CASE \/ UpdateHotelSave(p) \/ UpdateRoomTypeSave(p) \/ CreateRoomInsert(p)
            \/ BatchCreateDone(p) \/ UpdateRoomSave(p) \/ DeleteRoom(p)
    BY <1>3, <2>2 DEF UpdateHotelSave, UpdateRoomTypeSave, CreateRoomInsert,
       BatchCreateDone, UpdateRoomSave, DeleteRoom, unchangedBut, unchangedButRequests, tables
  <2>3. CASE VerifyCodeDelete(p)
    <3>1. \E row : Holding(p, "finding", target[p], row) /\ users' = users
      BY <2>3 DEF VerifyCodeDelete, Accept, tables
    <3> QED BY <1>0, <3>1, HeldMoves DEF UsersAlone, Step
  <2>4. CASE FindByUsername(p)
    <3>1. Holding(p, "enrolling", target[p], copy[p]) /\ users' = users
      BY <2>4 DEF FindByUsername, tables
    <3> QED BY <1>0, <3>1, HeldMoves DEF UsersAlone, Step
  <2>5. CASE BatchCreateNext(p)
    <3>1. \E row : Holding(p, "batching", target[p], row) /\ users' = users
      BY <2>5 DEF BatchCreateNext, unchangedBut
    <3> QED BY <1>0, <3>1, HeldMoves DEF UsersAlone, Step
  <2>6. CASE ToggleStaffRead(p)
    <3>1. PICK u, row : /\ Holding(p, "toggling", u, row) /\ users' = users
                        /\ u \in Live(users) /\ row = [users[u] EXCEPT !.active = ~@]
      BY <2>6 DEF ToggleStaffRead, tables
    <3>2. row.key = users[u].key
      BY <3>1, Ids DEF UserRow
    <3>3. HeldUsers' \subseteq HeldUsers \cup {<<u, row.key>>}
      BY <1>0, <3>1, HeldMoves DEF Step
    <3> QED BY <3>1, <3>2, <3>3 DEF UserRead
  <2> QED BY <1>6, <2>1, <2>2, <2>3, <2>4, <2>5, <2>6 DEF Continue
<1>7. CASE Boot
  <2>1. boot.hotel \in HotelId
    BY DEF OfficeTypeOK, BootTypeOK
  <2>2. CASE \/ StartUp \/ SeedHotel \/ SeedTypes \/ (\E n \in Number : SeedRoom(n))
            \/ SeedRoomsDone
    BY <1>2, <2>2 DEF StartUp, SeedHotel, SeedTypes, SeedRoom, SeedRoomsDone, Skip, tables
  <2>3. CASE SeedAdmin
    BY <1>2, <2>3 DEF SeedAdmin, Skip, tables, BootStep, SeedRow, Boots
  <2>4. CASE SeedManager \/ SeedClerk
    BY <2>1, <2>4 DEF SeedManager, SeedClerk, BootStep, SeedRow, Boots
  <2>5. CASE SeedGuest
    BY <1>2, <2>5 DEF SeedGuest, Skip, tables, BootStep, SeedRow, Boots
  <2> QED BY <1>7, <2>2, <2>3, <2>4, <2>5 DEF Boot
<1>8. CASE Outside
  <2>1. CASE Minute \/ Hour \/ RedisGains \/ RedisLoses \/ \E t \in Token : Logout(t)
    BY <1>2, <2>1 DEF Minute, Hour, RedisGains, RedisLoses, Logout, tables
  <2>2. CASE Stop
    BY <2>2, StopHoldsNothing DEF Stop, UsersAlone, tables
  <2> QED BY <1>8, <2>1, <2>2 DEF Outside
<1>9. CASE UNCHANGED vars
  BY <1>2, <1>9 DEF vars, tables
<1> QED BY <1>4, <1>5, <1>6, <1>7, <1>8, <1>9 DEF Next

LEMMA UsersStep ==
    ASSUME OfficeTypeOK, KeysInv(users, HeldUsers), [Next]_vars
    PROVE  KeysInv(users, HeldUsers)'
<1> DEFINE H == HeldUsers
<1>0. /\ RequestsTypeOK /\ users \in Seq(UserRow \cup {Gone})
      /\ \A row \in UserRow : row # Gone /\ row \in UserRow \cup {Gone}
  BY GoneIsNoRow DEF OfficeTypeOK, TablesTypeOK
<1>1. SUFFICES KeysInv(users', H')
  OBVIOUS
<1>2. CASE UsersAlone
  BY <1>2, FewerHeld DEF UsersAlone
<1>3. ASSUME NEW p \in Proc, CreateUser(p) PROVE KeysInv(users', H')
  <2>1. copy[p] \in UserRow
    BY <1>0, <1>3 DEF CreateUser, RequestsTypeOK, Fits
  <2>2. KeysInv(users', H)
    BY <1>0, <1>3, <2>1, InsertKeepsKeys DEF CreateUser
  <2> QED BY <1>0, <1>3, <2>2, AnsweredHoldsLess, FewerHeld DEF CreateUser
<1>4. CASE UserRead
  BY <1>4, ReadKeepsKeys, FewerHeld DEF UserRead
<1>5. ASSUME NEW p \in Proc, ToggleStaffSave(p) PROVE KeysInv(users', H')
  <2>1. copy[p] \in UserRow /\ <<target[p], copy[p].key>> \in H
    BY <1>0, <1>5 DEF ToggleStaffSave, RequestsTypeOK, Fits, HeldUsers, At
  <2>2. PICK u \in Landing(users, target[p], copy[p].key), row \in {copy[p], [copy[p] EXCEPT !.active = TRUE]} :
          users' = [users EXCEPT ![u] = row]
    BY <1>5 DEF ToggleStaffSave
  <2>3. row \in UserRow /\ row.key = copy[p].key
    BY <2>1 DEF UserRow
  <2>4. KeysInv(users', H)
    BY <1>0, <2>1, <2>2, <2>3, SaveKeepsKeys
  <2> QED BY <1>0, <1>5, <2>4, AnsweredHoldsLess, FewerHeld DEF ToggleStaffSave
<1>6. ASSUME NEW p \in Proc, DeleteUser(p) PROVE KeysInv(users', H')
  <2>1. target[p] \in DOMAIN users
    BY <1>0, <1>6 DEF DeleteUser, RequestsTypeOK, Fits
  <2>2. KeysInv(users', H)
    BY <1>0, <1>6, <2>1, DeleteKeepsKeys DEF DeleteUser
  <2> QED BY <1>0, <1>6, <2>2, AnsweredHoldsLess, FewerHeld DEF DeleteUser
<1>7. ASSUME NEW row \in SeedRow, NEW step \in BootStep, SeedUser(row, step)
      PROVE  KeysInv(users', H')
  <2>0. row \in UserRow
    BY SeedRowsAreRows
  <2>1. H' = H
    BY <1>7, OthersHoldTheSame DEF SeedUser
  <2>2. CASE Rivals(users, row.key) = {} /\ users' = Append(users, row)
    BY <1>0, <2>0, <2>1, <2>2, AppendKeepsKeys
  <2>3. CASE users' = users
    BY <2>1, <2>3
  <2> QED BY <1>7, <2>2, <2>3 DEF SeedUser
<1>8. ASSUME NEW p \in Proc, StaySave(p) PROVE KeysInv(users', H')
  <2> DEFINE row == [copy[p].guest EXCEPT !.active = TRUE]
  <2>1. copy[p].guest \in UserRow /\ <<copy[p].user, copy[p].guest.key>> \in H
    BY <1>0, <1>8 DEF StaySave, RequestsTypeOK, Fits, Preloads, HeldUsers, At
  <2>2. row \in UserRow /\ row.key = copy[p].guest.key
    BY <2>1 DEF UserRow
  <2>3. users' = Restored(users, copy[p].user, row) \/ users' = users
    BY <1>8 DEF StaySave
  <2> HIDE DEF row
  <2>4. KeysInv(users', H)
    BY <1>0, <2>1, <2>2, <2>3, RestoreKeepsKeys
  <2> QED BY <1>0, <1>8, <2>4, AnsweredHoldsLess, FewerHeld DEF StaySave
<1> QED BY <1>2, <1>3, <1>4, <1>5, <1>6, <1>7, <1>8, UserSteps

\* Where a run begins.
LEMMA FirstOrRunning ==
    ASSUME OfficeInit
    PROVE  FirstBoot \/ \E untyped \in BOOLEAN : Running(untyped)
<1>1. ("untyped" \in traffic) \in BOOLEAN
  OBVIOUS
<1>2. FirstBoot \/ Running("untyped" \in traffic)
  BY DEF OfficeInit
<1> QED BY <1>1, <1>2

LEMMA FirstUsersKeys ==
    ASSUME OfficeInit
    PROVE  KeysInv(users, HeldUsers)
<1>1. HeldUsers = {}
  BY DEF OfficeInit, HeldUsers, At
<1>2. CASE FirstBoot
  BY <1>1, <1>2 DEF FirstBoot, UniqueKeys, Live, KeysInv
<1>3. ASSUME NEW untyped \in BOOLEAN, Running(untyped) PROVE KeysInv(users, HeldUsers)
  <2>1. UniqueKeys(users)
    BY <1>3 DEF Running, UniqueKeys, Live, User
  <2> QED BY <1>1, <2>1 DEF KeysInv
<1> QED BY <1>2, <1>3, FirstOrRunning

\* A user name belongs to one account, for any number of registrations, staff
\* requests and late saves at once, on both databases: the check before an
\* insert proves nothing, the unique index and the id of a Save do.
THEOREM NamesStayUnique == Spec => []UniqueNames
<1> DEFINE UsersInv == OfficeTypeOK /\ KeysInv(users, HeldUsers)
<1>1. Init => UsersInv
  BY FirstUsersKeys, InitTypeOK DEF Init
<1>2. UsersInv /\ [Next]_vars => UsersInv'
  BY NextTypeOK, UsersStep
<1>3. UsersInv => UniqueNames
  BY DEF KeysInv, UniqueNames
<1> HIDE DEF UsersInv
<1> QED BY <1>1, <1>2, <1>3, PTL DEF Spec

-----------------------------------------------------------------------------
(* The rooms table. *)

RoomsAlone == rooms' = rooms /\ HeldRooms' \subseteq HeldRooms

\* A request that starts may read a room to write it back.
RoomRead ==
    \E r \in Live(rooms) :
        rooms' = rooms /\ HeldRooms' \subseteq HeldRooms \cup {<<r, rooms[r].key>>}

\* Who writes to the table, and who holds a row of it.
LEMMA RoomSteps ==
    ASSUME OfficeTypeOK, [Next]_vars
    PROVE  \/ RoomsAlone \/ RoomRead
           \/ \E p \in Proc :
                \/ CreateRoomInsert(p) \/ BatchCreateNext(p)
                \/ UpdateRoomSave(p) \/ DeleteRoom(p) \/ StaySave(p)
           \/ \E n \in Number : SeedRoom(n)
<1>0. RequestsTypeOK
  BY DEF OfficeTypeOK
<1>1. ASSUME NEW p \in Proc, Reads(p)
      PROVE  RoomsAlone \/ RoomRead
  <2>1. PICK step, x, row : step \in Step /\ StepsTo(p, step, x, row) /\ FreshCopy(step, x, row)
    BY <1>1 DEF Reads
  <2>0. rooms' = rooms /\ Holding(p, step, x, row)
    BY <2>1 DEF StepsTo, tables
  <2>2. CASE step = "updating_room"
    <3>1. x \in Live(rooms) /\ row.key = rooms[x].key
      BY <2>1, <2>2 DEF FreshCopy
    <3>2. HeldRooms' \subseteq HeldRooms \cup {<<x, row.key>>}
      BY <1>0, <2>0, <2>1, <2>2, HeldMoves
    <3> QED BY <2>0, <3>1, <3>2 DEF RoomRead
  <2>3. CASE step = "saving_order"
    <3>1. x \in Live(rooms) /\ row.room = rooms[x]
      BY <2>1, <2>3 DEF FreshCopy
    <3>2. HeldRooms' \subseteq HeldRooms \cup {<<x, row.room.key>>}
      BY <1>0, <2>0, <2>1, <2>3, HeldMoves
    <3> QED BY <2>0, <3>1, <3>2 DEF RoomRead
  <2>4. CASE step \notin {"updating_room", "saving_order"}
    BY <1>0, <2>0, <2>1, <2>4, HeldMoves DEF RoomsAlone
  <2> QED BY <2>2, <2>3, <2>4
<1>2. ASSUME UNCHANGED <<rooms, requests>> PROVE RoomsAlone
  BY <1>2, OthersHoldTheSame DEF RoomsAlone
<1>3. ASSUME NEW p \in Proc, rooms' = rooms, Answered(p) PROVE RoomsAlone
  BY <1>0, <1>3, AnsweredHoldsLess DEF RoomsAlone
<1>4. ASSUME NEW p \in Proc, AccountRequest(p) \/ StayRequest(p)
      PROVE  RoomsAlone \/ RoomRead
  BY <1>1, <1>4, RequestsRead
<1>5. ASSUME NEW p \in Proc, NEW t \in Token, CatalogueRequest(p, t)
      PROVE  RoomsAlone \/ RoomRead
  BY <1>1, <1>2, <1>5, CatalogueReads DEF CreateHotel, CreateRoomType, unchangedBut
<1>6. ASSUME NEW p \in Proc, Continue(p)
      PROVE  \/ RoomsAlone
             \/ CreateRoomInsert(p) \/ BatchCreateNext(p) \/ UpdateRoomSave(p) \/ DeleteRoom(p)
             \/ StaySave(p)
  <2>1. CASE SendCodeSave(p) \/ (\E t \in Token : LoginIssue(p, t)) \/ Fail(p)
    BY <1>3, <2>1 DEF SendCodeSave, LoginIssue, Fail, tables
  <2>2. CASE \/ UpdateHotelSave(p) \/ UpdateRoomTypeSave(p) \/ BatchCreateDone(p)
            \/ CreateUser(p) \/ ToggleStaffSave(p) \/ DeleteUser(p)
    BY <1>3, <2>2 DEF UpdateHotelSave, UpdateRoomTypeSave, BatchCreateDone, CreateUser,
       ToggleStaffSave, DeleteUser, unchangedBut, unchangedButRequests, tables
  <2>3. CASE VerifyCodeDelete(p)
    <3>1. \E row : Holding(p, "finding", target[p], row) /\ rooms' = rooms
      BY <2>3 DEF VerifyCodeDelete, Accept, tables
    <3> QED BY <1>0, <3>1, HeldMoves DEF RoomsAlone, Step
  <2>4. CASE FindByUsername(p)
    <3>1. Holding(p, "enrolling", target[p], copy[p]) /\ rooms' = rooms
      BY <2>4 DEF FindByUsername, tables
    <3> QED BY <1>0, <3>1, HeldMoves DEF RoomsAlone, Step
  <2>5. CASE ToggleStaffRead(p)
    <3>1. \E row : Holding(p, "toggling", target[p], row) /\ rooms' = rooms
      BY <2>5 DEF ToggleStaffRead, tables
    <3> QED BY <1>0, <3>1, HeldMoves DEF RoomsAlone, Step
  <2> QED BY <1>6, <2>1, <2>2, <2>3, <2>4, <2>5 DEF Continue
<1>7. CASE Boot
  BY <1>2, <1>7 DEF Boot, StartUp, SeedAdmin, SeedHotel, SeedManager, SeedClerk, SeedTypes,
                    SeedRoomsDone, SeedGuest, SeedUser, Skip, tables
<1>8. CASE Outside
  <2>1. CASE Minute \/ Hour \/ RedisGains \/ RedisLoses \/ \E t \in Token : Logout(t)
    BY <1>2, <2>1 DEF Minute, Hour, RedisGains, RedisLoses, Logout, tables
  <2>2. CASE Stop
    BY <2>2, StopHoldsNothing DEF Stop, RoomsAlone, tables
  <2> QED BY <1>8, <2>1, <2>2 DEF Outside
<1>9. CASE UNCHANGED vars
  BY <1>2, <1>9 DEF vars, tables
<1> QED BY <1>4, <1>5, <1>6, <1>7, <1>8, <1>9 DEF Next

LEMMA RoomsStep ==
    ASSUME OfficeTypeOK, KeysInv(rooms, HeldRooms), [Next]_vars
    PROVE  KeysInv(rooms, HeldRooms)'
<1> DEFINE H == HeldRooms
<1>0. /\ RequestsTypeOK /\ rooms \in Seq(RoomRow \cup {Gone})
      /\ \A row \in RoomRow : row # Gone /\ row \in RoomRow \cup {Gone}
  BY GoneIsNoRow DEF OfficeTypeOK, TablesTypeOK
<1>1. SUFFICES KeysInv(rooms', H')
  OBVIOUS
<1>2. CASE RoomsAlone
  BY <1>2, FewerHeld DEF RoomsAlone
<1>3. CASE RoomRead
  BY <1>3, ReadKeepsKeys, FewerHeld DEF RoomRead
<1>4. ASSUME NEW p \in Proc, CreateRoomInsert(p) PROVE KeysInv(rooms', H')
  <2>1. copy[p] \in RoomRow
    BY <1>0, <1>4 DEF CreateRoomInsert, RequestsTypeOK, Fits
  <2>2. KeysInv(rooms', H)
    BY <1>0, <1>4, <2>1, InsertKeepsKeys DEF CreateRoomInsert
  <2> QED BY <1>0, <1>4, <2>2, AnsweredHoldsLess, FewerHeld DEF CreateRoomInsert
<1>5. ASSUME NEW p \in Proc, BatchCreateNext(p) PROVE KeysInv(rooms', H')
  <2>1. copy[p] \in BatchRow
    BY <1>0, <1>5 DEF BatchCreateNext, RequestsTypeOK, Fits
  <2>2. PICK n \in copy[p].todo :
          /\ \/ rooms' = Insert(rooms, NewRoom(copy[p].hotel, n, copy[p].type))
             \/ UNCHANGED rooms
          /\ Holding(p, "batching", target[p], [copy[p] EXCEPT !.todo = @ \ {n}])
    BY <1>5 DEF BatchCreateNext
  <2>3. NewRoom(copy[p].hotel, n, copy[p].type) \in RoomRow
    BY <2>1 DEF BatchRow, RoomRow, NewRoom
  <2>4. KeysInv(rooms', H)
    BY <1>0, <2>2, <2>3, InsertKeepsKeys
  <2>5. H' \subseteq H
    BY <1>0, <2>2, HeldMoves DEF Step
  <2> QED BY <2>4, <2>5, FewerHeld
<1>6. ASSUME NEW p \in Proc, UpdateRoomSave(p) PROVE KeysInv(rooms', H')
  <2>1. copy[p] \in RoomRow /\ <<target[p], copy[p].key>> \in H
    BY <1>0, <1>6 DEF UpdateRoomSave, RequestsTypeOK, Fits, HeldRooms, At
  <2>2. PICK r \in Landing(rooms, target[p], copy[p].key) : rooms' = [rooms EXCEPT ![r] = copy[p]]
    BY <1>6 DEF UpdateRoomSave
  <2>3. KeysInv(rooms', H)
    BY <1>0, <2>1, <2>2, SaveKeepsKeys
  <2> QED BY <1>0, <1>6, <2>3, AnsweredHoldsLess, FewerHeld DEF UpdateRoomSave
<1>7. ASSUME NEW p \in Proc, DeleteRoom(p) PROVE KeysInv(rooms', H')
  <2>1. target[p] \in DOMAIN rooms
    BY <1>0, <1>7 DEF DeleteRoom, RequestsTypeOK, Fits
  <2>2. KeysInv(rooms', H)
    BY <1>0, <1>7, <2>1, DeleteKeepsKeys DEF DeleteRoom
  <2> QED BY <1>0, <1>7, <2>2, AnsweredHoldsLess, FewerHeld DEF DeleteRoom
<1>8. ASSUME NEW n \in Number, SeedRoom(n) PROVE KeysInv(rooms', H')
  <2> DEFINE row == NewRoom(boot.hotel, n, boot.type)
  <2>1. H' = H
    BY <1>8, OthersHoldTheSame DEF SeedRoom
  <2>2. row \in RoomRow /\ row.key = <<boot.hotel, n>>
    BY DEF OfficeTypeOK, BootTypeOK, NewRoom, RoomRow
  <2>3. Rivals(rooms, row.key) = {} /\ rooms' = Append(rooms, row)
    BY <1>8, <2>2 DEF SeedRoom
  <2> HIDE DEF row
  <2> QED BY <1>0, <2>1, <2>2, <2>3, AppendKeepsKeys
<1>9. ASSUME NEW p \in Proc, StaySave(p) PROVE KeysInv(rooms', H')
  <2>1. copy[p].room \in RoomRow /\ <<target[p], copy[p].room.key>> \in H
    BY <1>0, <1>9 DEF StaySave, RequestsTypeOK, Fits, Preloads, HeldRooms, At
  <2>2. ASSUME NEW r \in Live(rooms), NEW status \in {"available", "occupied"},
               rooms' = [rooms EXCEPT ![r].status = status]
        PROVE  KeysInv(rooms', H)
    <3> DEFINE row == [rooms[r] EXCEPT !.status = status]
    <3>1. rooms[r] \in RoomRow /\ r \in DOMAIN rooms /\ rooms' = [rooms EXCEPT ![r] = row]
      BY <2>2, Ids
    <3>2. row \in RoomRow /\ row.key = rooms[r].key
      BY <3>1 DEF RoomRow
    <3>3. row # Gone /\ row \in RoomRow \cup {Gone}
      BY <1>0, <3>2
    <3> HIDE DEF row, H
    <3> QED BY <1>0, <3>1, <3>2, <3>3, WriteKeepsKeys DEF H
  <2>3. KeysInv(Restored(rooms, target[p], copy[p].room), H)
    BY <1>0, <2>1, RestoreKeepsKeys
  <2>4. KeysInv(rooms', H)
    BY <1>9, <2>2, <2>3 DEF StaySave
  <2> QED BY <1>0, <1>9, <2>4, AnsweredHoldsLess, FewerHeld DEF StaySave
<1> QED BY <1>2, <1>3, <1>4, <1>5, <1>6, <1>7, <1>8, <1>9, RoomSteps

\* A room number belongs to one room of its hotel, for any number of hotels,
\* rooms, batches and late saves at once, on both databases.
THEOREM NumbersStayUnique == Spec => []UniqueNumbers
<1> DEFINE RoomsInv == OfficeTypeOK /\ KeysInv(rooms, HeldRooms)
<1>1. Init => RoomsInv
  <2> SUFFICES ASSUME Init PROVE RoomsInv
    OBVIOUS
  <2>1. OfficeTypeOK /\ HeldRooms = {}
    BY InitTypeOK DEF Init, OfficeInit, HeldRooms, At
  <2>2. UniqueKeys(rooms)
    BY DEF Init, OfficeInit, FirstBoot, Running, UniqueKeys, Live
  <2> QED BY <2>1, <2>2 DEF KeysInv
<1>2. RoomsInv /\ [Next]_vars => RoomsInv'
  BY NextTypeOK, RoomsStep
<1>3. RoomsInv => UniqueNumbers
  BY DEF KeysInv, UniqueNumbers
<1> HIDE DEF RoomsInv
<1> QED BY <1>1, <1>2, <1>3, PTL DEF Spec

-----------------------------------------------------------------------------
(***************************************************************************)
(* A room's type is one of its own hotel.  Only CreateRoom and BatchCreate *)
(* check that, and at a time when they have not yet written; it goes on to *)
(* hold because a room type never changes its hotel, and because a room that *)
(* is saved late is saved with the type it was read with, as long as it has *)
(* one.  It is lost for good once the seed has stored a room without.      *)
(***************************************************************************)

\* What a request holds for a later write.
HoldsOwnType(step, x, row) ==
    /\ step \in {"creating_room", "updating_room"} => TypeOfHotel(row.type, row.key[1])
    /\ step = "saving_order" => TypeOfHotel(row.room.type, row.room.key[1])
    /\ step = "batching" => TypeOfHotel(row.type, row.hotel)
    /\ step = "updating_type" => row.hotel = types[x].hotel

RoomsBelong == \A r \in Live(rooms) : TypeOfHotel(rooms[r].type, rooms[r].key[1])
RequestsBelong == \A p \in Proc : HoldsOwnType(at[p], target[p], copy[p])

\* The seed's type is 0 until one is created.
SeedBelongs ==
    /\ boot.type # 0 => TypeOfHotel(boot.type, boot.hotel)
    /\ boot.step \in {"down", "admin", "hotel", "manager", "clerk", "types"} => boot.type = 0

TypesInv == RoomsBelong /\ RequestsBelong /\ SeedBelongs

\* Room types stay where they are.
TypesStay ==
    \A ty \in DOMAIN types : ty \in DOMAIN types' /\ types'[ty].hotel = types[ty].hotel

LEMMA StaysBelonging ==
    ASSUME TypesStay, NEW type, NEW h, TypeOfHotel(type, h)
    PROVE  TypeOfHotel(type, h)'
  BY DEF TypeOfHotel, TypesStay

\* A request that moves on, with a row that belongs, leaves the others alone.
LEMMA RequestMoves ==
    ASSUME RequestsTypeOK, RequestsBelong, TypesStay, NEW p \in Proc, NEW step \in Step,
           NEW x, NEW row, Holding(p, step, x, row), HoldsOwnType(step, x, row)',
           step = "updating_type" => x \in DOMAIN types
    PROVE  RequestsBelong'
<1>1. /\ at'[p] = step /\ target'[p] = x /\ copy'[p] = row
      /\ \A q \in Proc \ {p} :
           at'[q] = at[q] /\ target'[q] = target[q] /\ copy'[q] = copy[q]
  BY DEF RequestsTypeOK, Holding
<1>2. ASSUME NEW q \in Proc \ {p} PROVE HoldsOwnType(at[q], target[q], copy[q])'
  <2>1. HoldsOwnType(at[q], target[q], copy[q]) /\ Fits(at[q], target[q], copy[q])
    BY DEF RequestsBelong, RequestsTypeOK
  <2> QED BY <1>1, <2>1, StaysBelonging DEF HoldsOwnType, Fits, TypesStay
<1>3. HoldsOwnType(at[p], target[p], copy[p])'
  BY <1>1 DEF HoldsOwnType
<1> QED BY <1>2, <1>3 DEF RequestsBelong

LEMMA RequestsRest ==
    ASSUME RequestsTypeOK, RequestsBelong, TypesStay, UNCHANGED requests
    PROVE  RequestsBelong'
<1> SUFFICES ASSUME NEW q \in Proc PROVE HoldsOwnType(at[q], target[q], copy[q])'
  BY DEF RequestsBelong
<1>1. HoldsOwnType(at[q], target[q], copy[q]) /\ Fits(at[q], target[q], copy[q])
  BY DEF RequestsBelong, RequestsTypeOK
<1> QED BY <1>1, StaysBelonging DEF HoldsOwnType, Fits, TypesStay, requests

LEMMA NewTypeStays ==
    ASSUME OfficeTypeOK, NEW row \in TypeRow, types' = Append(types, row)
    PROVE  TypesStay
<1>1. types \in Seq(TypeRow)
  BY DEF OfficeTypeOK, TablesTypeOK
<1> QED BY <1>1, Grows DEF TypesStay

LEMMA AnswersBelong ==
    ASSUME RequestsTypeOK, RequestsBelong, TypesStay, NEW p \in Proc, Answered(p)
    PROVE  RequestsBelong'
<1>1. HoldsOwnType("idle", None, None)'
  BY DEF HoldsOwnType
<1> QED BY <1>1, RequestMoves DEF Answered, Step

\* The steps of a request after it has begun.
LEMMA ContinuesBelonging ==
    ASSUME OfficeTypeOK, TypesInv, NEW p \in Proc, Continue(p)
    PROVE  TypesStay /\ RequestsBelong'
<1>0. /\ RequestsTypeOK /\ RequestsBelong
      /\ HoldsOwnType(at[p], target[p], copy[p]) /\ Fits(at[p], target[p], copy[p])
  BY DEF OfficeTypeOK, TypesInv, RequestsTypeOK, RequestsBelong
<1>1. ASSUME types' = types PROVE TypesStay
  BY <1>1 DEF TypesStay
<1>2. ASSUME types' = types, Answered(p) PROVE TypesStay /\ RequestsBelong'
  BY <1>0, <1>1, <1>2, AnswersBelong
<1>3. ASSUME types' = types, NEW step \in {"finding", "enrolling", "toggling"},
             NEW x, NEW row, Holding(p, step, x, row)
      PROVE  TypesStay /\ RequestsBelong'
  <2>1. HoldsOwnType(step, x, row)'
    BY DEF HoldsOwnType
  <2> QED BY <1>0, <1>1, <1>3, <2>1, RequestMoves DEF Step
<1>4. CASE SendCodeSave(p) \/ (\E t \in Token : LoginIssue(p, t)) \/ Fail(p)
  BY <1>2, <1>4 DEF SendCodeSave, LoginIssue, Fail, tables
<1>5. CASE \/ UpdateHotelSave(p) \/ BatchCreateDone(p) \/ CreateUser(p) \/ ToggleStaffSave(p)
          \/ DeleteUser(p) \/ CreateRoomInsert(p) \/ UpdateRoomSave(p) \/ DeleteRoom(p)
          \/ StaySave(p)
  BY <1>2, <1>5 DEF UpdateHotelSave, BatchCreateDone, CreateUser, ToggleStaffSave, DeleteUser,
     CreateRoomInsert, UpdateRoomSave, DeleteRoom, StaySave, unchangedBut, unchangedButRequests,
     tables
<1>6. CASE VerifyCodeDelete(p)
  <2>1. \E row : Holding(p, "finding", target[p], row) /\ types' = types
    BY <1>6 DEF VerifyCodeDelete, Accept, tables
  <2> QED BY <1>3, <2>1
<1>7. CASE FindByUsername(p)
  BY <1>3, <1>7 DEF FindByUsername, tables
<1>8. CASE ToggleStaffRead(p)
  <2>1. \E row : Holding(p, "toggling", target[p], row) /\ types' = types
    BY <1>8 DEF ToggleStaffRead, tables
  <2> QED BY <1>3, <2>1
<1>9. CASE BatchCreateNext(p)
  <2>1. PICK x, row : /\ Holding(p, "batching", x, row)
                      /\ row.hotel = copy[p].hotel /\ row.type = copy[p].type
                      /\ types' = types /\ at[p] = "batching"
    <3>1. PICK n : /\ Holding(p, "batching", target[p], [copy[p] EXCEPT !.todo = @ \ {n}])
                   /\ types' = types /\ at[p] = "batching"
      BY <1>9 DEF BatchCreateNext, unchangedBut
    <3>2. copy[p] \in BatchRow
      BY <1>0, <3>1 DEF Fits
    <3> DEFINE row == [copy[p] EXCEPT !.todo = @ \ {n}]
    <3>3. row.hotel = copy[p].hotel /\ row.type = copy[p].type
      BY <3>2 DEF BatchRow
    <3> HIDE DEF row
    <3> QED BY <3>1, <3>3 DEF row
  <2>2. TypeOfHotel(row.type, row.hotel)'
    BY <1>0, <1>1, <2>1, StaysBelonging DEF HoldsOwnType
  <2>3. HoldsOwnType("batching", x, row)'
    BY <2>2 DEF HoldsOwnType
  <2> QED BY <1>0, <1>1, <2>1, <2>3, RequestMoves DEF Step
<1>10. CASE UpdateRoomTypeSave(p)
  <2>1. /\ target[p] \in DOMAIN types /\ copy[p].hotel = types[target[p]].hotel
        /\ types' = [types EXCEPT ![target[p]] = copy[p]]
    BY <1>0, <1>10 DEF UpdateRoomTypeSave, Fits, HoldsOwnType
  <2>2. TypesStay
    BY <2>1 DEF TypesStay
  <2> QED BY <1>0, <1>10, <2>2, AnswersBelong DEF UpdateRoomTypeSave
<1> QED BY <1>4, <1>5, <1>6, <1>7, <1>8, <1>9, <1>10 DEF Continue

\* No room type changes its hotel, and requests go on holding rows that belong.
LEMMA RequestsGoOnBelonging ==
    ASSUME OfficeTypeOK, TypesInv, [Next]_vars
    PROVE  TypesStay /\ RequestsBelong'
<1>0. /\ RequestsTypeOK /\ RequestsBelong /\ RoomsBelong
  BY DEF OfficeTypeOK, TypesInv
<1>1. ASSUME types' = types PROVE TypesStay
  BY <1>1 DEF TypesStay
<1>2. ASSUME types' = types, UNCHANGED requests PROVE TypesStay /\ RequestsBelong'
  BY <1>0, <1>1, <1>2, RequestsRest
<1>3. ASSUME NEW h \in HotelId, types' = Append(types, [hotel |-> h, active |-> TRUE]),
             UNCHANGED requests
      PROVE  TypesStay /\ RequestsBelong'
  <2>1. [hotel |-> h, active |-> TRUE] \in TypeRow
    BY DEF TypeRow
  <2> QED BY <1>0, <1>3, <2>1, NewTypeStays, RequestsRest
<1>4. ASSUME NEW p \in Proc, Reads(p) PROVE TypesStay /\ RequestsBelong'
  <2>1. PICK step, x, row : /\ step \in Step /\ StepsTo(p, step, x, row)
                            /\ Fits(step, x, row) /\ FreshCopy(step, x, row)
    BY <1>4 DEF Reads
  <2>2. HoldsOwnType(step, x, row)
    BY <1>0, <2>1 DEF FreshCopy, HoldsOwnType, TypeOfHotel, RoomsBelong
  <2>3. types' = types /\ Holding(p, step, x, row)
    BY <2>1 DEF StepsTo, tables
  <2>4. HoldsOwnType(step, x, row)' /\ (step = "updating_type" => x \in DOMAIN types)
    BY <1>1, <2>1, <2>2, <2>3, StaysBelonging DEF HoldsOwnType, Fits
  <2> QED BY <1>0, <1>1, <2>1, <2>3, <2>4, RequestMoves
<1>5. ASSUME NEW p \in Proc, AccountRequest(p) \/ StayRequest(p)
      PROVE  TypesStay /\ RequestsBelong'
  BY <1>4, <1>5, RequestsRead
<1>6. ASSUME NEW p \in Proc, NEW t \in Token, CatalogueRequest(p, t)
      PROVE  TypesStay /\ RequestsBelong'
  BY <1>2, <1>3, <1>4, <1>6, CatalogueReads, Ids
     DEF CreateHotel, CreateRoomType, unchangedBut
<1>7. CASE Boot
  <2>1. boot.hotel \in HotelId
    BY DEF OfficeTypeOK, BootTypeOK
  <2>2. CASE SeedTypes
    BY <1>2, <1>3, <2>1, <2>2 DEF SeedTypes
  <2>3. CASE ~SeedTypes
    BY <1>2, <1>7, <2>3 DEF Boot, StartUp, SeedAdmin, SeedHotel, SeedManager, SeedClerk,
       SeedRoom, SeedRoomsDone, SeedGuest, SeedUser, Skip, tables
  <2> QED BY <2>2, <2>3
<1>8. CASE Outside
  <2>1. CASE ~Stop
    BY <1>2, <1>8, <2>1 DEF Outside, Minute, Hour, RedisGains, RedisLoses, Logout, tables
  <2>2. CASE Stop
    BY <1>1, <2>2 DEF Stop, tables, RequestsBelong, HoldsOwnType
  <2> QED BY <2>1, <2>2
<1>9. CASE UNCHANGED vars
  BY <1>2, <1>9 DEF vars, tables
<1> QED BY <1>5, <1>6, <1>7, <1>8, <1>9, ContinuesBelonging DEF Next

\* Only the start and the end of the server change what is remembered of it.
LEMMA BootChanges ==
    ASSUME OfficeTypeOK, [Next]_vars
    PROVE  boot' = boot \/ Boot \/ Stop
<1>1. ASSUME NEW p \in Proc, AccountRequest(p) \/ StayRequest(p) PROVE boot' = boot
  BY <1>1, RequestsRead DEF Reads, StepsTo
<1>2. ASSUME NEW p \in Proc, NEW t \in Token, CatalogueRequest(p, t) PROVE boot' = boot
  BY <1>2, CatalogueReads DEF Reads, StepsTo, CreateHotel, CreateRoomType, unchangedBut
<1>3. ASSUME NEW p \in Proc, Continue(p) PROVE boot' = boot
  BY <1>3 DEF Continue, SendCodeSave, VerifyCodeDelete, Accept, FindByUsername, CreateUser,
     LoginIssue, ToggleStaffRead, ToggleStaffSave, DeleteUser, UpdateHotelSave,
     UpdateRoomTypeSave, CreateRoomInsert, BatchCreateNext, BatchCreateDone, UpdateRoomSave,
     DeleteRoom, StaySave, Fail, unchangedBut, unchangedButRequests
<1>4. CASE Outside
  BY <1>4 DEF Outside, Minute, Hour, RedisGains, RedisLoses, Logout
<1>5. CASE UNCHANGED vars
  BY <1>5 DEF vars
<1> QED BY <1>1, <1>2, <1>3, <1>4, <1>5 DEF Next

\* That a room was stored without a type is not forgotten.
LEMMA UntypedStays ==
    ASSUME OfficeTypeOK, [Next]_vars, boot.untyped
    PROVE  boot'.untyped
<1>0. BootTypeOK
  BY DEF OfficeTypeOK
<1>1. CASE Boot
  <2>1. ASSUME NEW n \in Number, SeedRoom(n) PROVE boot'.untyped
    BY <1>0, <2>1 DEF SeedRoom, BootTypeOK
  <2>2. CASE ~\E n \in Number : SeedRoom(n)
    BY <1>0, <1>1, <2>2 DEF Boot, StartUp, SeedAdmin, SeedHotel, SeedManager, SeedClerk,
       SeedTypes, SeedRoomsDone, SeedGuest, SeedUser, Skip, Proceed, FailAndProceed, BootTypeOK
  <2> QED BY <2>1, <2>2
<1>2. CASE Stop
  BY <1>0, <1>2 DEF Stop, BootTypeOK
<1> QED BY <1>1, <1>2, BootChanges

\* The seed remembers a type of the hotel it has created.
LEMMA SeedGoesOnBelonging ==
    ASSUME OfficeTypeOK, TypesInv, TypesStay, [Next]_vars
    PROVE  SeedBelongs'
<1>0. SeedBelongs /\ BootTypeOK
  BY DEF TypesInv, OfficeTypeOK
<1>1. ASSUME boot' = boot PROVE SeedBelongs'
  BY <1>0, <1>1, StaysBelonging DEF SeedBelongs
<1>2. ASSUME boot'.type = 0 PROVE SeedBelongs'
  BY <1>2 DEF SeedBelongs
<1>3. ASSUME boot'.type = boot.type, boot'.hotel = boot.hotel,
             boot'.step \in {"rooms", "guest", "up"}
      PROVE  SeedBelongs'
  BY <1>0, <1>3, StaysBelonging DEF SeedBelongs
<1>4. CASE Boot
  <2>1. CASE StartUp \/ SeedAdmin \/ SeedManager \/ SeedClerk
    <3>1. boot'.type = 0
      BY <1>0, <2>1 DEF StartUp, SeedAdmin, SeedManager, SeedClerk, SeedUser, Skip,
         Proceed, FailAndProceed, Boots, SeedBelongs, BootTypeOK
    <3> QED BY <1>2, <3>1
  <2>2. CASE SeedHotel
    <3>1. boot'.type = 0
      BY <1>0, <2>2 DEF SeedHotel, Skip, Proceed, FailAndProceed, Boots, SeedBelongs, BootTypeOK
    <3> QED BY <1>2, <3>1
  <2>3. CASE SeedTypes
    <3>1. CASE FailAndProceed("rooms")
      BY <1>0, <1>2, <2>3, <3>1 DEF SeedTypes, FailAndProceed, Boots, SeedBelongs, BootTypeOK
    <3>2. CASE ~FailAndProceed("rooms")
      <4>1. /\ types' = Append(types, [hotel |-> boot.hotel, active |-> TRUE])
            /\ boot' = [boot EXCEPT !.step = "rooms", !.type = Len(types) + 1]
        BY <2>3, <3>2 DEF SeedTypes
      <4>2. types \in Seq(TypeRow) /\ [hotel |-> boot.hotel, active |-> TRUE] \in TypeRow
        BY <1>0 DEF OfficeTypeOK, TablesTypeOK, BootTypeOK, TypeRow
      <4>3. /\ Len(types) + 1 \in DOMAIN types'
            /\ types'[Len(types) + 1] = [hotel |-> boot.hotel, active |-> TRUE]
        BY <4>1, <4>2, Grows
      <4>4. boot'.type = Len(types) + 1 /\ boot'.hotel = boot.hotel /\ boot'.step = "rooms"
        BY <1>0, <4>1 DEF BootTypeOK
      <4> QED BY <4>3, <4>4 DEF SeedBelongs, TypeOfHotel
    <3> QED BY <3>1, <3>2
  <2>4. ASSUME NEW n \in Number, SeedRoom(n) PROVE SeedBelongs'
    <3>1. boot'.type = boot.type /\ boot'.hotel = boot.hotel /\ boot'.step = "rooms"
      BY <1>0, <2>4 DEF SeedRoom, Boots, BootTypeOK
    <3> QED BY <1>3, <3>1
  <2>5. CASE SeedRoomsDone \/ SeedGuest
    <3>1. /\ boot'.type = boot.type /\ boot'.hotel = boot.hotel
          /\ boot'.step \in {"rooms", "guest", "up"}
      BY <1>0, <2>5 DEF SeedRoomsDone, SeedGuest, SeedUser, Skip, Proceed, FailAndProceed, BootTypeOK
    <3> QED BY <1>3, <3>1
  <2> QED BY <1>4, <2>1, <2>2, <2>3, <2>4, <2>5 DEF Boot
<1>5. CASE Stop
  <2>1. boot'.type = 0
    BY <1>0, <1>5 DEF Stop, BootTypeOK
  <2> QED BY <1>2, <2>1
<1> QED BY <1>1, <1>4, <1>5, BootChanges

-----------------------------------------------------------------------------
(* The rooms. *)

RowsBelong(t) == \A r \in Live(t) : TypeOfHotel(t[r].type, t[r].key[1])

LEMMA AppendBelongs ==
    ASSUME NEW R, NEW t \in Seq(R), RowsBelong(t), NEW row \in R,
           TypeOfHotel(row.type, row.key[1])
    PROVE  RowsBelong(Append(t, row)) /\ RowsBelong(Insert(t, row))
<1>1. /\ DOMAIN Append(t, row) = DOMAIN t \cup {Len(t) + 1}
      /\ Append(t, row)[Len(t) + 1] = row
      /\ \A i \in DOMAIN t : Append(t, row)[i] = t[i]
  BY Grows
<1>2. RowsBelong(Append(t, row))
  BY <1>1 DEF RowsBelong, Live
<1> QED BY <1>2 DEF Insert

LEMMA WriteBelongs ==
    ASSUME NEW t, RowsBelong(t), NEW i, NEW row, TypeOfHotel(row.type, row.key[1])
    PROVE  RowsBelong([t EXCEPT ![i] = row])
  BY DEF RowsBelong, Live

LEMMA DeleteBelongs ==
    ASSUME NEW t, RowsBelong(t), NEW i
    PROVE  RowsBelong(Delete(t, i))
  BY DEF RowsBelong, Live, Delete

LEMMA RoomsGoOnBelonging ==
    ASSUME OfficeTypeOK, TypesInv, TypesStay, [Next]_vars, ~boot'.untyped
    PROVE  RoomsBelong'
<1>0. /\ RequestsTypeOK /\ RowsBelong(rooms) /\ rooms \in Seq(RoomRow \cup {Gone})
      /\ \A row \in RoomRow : row \in RoomRow \cup {Gone}
  BY DEF OfficeTypeOK, TablesTypeOK, TypesInv, RoomsBelong, RowsBelong
<1>1. SUFFICES RowsBelong(rooms')
  <2> SUFFICES ASSUME NEW t, t = rooms', RowsBelong(t) PROVE RoomsBelong'
    OBVIOUS
  <2>1. ASSUME NEW r \in Live(t) PROVE TypeOfHotel(t[r].type, t[r].key[1])'
    <3>1. TypeOfHotel(t[r].type, t[r].key[1])
      BY DEF RowsBelong
    <3> QED BY <3>1 DEF TypeOfHotel, TypesStay
  <2> QED BY <2>1 DEF RoomsBelong, Live
<1>2. ASSUME NEW p \in Proc, at[p] \in {"creating_room", "updating_room"}
      PROVE  copy[p] \in RoomRow /\ TypeOfHotel(copy[p].type, copy[p].key[1])
  BY <1>0, <1>2 DEF RequestsTypeOK, Fits, TypesInv, RequestsBelong, HoldsOwnType
<1>3. CASE RoomsAlone \/ RoomRead
  BY <1>0, <1>3 DEF RoomsAlone, RoomRead
<1>4. ASSUME NEW p \in Proc, CreateRoomInsert(p) PROVE RowsBelong(rooms')
  BY <1>0, <1>2, <1>4, AppendBelongs DEF CreateRoomInsert
<1>5. ASSUME NEW p \in Proc, BatchCreateNext(p) PROVE RowsBelong(rooms')
  <2>1. copy[p] \in BatchRow /\ TypeOfHotel(copy[p].type, copy[p].hotel)
    BY <1>0, <1>5 DEF BatchCreateNext, RequestsTypeOK, Fits, TypesInv, RequestsBelong, HoldsOwnType
  <2>2. PICK n \in copy[p].todo :
          rooms' \in {Insert(rooms, NewRoom(copy[p].hotel, n, copy[p].type)), rooms}
    BY <1>5 DEF BatchCreateNext
  <2> DEFINE row == NewRoom(copy[p].hotel, n, copy[p].type)
  <2>3. row \in RoomRow /\ row.type = copy[p].type /\ row.key[1] = copy[p].hotel
    BY <2>1 DEF BatchRow, RoomRow, NewRoom
  <2> HIDE DEF row
  <2>4. RowsBelong(Insert(rooms, row))
    BY <1>0, <2>1, <2>3, AppendBelongs
  <2> QED BY <1>0, <2>2, <2>4 DEF row
<1>6. ASSUME NEW p \in Proc, UpdateRoomSave(p) PROVE RowsBelong(rooms')
  <2>1. PICK r : rooms' = [rooms EXCEPT ![r] = copy[p]]
    BY <1>6 DEF UpdateRoomSave
  <2>2. TypeOfHotel(copy[p].type, copy[p].key[1])
    BY <1>2, <1>6 DEF UpdateRoomSave
  <2>3. RowsBelong([rooms EXCEPT ![r] = copy[p]])
    BY <1>0, <2>2, WriteBelongs
  <2> QED BY <2>1, <2>3
<1>7. ASSUME NEW p \in Proc, DeleteRoom(p) PROVE RowsBelong(rooms')
  BY <1>0, <1>7, DeleteBelongs DEF DeleteRoom
<1>8. ASSUME NEW n \in Number, SeedRoom(n) PROVE RowsBelong(rooms')
  <2> DEFINE row == NewRoom(boot.hotel, n, boot.type)
  <2>1. row \in RoomRow /\ row.type = boot.type /\ row.key[1] = boot.hotel
    BY DEF OfficeTypeOK, BootTypeOK, NewRoom, RoomRow
  <2>2. TypeOfHotel(row.type, row.key[1])
    <3>1. boot.type # 0
      BY <1>8 DEF SeedRoom, OfficeTypeOK, BootTypeOK
    <3> QED BY <2>1, <3>1 DEF TypesInv, SeedBelongs
  <2>3. rooms' = Append(rooms, row)
    BY <1>8 DEF SeedRoom
  <2> HIDE DEF row
  <2> QED BY <1>0, <2>1, <2>2, <2>3, AppendBelongs
<1>9. ASSUME NEW p \in Proc, StaySave(p) PROVE RowsBelong(rooms')
  <2>1. ASSUME NEW r \in Live(rooms), NEW status \in {"available", "occupied"},
               rooms' = [rooms EXCEPT ![r].status = status]
        PROVE  RowsBelong(rooms')
    <3> DEFINE row == [rooms[r] EXCEPT !.status = status]
    <3>1. rooms[r] \in RoomRow /\ rooms' = [rooms EXCEPT ![r] = row]
      BY <2>1, Ids
    <3>2. row.type = rooms[r].type /\ row.key = rooms[r].key
      BY <3>1 DEF RoomRow
    <3> HIDE DEF row
    <3> QED BY <1>0, <3>1, <3>2, WriteBelongs DEF RowsBelong
  <2>2. TypeOfHotel(copy[p].room.type, copy[p].room.key[1])
    BY <1>9 DEF StaySave, TypesInv, RequestsBelong, HoldsOwnType
  <2>3. RowsBelong(Restored(rooms, target[p], copy[p].room))
    BY <1>0, <2>2, WriteBelongs DEF Restored
  <2> QED BY <1>0, <1>9, <2>1, <2>3 DEF StaySave
<1> QED BY <1>3, <1>4, <1>5, <1>6, <1>7, <1>8, <1>9, RoomSteps

\* The type of a room is one of the room's hotel as long as no room was stored
\* without a type, for any number of hotels, types and rooms, with room requests,
\* late saves, order saves and the seed interleaved, although UpdateRoom takes
\* any type from the request.
THEOREM TypesStayOfTheirHotel == Spec => []RoomTypeOfItsHotel
<1> DEFINE Inv == OfficeTypeOK /\ (~boot.untyped => TypesInv)
<1>1. Init => Inv
  <2> SUFFICES ASSUME Init, ~boot.untyped PROVE TypesInv
    BY InitTypeOK DEF Init
  <2>1. RequestsBelong
    BY DEF Init, OfficeInit, RequestsBelong, HoldsOwnType
  <2>2. SeedBelongs
    BY DEF Init, OfficeInit, FirstBoot, Running, SeedBelongs
  <2>3. CASE FirstBoot
    BY <2>1, <2>2, <2>3 DEF FirstBoot, RoomsBelong, Live, TypesInv
  <2>4. ASSUME NEW untyped \in BOOLEAN, Running(untyped) PROVE TypesInv
    <3>1. ~untyped
      BY <2>4 DEF Running
    <3>2. types = <<[hotel |-> 1, active |-> TRUE], [hotel |-> 2, active |-> TRUE]>>
      BY <2>4, <3>1 DEF Running
    <3>3. PICK n \in Number : rooms = <<NewRoom(1, n, 1)>>
      BY <2>4, <3>1 DEF Running
    <3>4. RoomsBelong
      BY <3>2, <3>3 DEF RoomsBelong, TypeOfHotel, NewRoom, Live
    <3> QED BY <2>1, <2>2, <3>4 DEF TypesInv
  <2>5. FirstBoot \/ \E untyped \in BOOLEAN : Running(untyped)
    BY FirstOrRunning DEF Init
  <2> QED BY <2>3, <2>4, <2>5
<1>2. Inv /\ [Next]_vars => Inv'
  <2> SUFFICES ASSUME OfficeTypeOK, ~boot.untyped => TypesInv, [Next]_vars, ~boot'.untyped
               PROVE  TypesInv'
    BY NextTypeOK
  <2>1. ~boot.untyped
    BY UntypedStays
  <2> QED BY <2>1, RequestsGoOnBelonging, SeedGoesOnBelonging, RoomsGoOnBelonging DEF TypesInv
<1>3. Inv => RoomTypeOfItsHotel
  BY DEF TypesInv, RoomsBelong, RoomTypeOfItsHotel
<1> HIDE DEF Inv
<1> QED BY <1>1, <1>2, <1>3, PTL DEF Spec

-----------------------------------------------------------------------------
(* The start of the server. *)

\* What a start in which no call failed has found or made before a step.  The
\* hotel's id stays 0 when the hotel was there already.
Seeded(step, h) ==
    /\ step \in {"hotel", "manager", "clerk", "types", "rooms", "guest"} => Present("admin")
    /\ step \in {"manager", "clerk", "types", "rooms", "guest"} => DemoHotels # {}
    /\ h # 0 =>
         /\ step \in {"clerk", "types", "rooms", "guest"} => Present("manager")
         /\ step \in {"types", "rooms", "guest"} => Present("clerk")
         /\ step = "guest" => RoomsSeeded(h)

BootInv ==
    /\ boot.step # "up" => \A p \in Proc : at[p] = "idle"
    /\ boot.step \in {"down", "admin", "hotel"} => boot.hotel = 0
    /\ ~boot.failed => Seeded(boot.step, boot.hotel)

SeedTables == <<boot, users, hotels, rooms, requests>>

\* No request is served before the server is up, and the others leave the seed alone.
LEMMA BootSteps ==
    ASSUME BootInv, [Next]_vars
    PROVE  (boot.step = "up" /\ boot' = boot) \/ Boot \/ Stop \/ UNCHANGED SeedTables
<1>1. ASSUME NEW p \in Proc, AccountRequest(p) \/ StayRequest(p)
      PROVE  boot.step = "up" /\ boot' = boot
  BY <1>1 DEF AccountRequest, StayRequest, SendCodeRead, VerifyCodeRead, LoginRead, CreateStaff,
     ToggleStaff, DeleteStaff, StayRead, AdminRequest, Free, unchangedButRequests
<1>2. ASSUME NEW p \in Proc, NEW t \in Token, CatalogueRequest(p, t)
      PROVE  boot.step = "up" /\ boot' = boot
  <2>1. CASE HotelRequest(p, t) \/ TypeRequest(p, t)
    BY <2>1 DEF HotelRequest, TypeRequest, CreateHotel, UpdateHotelRead, CreateRoomType,
       UpdateRoomTypeRead, SuperRequest, ScopeRequest, AdminRequest, Free, unchangedBut,
       unchangedButRequests
  <2>2. CASE RoomRequest(p, t)
    BY <2>2 DEF RoomRequest, CreateRoomRead, BatchCreateRead, DeleteRoomRead, UpdateRoomRead,
       ScopeRequest, AdminRequest, Free, unchangedBut, unchangedButRequests
  <2> QED BY <1>2, <2>1, <2>2 DEF CatalogueRequest
<1>3. ASSUME NEW p \in Proc, Continue(p) PROVE boot.step = "up" /\ boot' = boot
  <2>1. boot' = boot
    BY <1>3 DEF Continue, SendCodeSave, VerifyCodeDelete, Accept, FindByUsername, CreateUser,
       LoginIssue, ToggleStaffRead, ToggleStaffSave, DeleteUser, UpdateHotelSave,
       UpdateRoomTypeSave, CreateRoomInsert, BatchCreateNext, BatchCreateDone, UpdateRoomSave,
       DeleteRoom, StaySave, Fail, unchangedBut, unchangedButRequests
  <2>2. at[p] # "idle"
    BY <1>3 DEF Continue, SendCodeSave, VerifyCodeDelete, Accept, FindByUsername, CreateUser,
       LoginIssue, ToggleStaffRead, ToggleStaffSave, DeleteUser, UpdateHotelSave,
       UpdateRoomTypeSave, CreateRoomInsert, BatchCreateNext, BatchCreateDone, UpdateRoomSave,
       DeleteRoom, StaySave, Fail
  <2> QED BY <2>1, <2>2 DEF BootInv
<1>4. CASE Outside
  BY <1>4 DEF Outside, Minute, Hour, RedisGains, RedisLoses, Logout, tables, SeedTables
<1>5. CASE UNCHANGED vars
  BY <1>5 DEF vars, tables, SeedTables
<1> QED BY <1>1, <1>2, <1>3, <1>4, <1>5 DEF Next

\* An account of the seed, unless the call fails.
LEMMA SeedUserSeeds ==
    ASSUME OfficeTypeOK, NEW row \in SeedRow, NEW step, SeedUser(row, step)
    PROVE  /\ boot'.step = step /\ boot'.hotel = boot.hotel
           /\ ~boot'.failed => ~boot.failed /\ Present(row.key)'
           /\ \A name : Present(name) => Present(name)'
           /\ DemoHotels' = DemoHotels /\ UNCHANGED <<rooms, at>>
<1>0. DemoHotels' = DemoHotels /\ UNCHANGED <<rooms, at>>
  BY DEF SeedUser, DemoHotels, requests
<1>1. /\ row \in UserRow /\ row # Gone /\ users \in Seq(UserRow \cup {Gone})
      /\ row \in UserRow \cup {Gone}
  BY SeedRowsAreRows, GoneIsNoRow DEF OfficeTypeOK, TablesTypeOK
<1>2. CASE UNCHANGED users /\ FailAndProceed(step)
  <2>1. boot'.failed /\ boot'.step = step /\ boot'.hotel = boot.hotel
    BY <1>2 DEF FailAndProceed, OfficeTypeOK, BootTypeOK
  <2> QED BY <1>0, <1>2, <2>1 DEF Present, Rivals, Live
<1>3. CASE users' = Append(users, row) /\ Proceed(step)
  <2>1. /\ DOMAIN users' = DOMAIN users \cup {Len(users) + 1} /\ users'[Len(users) + 1] = row
        /\ \A i \in DOMAIN users : users'[i] = users[i]
    BY <1>1, <1>3, Grows
  <2>2. Len(users) + 1 \in Rivals(users, row.key)'
    BY <1>1, <2>1 DEF Rivals, Live
  <2>3. \A name : Rivals(users, name) \subseteq Rivals(users, name)'
    BY <2>1 DEF Rivals, Live
  <2>4. boot'.failed = boot.failed /\ boot'.step = step /\ boot'.hotel = boot.hotel
    BY <1>3 DEF Proceed, OfficeTypeOK, BootTypeOK
  <2> QED BY <1>0, <2>2, <2>3, <2>4 DEF Present
<1> QED BY <1>2, <1>3 DEF SeedUser

\* What the last step of a start promises.
Repaired ==
    ~Boots("up") /\ Boots("up")' /\ ~boot'.failed
        => /\ Present("admin")' /\ Present("demo_guest")'
           /\ DemoHotels' # {}
           /\ boot.hotel # 0 => /\ Present("manager") /\ Present("clerk")
                                /\ RoomsSeeded(boot.hotel)

LEMMA BootGoesOn ==
    ASSUME OfficeTypeOK, BootInv, Boot
    PROVE  BootInv' /\ Repaired
<1> USE DEF BootInv, Seeded, Repaired, Boots
<1>0. BootTypeOK
  BY DEF OfficeTypeOK
<1>1. CASE StartUp
  BY <1>0, <1>1 DEF StartUp, BootTypeOK, requests
<1>2. CASE SeedAdmin
  <2>1. CASE Present("admin") /\ Skip("hotel")
    BY <1>0, <1>2, <2>1 DEF SeedAdmin, Skip, Proceed, BootTypeOK, requests, tables, Present
  <2>2. CASE SeedUser(User("admin", "super_admin", None), "hotel")
    <3>1. User("admin", "super_admin", None) \in SeedRow
      BY DEF SeedRow
    <3>2. User("admin", "super_admin", None).key = "admin"
      BY DEF User
    <3>3. boot'.step = "hotel" /\ boot'.hotel = 0 /\ at' = at /\ boot.step = "admin"
      BY <1>2, <2>2, <3>1, SeedUserSeeds DEF SeedAdmin
    <3>4. ~boot'.failed => Present("admin")'
      BY <2>2, <3>1, <3>2, SeedUserSeeds
    <3> QED BY <3>3, <3>4
  <2> QED BY <1>2, <2>1, <2>2 DEF SeedAdmin
<1>3. CASE SeedHotel
  <2>1. CASE DemoHotels # {} /\ Skip("guest")
    BY <1>0, <1>3, <2>1 DEF SeedHotel, Skip, Proceed, BootTypeOK, requests, tables, Present, DemoHotels
  <2>2. CASE /\ hotels' = Append(hotels, [name |-> "demo"])
             /\ boot' = [boot EXCEPT !.step = "manager", !.hotel = Len(hotels) + 1,
                                     !.failed = @ \/ DemoHotels # {}]
             /\ UNCHANGED <<deployment, users, types, rooms, smsVars, sessionVars, requests>>
    <3>1. hotels \in Seq(HotelRow) /\ [name |-> "demo"] \in HotelRow
      BY DEF OfficeTypeOK, TablesTypeOK, HotelRow
    <3>2. Len(hotels) + 1 \in DOMAIN hotels' /\ hotels'[Len(hotels) + 1] = [name |-> "demo"]
      BY <2>2, <3>1, Grows
    <3>3. DemoHotels' # {}
      BY <3>2 DEF DemoHotels
    <3> QED BY <1>0, <1>3, <2>2, <3>3 DEF SeedHotel, BootTypeOK, requests, Present
  <2>3. CASE FailAndProceed("manager") /\ UNCHANGED requests
    BY <1>0, <1>3, <2>3 DEF SeedHotel, FailAndProceed, BootTypeOK, requests
  <2> QED BY <1>3, <2>1, <2>2, <2>3 DEF SeedHotel
<1>4. CASE SeedManager \/ SeedClerk
  <2>1. boot.hotel \in HotelId
    BY <1>0 DEF BootTypeOK
  <2>2. /\ User("manager", "hotel_admin", boot.hotel) \in SeedRow
        /\ User("manager", "hotel_admin", boot.hotel).key = "manager"
        /\ User("clerk", "front_desk", boot.hotel) \in SeedRow
        /\ User("clerk", "front_desk", boot.hotel).key = "clerk"
    BY <2>1 DEF SeedRow, User
  <2>3. CASE SeedManager
    <3>1. /\ boot.step = "manager" /\ boot'.step = "clerk" /\ boot'.hotel = boot.hotel
          /\ ~boot'.failed => ~boot.failed /\ Present("manager")'
          /\ Present("admin") => Present("admin")'
          /\ DemoHotels' = DemoHotels /\ at' = at
      BY <2>2, <2>3, SeedUserSeeds DEF SeedManager
    <3> QED BY <3>1
  <2>4. CASE SeedClerk
    <3>1. /\ boot.step = "clerk" /\ boot'.step = "types" /\ boot'.hotel = boot.hotel
          /\ ~boot'.failed => ~boot.failed /\ Present("clerk")'
          /\ Present("admin") => Present("admin")'
          /\ Present("manager") => Present("manager")'
          /\ DemoHotels' = DemoHotels /\ at' = at
      BY <2>2, <2>4, SeedUserSeeds DEF SeedClerk
    <3> QED BY <3>1
  <2> QED BY <1>4, <2>3, <2>4
<1>5. CASE SeedTypes
  BY <1>0, <1>5 DEF SeedTypes, FailAndProceed, BootTypeOK, requests, Present, DemoHotels
<1>6. ASSUME NEW n \in Number, SeedRoom(n) PROVE BootInv' /\ Repaired
  <2>1. /\ boot'.step = boot.step /\ boot'.hotel = boot.hotel /\ boot'.failed = boot.failed
        /\ boot.step = "rooms"
    BY <1>0, <1>6 DEF SeedRoom, BootTypeOK
  <2> QED BY <1>6, <2>1 DEF SeedRoom, requests, Present, DemoHotels
<1>7. CASE SeedRoomsDone
  <2>1. CASE RoomsSeeded(boot.hotel) /\ Proceed("guest")
    BY <1>0, <1>7, <2>1 DEF SeedRoomsDone, Proceed, BootTypeOK, requests, tables, Present,
       DemoHotels, RoomsSeeded
  <2>2. CASE FailAndProceed("guest")
    BY <1>0, <1>7, <2>2 DEF SeedRoomsDone, FailAndProceed, BootTypeOK, requests
  <2> QED BY <1>7, <2>1, <2>2 DEF SeedRoomsDone
<1>8. CASE SeedGuest
  <2>1. CASE Present("demo_guest") /\ Skip("up")
    <3>1. /\ boot.step = "guest" /\ boot'.step = "up" /\ boot'.failed = boot.failed
          /\ \A name : Present(name)' = Present(name)
          /\ DemoHotels' = DemoHotels
      BY <1>0, <1>8, <2>1 DEF SeedGuest, Skip, Proceed, BootTypeOK, tables, Present, DemoHotels,
         Rivals, Live
    <3> QED BY <2>1, <3>1
  <2>2. CASE SeedUser(User("demo_guest", "guest", None), "up")
    <3>1. /\ User("demo_guest", "guest", None) \in SeedRow
          /\ User("demo_guest", "guest", None).key = "demo_guest"
      BY DEF SeedRow, User
    <3>2. /\ boot.step = "guest" /\ boot'.step = "up"
          /\ ~boot'.failed => ~boot.failed /\ Present("demo_guest")'
          /\ Present("admin") => Present("admin")'
          /\ DemoHotels' = DemoHotels
      BY <1>8, <2>2, <3>1, SeedUserSeeds DEF SeedGuest
    <3> QED BY <3>2
  <2> QED BY <1>8, <2>1, <2>2 DEF SeedGuest
<1> QED BY <1>1, <1>2, <1>3, <1>4, <1>5, <1>6, <1>7, <1>8 DEF Boot

LEMMA BootInvariant ==
    ASSUME OfficeTypeOK, BootInv, [Next]_vars
    PROVE  BootInv' /\ Repaired
<1>1. CASE boot.step = "up" /\ boot' = boot
  BY <1>1 DEF BootInv, Seeded, Repaired, Boots
<1>2. CASE Boot
  BY <1>2, BootGoesOn
<1>3. CASE Stop
  BY <1>3 DEF Stop, BootInv, Seeded, Repaired, Boots, OfficeTypeOK, BootTypeOK
<1>4. CASE UNCHANGED SeedTables
  BY <1>4 DEF SeedTables, requests, BootInv, Seeded, Repaired, Boots, Present, DemoHotels,
     RoomsSeeded, Rivals, Live
<1> QED BY <1>1, <1>2, <1>3, <1>4, BootSteps

LEMMA FirstBootInv ==
    ASSUME OfficeInit
    PROVE  BootInv
<1>1. CASE FirstBoot
  BY <1>1 DEF OfficeInit, FirstBoot, BootInv, Seeded
<1>2. ASSUME NEW untyped \in BOOLEAN, Running(untyped) PROVE BootInv
  BY <1>2 DEF Running, BootInv, Seeded
<1> QED BY <1>1, <1>2, FirstOrRunning

\* A start of the server in which no call failed ends with the demo accounts
\* there, wherever earlier starts broke off, and with the hotel's staff and rooms
\* if it created the hotel; for any numbers of rooms, rows and starts.
THEOREM StartsRepair == Spec => BootRepairs
<1> DEFINE Inv == OfficeTypeOK /\ BootInv
<1>1. Init => Inv
  BY InitTypeOK, FirstBootInv DEF Init
<1>2. Inv /\ [Next]_vars => Inv' /\ Repaired
  BY NextTypeOK, BootInvariant
<1>3. Inv /\ [Next]_vars => [Repaired]_vars
  BY <1>2
<1> HIDE DEF Inv
<1> QED BY <1>1, <1>2, <1>3, PTL DEF Spec, BootRepairs, Repaired

-----------------------------------------------------------------------------
(***************************************************************************)
(* The platform keeps its administrator.  No check of the code says so:    *)
(* nobody deletes himself, a hotel's administrator deletes staff of that   *)
(* hotel, and the rest follows from who can be a super_admin, now, in a    *)
(* token, and in the row that a request is about to save.  Its name is no  *)
(* help: a clerk may have been created under it while the row was missing. *)
(* But such a clerk keeps the seed from creating the administrator, and    *)
(* when the seed creates it no request is there that still holds the clerk.*)
(***************************************************************************)

\* That role belongs to one name and to no hotel, a hotel's to a hotel.
RoleFits(row) ==
    /\ row.role = "super_admin" => row.key = "admin" /\ row.hotel = None
    /\ row.role = "hotel_admin" => row.hotel # None

\* A copy of account u: it is the administrator's if u is, and once there is an
\* administrator no other copy has the name.
CopyFits(u, row) ==
    /\ RoleFits(row)
    /\ row.role = "super_admin" <=> u \in Admins
    /\ row.key = "admin" /\ Admins # {} => u \in Admins

\* What a request is about to write, to issue or to delete.
HoldsStaff(step, x, row) ==
    /\ step \in {"finding", "enrolling"} => RoleFits(row) /\ row.role # "super_admin"
    /\ step \in {"logging_in", "toggling"} => CopyFits(x, row)
    /\ step = "saving_order" => CopyFits(row.user, row.guest)
    /\ step = "deleting_staff" => x \notin Admins

RolesFit == \A u \in Live(users) : RoleFits(users[u])
RequestsHoldStaff == \A p \in Proc : HoldsStaff(at[p], target[p], copy[p])
TokensFit ==
    \A t \in Token : tokens[t].left > 0 =>
        /\ tokens[t].role = "super_admin" => tokens[t].user \in Admins
        /\ tokens[t].role = "hotel_admin" => tokens[t].hotel # None

StaffInv == RolesFit /\ RequestsHoldStaff /\ TokensFit

\* What is known of the requests from the sections above.
Known == OfficeTypeOK /\ KeysInv(users, HeldUsers) /\ BootInv

\* The seed creates the administrator while nothing else goes on.
NewAdmin == /\ Admins \subseteq Admins'
            /\ UNCHANGED requests /\ \A p \in Proc : at[p] = "idle"

LEMMA OneAdmin ==
    ASSUME Known, RolesFit
    PROVE  \A i, j \in Admins : i = j
  BY DEF Known, KeysInv, UniqueKeys, RolesFit, RoleFits, Admins

\* A copy just made of an account.
LEMMA LiveCopyFits ==
    ASSUME Known, RolesFit, NEW u \in Live(users)
    PROVE  CopyFits(u, users[u])
<1>1. users[u].role = "super_admin" <=> u \in Admins
  BY DEF Admins
<1>2. users[u].key = "admin" /\ Admins # {} => u \in Admins
  <2> SUFFICES ASSUME users[u].key = "admin", NEW a \in Admins PROVE u \in Admins
    OBVIOUS
  <2>1. a \in Live(users) /\ users[a].key = "admin"
    BY DEF Admins, RolesFit, RoleFits
  <2> QED BY <2>1 DEF Known, KeysInv, UniqueKeys
<1> QED BY <1>1, <1>2 DEF CopyFits, RolesFit

-----------------------------------------------------------------------------
(* What requests hold. *)

\* While the administrator stays the same, what fits goes on to fit.
LEMMA StillHolds ==
    ASSUME Admins' = Admins, NEW step, NEW x, NEW row
    PROVE  HoldsStaff(step, x, row)' <=> HoldsStaff(step, x, row)
  BY DEF HoldsStaff, CopyFits, RoleFits

LEMMA StaffMoves ==
    ASSUME RequestsTypeOK, RequestsHoldStaff, Admins' = Admins, NEW p \in Proc,
           NEW step \in Step, NEW x, NEW row, Holding(p, step, x, row),
           HoldsStaff(step, x, row)
    PROVE  RequestsHoldStaff'
<1>1. /\ at'[p] = step /\ target'[p] = x /\ copy'[p] = row
      /\ \A q \in Proc \ {p} :
           at'[q] = at[q] /\ target'[q] = target[q] /\ copy'[q] = copy[q]
  BY DEF RequestsTypeOK, Holding
<1>2. ASSUME NEW q \in Proc PROVE HoldsStaff(at[q], target[q], copy[q])'
  <2>1. PICK s, y, r : s = at'[q] /\ y = target'[q] /\ r = copy'[q]
    OBVIOUS
  <2>2. HoldsStaff(s, y, r)
    BY <1>1, <2>1 DEF RequestsHoldStaff
  <2>3. HoldsStaff(s, y, r)'
    BY <2>2, StillHolds
  <2> QED BY <2>1, <2>3 DEF HoldsStaff
<1> QED BY <1>2 DEF RequestsHoldStaff

LEMMA StaffRests ==
    ASSUME RequestsHoldStaff, Admins' = Admins, UNCHANGED requests
    PROVE  RequestsHoldStaff'
<1>1. ASSUME NEW q \in Proc PROVE HoldsStaff(at[q], target[q], copy[q])'
  <2>1. PICK s, y, r : s = at[q] /\ y = target[q] /\ r = copy[q]
    OBVIOUS
  <2>2. HoldsStaff(s, y, r)'
    BY <2>1, StillHolds DEF RequestsHoldStaff
  <2> QED BY <2>1, <2>2 DEF HoldsStaff, requests
<1> QED BY <1>1 DEF RequestsHoldStaff

\* A request that holds no staff, and one that is over.
LEMMA OtherMoves ==
    ASSUME RequestsTypeOK, RequestsHoldStaff, Admins' = Admins, NEW p \in Proc,
           NEW step \in {"idle", "batching", "toggle_checked"}, NEW x, NEW row,
           Holding(p, step, x, row)
    PROVE  RequestsHoldStaff'
<1>1. HoldsStaff(step, x, row)
  BY DEF HoldsStaff
<1> QED BY <1>1, StaffMoves DEF Step

LEMMA NobodyHoldsStaff ==
    ASSUME \A p \in Proc : at'[p] = "idle"
    PROVE  RequestsHoldStaff'
  BY DEF RequestsHoldStaff, HoldsStaff

\* What a request starts with is in order: no chain of tokens reaches the
\* administrator's row for deletion.
LEMMA FreshStaff ==
    ASSUME Known, StaffInv, NEW step, NEW x, NEW row, FreshCopy(step, x, row)
    PROVE  HoldsStaff(step, x, row)
<1>0. RolesFit /\ TokensFit
  BY DEF StaffInv
<1>1. CASE step = "finding"
  BY <1>1 DEF FreshCopy, HoldsStaff, RoleFits
<1>2. CASE step = "logging_in"
  BY <1>0, <1>2, LiveCopyFits DEF FreshCopy, HoldsStaff
<1>3. CASE step = "saving_order"
  BY <1>0, <1>3, LiveCopyFits DEF FreshCopy, HoldsStaff
<1>4. CASE step = "deleting_staff"
  <2>1. PICK t \in Token : /\ tokens[t].left > 0
                           /\ tokens[t].role \in {"super_admin", "hotel_admin"}
                           /\ x # tokens[t].user /\ OwnStaff(t, x)
    BY <1>4 DEF FreshCopy
  <2>2. CASE tokens[t].role = "super_admin"
    BY <1>0, <1>4, <2>1, <2>2, OneAdmin DEF TokensFit, HoldsStaff
  <2>3. CASE tokens[t].role = "hotel_admin"
    <3>1. x \in Live(users) /\ users[x].hotel # None
      BY <1>0, <2>1, <2>3 DEF OwnStaff, TokensFit
    <3>2. x \notin Admins
      BY <1>0, <3>1 DEF RolesFit, RoleFits, Admins
    <3> QED BY <1>4, <3>2 DEF HoldsStaff
  <2> QED BY <2>1, <2>2, <2>3
<1> QED BY <1>1, <1>2, <1>3, <1>4 DEF FreshCopy, HoldsStaff

-----------------------------------------------------------------------------
(* The users table. *)

Supers(t) == {u \in Live(t) : t[u].role = "super_admin"}
Fitting(t) == \A u \in Live(t) : RoleFits(t[u])

LEMMA AppendFits ==
    ASSUME NEW R, NEW t \in Seq(R), Fitting(t), NEW row \in R, RoleFits(row)
    PROVE  /\ Fitting(Append(t, row))
           /\ Supers(t) \subseteq Supers(Append(t, row))
           /\ row.role # "super_admin" => Supers(Append(t, row)) = Supers(t)
<1> DEFINE u == Append(t, row)
           new == Len(t) + 1
<1>1. /\ DOMAIN u = DOMAIN t \cup {new} /\ u[new] = row
      /\ \A i \in DOMAIN t : u[i] = t[i]
  BY Grows
<1>2. new \notin DOMAIN t
  OBVIOUS
<1> HIDE DEF u, new
<1>3. Live(u) \subseteq Live(t) \cup {new} /\ Live(t) \subseteq Live(u)
  BY <1>1 DEF Live
<1>4. \A i \in Live(t) : i \in DOMAIN t /\ u[i] = t[i] /\ i # new
  BY <1>1, <1>2 DEF Live
<1>5. Fitting(u)
  BY <1>1, <1>3, <1>4 DEF Fitting
<1>6. /\ Supers(t) \subseteq Supers(u)
      /\ row.role # "super_admin" => Supers(u) = Supers(t)
  BY <1>1, <1>3, <1>4 DEF Supers
<1> QED BY <1>5, <1>6 DEF u

\* Writing a row over one of the same standing.
LEMMA WriteFits ==
    ASSUME NEW t, Fitting(t), NEW row, row # Gone, RoleFits(row),
           NEW i \in DOMAIN t, row.role = "super_admin" <=> i \in Supers(t)
    PROVE  /\ Fitting([t EXCEPT ![i] = row])
           /\ Supers([t EXCEPT ![i] = row]) = Supers(t)
<1> DEFINE u == [t EXCEPT ![i] = row]
<1>1. DOMAIN u = DOMAIN t /\ u[i] = row /\ \A j \in DOMAIN t \ {i} : u[j] = t[j]
  OBVIOUS
<1> HIDE DEF u
<1>2. Live(u) = Live(t) \cup {i}
  BY <1>1 DEF Live
<1>3. Supers(u) = Supers(t)
  <2>1. \A j \in DOMAIN t \ {i} : j \in Supers(u) <=> j \in Supers(t)
    BY <1>1, <1>2 DEF Supers, Live
  <2>2. i \in Supers(u) <=> i \in Supers(t)
    BY <1>1, <1>2 DEF Supers
  <2>3. Supers(u) \subseteq DOMAIN t /\ Supers(t) \subseteq DOMAIN t
    BY <1>1 DEF Supers, Live
  <2> QED BY <2>1, <2>2, <2>3
<1>4. Fitting(u)
  BY <1>1, <1>2 DEF Fitting, Live
<1> QED BY <1>3, <1>4 DEF u

LEMMA DeleteFits ==
    ASSUME NEW t, Fitting(t), NEW i, i \notin Supers(t)
    PROVE  Fitting(Delete(t, i)) /\ Supers(Delete(t, i)) = Supers(t)
<1> DEFINE u == Delete(t, i)
<1>1. DOMAIN u = DOMAIN t /\ \A j \in DOMAIN t : u[j] = IF j = i THEN Gone ELSE t[j]
  BY DEF Delete
<1> HIDE DEF u
<1>2. Live(u) = Live(t) \ {i}
  BY <1>1 DEF Live
<1>3. \A j \in Live(u) : j \in Live(t) /\ u[j] = t[j]
  BY <1>1, <1>2 DEF Live
<1> QED BY <1>2, <1>3 DEF Fitting, Supers, u

\* No step takes the administrator's row away, and only the seed makes one.
LEMMA UsersGoOnFitting ==
    ASSUME Known, StaffInv, [Next]_vars
    PROVE  Fitting(users') /\ (Supers(users') = Supers(users) \/ NewAdmin)
<1> DEFINE Goal == Fitting(users') /\ Supers(users') = Supers(users)
<1>0. /\ OfficeTypeOK /\ RequestsTypeOK /\ users \in Seq(UserRow \cup {Gone})
      /\ Fitting(users) /\ RequestsHoldStaff /\ Supers(users) = Admins
      /\ \A row \in UserRow : row # Gone /\ row \in UserRow \cup {Gone}
  BY GoneIsNoRow
     DEF Known, OfficeTypeOK, TablesTypeOK, StaffInv, RolesFit, Fitting, Supers, Admins
<1>1. ASSUME users' = users PROVE Goal
  BY <1>0, <1>1
<1>2. ASSUME NEW p \in Proc, CreateUser(p) PROVE Goal
  <2>1. copy[p] \in UserRow /\ RoleFits(copy[p]) /\ copy[p].role # "super_admin"
    BY <1>0, <1>2 DEF CreateUser, RequestsTypeOK, Fits, RequestsHoldStaff, HoldsStaff
  <2>2. CASE users' = Append(users, copy[p])
    BY <1>0, <2>1, <2>2, AppendFits
  <2> QED BY <1>1, <1>2, <2>2 DEF CreateUser, Insert
<1>3. ASSUME NEW p \in Proc, ToggleStaffSave(p) PROVE Goal
  <2>1. /\ target[p] \in DOMAIN users /\ copy[p] \in UserRow /\ CopyFits(target[p], copy[p])
    BY <1>0, <1>3 DEF ToggleStaffSave, RequestsTypeOK, Fits, RequestsHoldStaff, HoldsStaff
  <2>2. PICK u \in Landing(users, target[p], copy[p].key),
             row \in {copy[p], [copy[p] EXCEPT !.active = TRUE]} :
          users' = [users EXCEPT ![u] = row]
    BY <1>3 DEF ToggleStaffSave
  <2>3. /\ row \in UserRow /\ row.key = copy[p].key
        /\ row.role = copy[p].role /\ row.hotel = copy[p].hotel
    BY <2>1 DEF UserRow
  <2>4. u \in DOMAIN users /\ (row.role = "super_admin" <=> u \in Admins)
    <3>1. CASE u = target[p]
      BY <2>1, <2>3, <3>1 DEF CopyFits
    <3>2. CASE u # target[p]
      <4>1. target[p] \notin Live(users) /\ u \in Live(users) /\ users[u].key = copy[p].key
        BY <2>2, <3>2 DEF Landing, Rivals
      <4>2. target[p] \notin Admins
        BY <4>1 DEF Admins
      <4>3. u \notin Admins
        BY <1>0, <2>1, <4>1, <4>2 DEF CopyFits, Fitting, RoleFits, Admins
      <4> QED BY <2>1, <2>3, <4>1, <4>2, <4>3 DEF CopyFits, Live
    <3> QED BY <3>1, <3>2
  <2>5. RoleFits(row)
    BY <2>1, <2>3 DEF CopyFits, RoleFits
  <2> QED BY <1>0, <2>2, <2>3, <2>4, <2>5, WriteFits
<1>4. ASSUME NEW p \in Proc, DeleteUser(p) PROVE Goal
  <2>1. target[p] \notin Supers(users)
    BY <1>0, <1>4 DEF DeleteUser, RequestsHoldStaff, HoldsStaff
  <2> QED BY <1>0, <1>4, <2>1, DeleteFits DEF DeleteUser
<1>5. ASSUME NEW row \in SeedRow, NEW step \in BootStep, SeedUser(row, step), boot.step # "up"
      PROVE  Fitting(users') /\ (Supers(users') = Supers(users) \/ NewAdmin)
  <2>1. row \in UserRow
    BY SeedRowsAreRows
  <2>2. RoleFits(row)
    BY OfficeNames, OfficeBounds DEF SeedRow, User, RoleFits, HotelId
  <2>3. CASE users' = Append(users, row)
    <3>1. /\ Fitting(users') /\ Supers(users) \subseteq Supers(users')
      BY <1>0, <2>1, <2>2, <2>3, AppendFits
    <3>2. Supers(users') = Admins'
      BY DEF Supers, Admins
    <3>3. UNCHANGED requests /\ \A p \in Proc : at[p] = "idle"
      BY <1>5 DEF SeedUser, Known, BootInv
    <3> QED BY <1>0, <3>1, <3>2, <3>3 DEF NewAdmin
  <2> QED BY <1>1, <1>5, <2>3 DEF SeedUser
<1>6. ASSUME NEW p \in Proc, StaySave(p) PROVE Goal
  <2> DEFINE row == [copy[p].guest EXCEPT !.active = TRUE]
             u == copy[p].user
  <2>1. copy[p].guest \in UserRow /\ u \in DOMAIN users /\ CopyFits(u, copy[p].guest)
    BY <1>0, <1>6 DEF StaySave, RequestsTypeOK, Fits, Preloads, RequestsHoldStaff, HoldsStaff
  <2>2. /\ row \in UserRow /\ row.key = copy[p].guest.key
        /\ row.role = copy[p].guest.role /\ row.hotel = copy[p].guest.hotel
    BY <2>1 DEF UserRow
  <2>3. RoleFits(row) /\ (row.role = "super_admin" <=> u \in Admins)
    BY <2>1, <2>2 DEF CopyFits, RoleFits
  <2>4. users' = Restored(users, u, row) \/ users' = users
    BY <1>6 DEF StaySave
  <2> HIDE DEF row, u
  <2>5. CASE users' = [users EXCEPT ![u] = row]
    BY <1>0, <2>1, <2>2, <2>3, <2>5, WriteFits
  <2> QED BY <1>1, <2>4, <2>5 DEF Restored
<1> QED BY <1>0, <1>1, <1>2, <1>3, <1>4, <1>5, <1>6, UserSteps DEF UsersAlone, UserRead

-----------------------------------------------------------------------------
(* Tokens and requests. *)

LEMMA TokensGoOnFitting ==
    ASSUME Known, StaffInv, Admins \subseteq Admins', [Next]_vars
    PROVE  TokensFit'
<1>0. tokens \in [Token -> Claims] /\ TokensFit /\ OfficeTypeOK
  BY DEF Known, OfficeTypeOK, SessionsTypeOK, StaffInv
<1> SUFFICES ASSUME NEW t \in Token, tokens'[t].left > 0
             PROVE  /\ tokens'[t].role = "super_admin" => tokens'[t].user \in Admins'
                    /\ tokens'[t].role = "hotel_admin" => tokens'[t].hotel # None
  BY DEF TokensFit
<1>1. CASE tokens' = tokens
  BY <1>0, <1>1 DEF TokensFit
<1>2. CASE TokensAge
  <2>1. CASE tokens[t].left <= 1
    BY <1>2, <2>1 DEF TokensAge, NoToken
  <2>2. CASE ~(tokens[t].left <= 1)
    <3>1. /\ tokens'[t].role = tokens[t].role /\ tokens'[t].user = tokens[t].user
          /\ tokens'[t].hotel = tokens[t].hotel /\ tokens[t].left > 0
      BY <1>0, <1>2, <2>2 DEF TokensAge, Claims
    <3> QED BY <1>0, <3>1 DEF TokensFit
  <2> QED BY <2>1, <2>2
<1>3. ASSUME NEW p \in Proc, NEW s \in Token, LoginIssue(p, s)
      PROVE  /\ tokens'[t].role = "super_admin" => tokens'[t].user \in Admins'
             /\ tokens'[t].role = "hotel_admin" => tokens'[t].hotel # None
  <2>1. CopyFits(target[p], copy[p])
    BY <1>3 DEF LoginIssue, StaffInv, RequestsHoldStaff, HoldsStaff
  <2>2. CASE t = s
    <3>1. /\ tokens'[t].role = copy[p].role /\ tokens'[t].user = target[p]
          /\ tokens'[t].hotel = copy[p].hotel
      BY <1>0, <1>3, <2>2 DEF LoginIssue
    <3> QED BY <2>1, <3>1 DEF CopyFits, RoleFits
  <2>3. CASE t # s
    <3>1. tokens'[t] = tokens[t]
      BY <1>0, <1>3, <2>3 DEF LoginIssue
    <3> QED BY <1>0, <3>1 DEF TokensFit
  <2> QED BY <2>2, <2>3
<1>4. CASE \E s \in Token : Logout(s)
  BY <1>1, <1>4 DEF Logout
<1> QED BY <1>0, <1>1, <1>2, <1>3, <1>4, SessionSteps DEF sessionVars, Hour, RedisGains, RedisLoses

\* The steps of a request after it has begun.
LEMMA ContinuesFitting ==
    ASSUME Known, StaffInv, Admins' = Admins, NEW p \in Proc, Continue(p)
    PROVE  RequestsHoldStaff'
<1>0. /\ OfficeTypeOK /\ RequestsTypeOK /\ RequestsHoldStaff /\ RolesFit
      /\ HoldsStaff(at[p], target[p], copy[p]) /\ Fits(at[p], target[p], copy[p])
  BY DEF Known, OfficeTypeOK, StaffInv, RequestsTypeOK, RequestsHoldStaff
<1>1. ASSUME Answered(p) PROVE RequestsHoldStaff'
  BY <1>0, <1>1, OtherMoves DEF Answered
<1>2. CASE \/ SendCodeSave(p) \/ (\E t \in Token : LoginIssue(p, t)) \/ Fail(p)
          \/ UpdateHotelSave(p) \/ BatchCreateDone(p) \/ CreateUser(p) \/ ToggleStaffSave(p)
          \/ DeleteUser(p) \/ CreateRoomInsert(p) \/ UpdateRoomSave(p) \/ DeleteRoom(p)
          \/ UpdateRoomTypeSave(p) \/ StaySave(p)
  BY <1>1, <1>2 DEF SendCodeSave, LoginIssue, Fail, UpdateHotelSave, BatchCreateDone, CreateUser,
     ToggleStaffSave, DeleteUser, CreateRoomInsert, UpdateRoomSave, DeleteRoom,
     UpdateRoomTypeSave, StaySave
<1>3. CASE VerifyCodeDelete(p)
  <2>1. PICK x, row : Holding(p, "finding", x, row) /\ row = User(x, "guest", None)
    BY <1>3 DEF VerifyCodeDelete, Accept
  <2>2. HoldsStaff("finding", x, row)
    BY <2>1 DEF User, HoldsStaff, RoleFits
  <2> QED BY <1>0, <2>1, <2>2, StaffMoves DEF Step
<1>4. CASE FindByUsername(p)
  <2>1. PICK x, row : /\ Holding(p, "enrolling", x, row)
                      /\ RoleFits(row) /\ row.role # "super_admin"
    BY <1>0, <1>4 DEF FindByUsername, HoldsStaff
  <2>2. HoldsStaff("enrolling", x, row)
    BY <2>1 DEF HoldsStaff
  <2> QED BY <1>0, <2>1, <2>2, StaffMoves DEF Step
<1>5. CASE ToggleStaffRead(p)
  <2>1. PICK x, row : /\ Holding(p, "toggling", x, row)
                      /\ x \in Live(users) /\ row = [users[x] EXCEPT !.active = ~@]
    BY <1>5 DEF ToggleStaffRead
  <2>2. /\ row.key = users[x].key /\ row.role = users[x].role /\ row.hotel = users[x].hotel
        /\ CopyFits(x, users[x])
    BY <1>0, <2>1, Ids, LiveCopyFits DEF UserRow
  <2>3. CopyFits(x, row)
    BY <2>2 DEF CopyFits, RoleFits
  <2>4. HoldsStaff("toggling", x, row)
    BY <2>3 DEF HoldsStaff
  <2> QED BY <1>0, <2>1, <2>4, StaffMoves DEF Step
<1>6. CASE BatchCreateNext(p)
  <2>1. PICK x, row : Holding(p, "batching", x, row)
    BY <1>6 DEF BatchCreateNext
  <2> QED BY <1>0, <2>1, OtherMoves
<1> QED BY <1>2, <1>3, <1>4, <1>5, <1>6 DEF Continue

LEMMA RequestsGoOnFitting ==
    ASSUME Known, StaffInv, Admins' = Admins, [Next]_vars
    PROVE  RequestsHoldStaff'
<1>0. OfficeTypeOK /\ RequestsTypeOK /\ RequestsHoldStaff
  BY DEF Known, OfficeTypeOK, StaffInv
<1>1. ASSUME UNCHANGED requests PROVE RequestsHoldStaff'
  BY <1>0, <1>1, StaffRests
<1>2. ASSUME NEW p \in Proc, Reads(p) PROVE RequestsHoldStaff'
  <2>1. PICK step, x, row : step \in Step /\ StepsTo(p, step, x, row) /\ FreshCopy(step, x, row)
    BY <1>2 DEF Reads
  <2>2. HoldsStaff(step, x, row)
    BY <2>1, FreshStaff
  <2> QED BY <1>0, <2>1, <2>2, StaffMoves DEF StepsTo
<1>3. ASSUME NEW p \in Proc, AccountRequest(p) \/ StayRequest(p) PROVE RequestsHoldStaff'
  BY <1>0, <1>2, <1>3, RequestsRead
<1>4. ASSUME NEW p \in Proc, NEW t \in Token, CatalogueRequest(p, t) PROVE RequestsHoldStaff'
  BY <1>0, <1>1, <1>2, <1>4, CatalogueReads DEF CreateHotel, CreateRoomType, unchangedBut
<1>5. CASE Boot
  BY <1>1, <1>5 DEF Boot, StartUp, SeedAdmin, SeedHotel, SeedManager, SeedClerk, SeedTypes,
                    SeedRoom, SeedRoomsDone, SeedGuest, SeedUser, Skip
<1>6. CASE Outside
  <2>1. CASE ~Stop
    BY <1>1, <1>6, <2>1 DEF Outside, Minute, Hour, RedisGains, RedisLoses, Logout
  <2>2. CASE Stop
    BY <2>2, NobodyHoldsStaff DEF Stop
  <2> QED BY <2>1, <2>2
<1>7. CASE UNCHANGED vars
  BY <1>1, <1>7 DEF vars
<1> QED BY <1>3, <1>4, <1>5, <1>6, <1>7, ContinuesFitting DEF Next

\* The platform's administrator, once there, is there for good: no chain of
\* creating, toggling, deleting and late saves of staff, under whatever names, of
\* order saves, logins, restarts and seeds removes that account or its role, for
\* any number of accounts, tokens and requests.
THEOREM AdminStays == Spec => AdminKept
<1> DEFINE Inv == Known /\ StaffInv
           Kept == Admins # {} => Admins' # {}
<1>1. Init => Inv
  <2> SUFFICES ASSUME Init PROVE StaffInv
    BY InitTypeOK, FirstUsersKeys, FirstBootInv DEF Init, Known
  <2>1. RequestsHoldStaff
    BY DEF Init, OfficeInit, RequestsHoldStaff, HoldsStaff
  <2>2. CASE FirstBoot
    BY <2>1, <2>2 DEF FirstBoot, StaffInv, RolesFit, TokensFit, NoToken, Live
  <2>3. ASSUME NEW untyped \in BOOLEAN, Running(untyped) PROVE StaffInv
    <3>1. /\ Len(users) = 4 /\ DOMAIN users = 1 .. 4
          /\ users[1] = User("admin", "super_admin", None)
          /\ users[2] = User("manager", "hotel_admin", 1)
          /\ users[3] = User("clerk", "front_desk", 1)
          /\ users[4] = User("demo_guest", "guest", None)
      BY <2>3 DEF Running
    <3>2. RolesFit
      BY <3>1, OfficeNames DEF RolesFit, RoleFits, User, Live
    <3>3. 1 \in Admins
      <4>1. users[1] \in UserRow /\ users[1].role = "super_admin"
        BY <3>1 DEF User, UserRow, Name, SeedName, Role
      <4>2. 1 \in Live(users)
        BY <3>1, <4>1, GoneIsNoRow DEF Live
      <4> QED BY <4>1, <4>2 DEF Admins
    <3>4. TokensFit
      BY <2>3, <3>3, OfficeNames DEF Running, TokensFit, NoToken
    <3> QED BY <2>1, <3>2, <3>4 DEF StaffInv
  <2> QED BY <2>2, <2>3, FirstOrRunning DEF Init
<1>2. Inv /\ [Next]_vars => Inv' /\ Kept
  <2> SUFFICES ASSUME Known, StaffInv, [Next]_vars PROVE Known' /\ StaffInv' /\ Kept
    OBVIOUS
  <2>1. Known'
    BY NextTypeOK, UsersStep, BootInvariant DEF Known
  <2>2. Fitting(users') /\ (Admins' = Admins \/ NewAdmin)
    BY UsersGoOnFitting DEF Supers, Admins
  <2>3. RolesFit'
    BY <2>2 DEF Fitting, RolesFit, RoleFits, Live
  <2>4. CASE Admins' = Admins
    BY <2>1, <2>3, <2>4, TokensGoOnFitting, RequestsGoOnFitting DEF StaffInv
  <2>5. CASE NewAdmin
    <3>1. RequestsHoldStaff'
      BY <2>5, NobodyHoldsStaff DEF NewAdmin, requests
    <3> QED BY <2>1, <2>3, <2>5, <3>1, TokensGoOnFitting DEF StaffInv, NewAdmin
  <2> QED BY <2>2, <2>4, <2>5
<1>3. Inv /\ [Next]_vars => [Kept]_vars
  BY <1>2
<1> HIDE DEF Inv
<1> QED BY <1>1, <1>2, <1>3, PTL DEF Spec, AdminKept
=============================================================================
