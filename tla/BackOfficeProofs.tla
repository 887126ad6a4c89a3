--------------------------- MODULE BackOfficeProofs ---------------------------
(***************************************************************************)
(* Proofs about the back office for all accounts, rooms, requests, tokens  *)
(* and deployments: types, tokens that stay refused, and how often a code  *)
(* is sent and used.                                                       *)
(***************************************************************************)
EXTENDS BackOffice, SequenceTheorems, FiniteSetTheorems, TLAPS

\* A request that goes on to its next call and changes nothing else.
StepsTo(p, step, x, row) ==
    Holding(p, step, x, row)
      /\ UNCHANGED <<deployment, tables, smsVars, sessionVars, boot>>

\* What the checks and the reads before a step say of what a request takes to it.
FreshCopy(step, x, row) ==
    /\ step # "toggling" /\ step # "enrolling"
    /\ step = "sending" => codes[x] < CodeLife
    /\ step = "matched" => codes[x] > 0
    /\ step = "updating_room" =>
         /\ x \in Live(rooms) /\ row.key = rooms[x].key
         /\ rooms[x].type \in DOMAIN types => row.type = rooms[x].type
    /\ step = "saving_order" =>
         /\ x \in Live(rooms) /\ row.room = rooms[x]
         /\ row.user \in Live(users) /\ row.guest = users[row.user]
    /\ step = "creating_room" => TypeOfHotel(row.type, row.key[1])
    /\ step = "batching" => TypeOfHotel(row.type, row.hotel)
    /\ step = "updating_type" => row.hotel = types[x].hotel
    /\ step = "logging_in" => x \in Live(users) /\ row = users[x]
    /\ step = "finding" => /\ row.role # "super_admin"
                           /\ row.role = "hotel_admin" => row.hotel # None
    /\ step = "deleting_staff" =>
         \E t \in Token : /\ tokens[t].left > 0
                          /\ tokens[t].role \in {"super_admin", "hotel_admin"}
                          /\ x # tokens[t].user /\ OwnStaff(t, x)

Reads(p) ==
    \E step, x, row :
        step \in Step /\ StepsTo(p, step, x, row) /\ Fits(step, x, row) /\ FreshCopy(step, x, row)

\* The ids in use.
LEMMA Ids ==
    ASSUME OfficeTypeOK
    PROVE  /\ DOMAIN hotels = 1 .. Len(hotels) /\ Len(hotels) \in HotelId
           /\ DOMAIN types = 1 .. Len(types) /\ Len(types) \in TypeId
           /\ DOMAIN users = 1 .. Len(users) /\ DOMAIN rooms = 1 .. Len(rooms)
           /\ DOMAIN hotels \subseteq HotelId /\ DOMAIN types \subseteq TypeId
           /\ \A h \in DOMAIN hotels : hotels[h] \in HotelRow
           /\ \A ty \in DOMAIN types : types[ty] \in TypeRow
           /\ \A u \in Live(users) : u \in DOMAIN users /\ users[u] \in UserRow
           /\ \A r \in Live(rooms) : r \in DOMAIN rooms /\ rooms[r] \in RoomRow
<1>1. /\ hotels \in Seq(HotelRow) /\ types \in Seq(TypeRow)
      /\ Len(hotels) <= MaxHotels /\ Len(types) <= MaxTypes
      /\ users \in Seq(UserRow \cup {Gone}) /\ rooms \in Seq(RoomRow \cup {Gone})
  BY DEF OfficeTypeOK, TablesTypeOK
<1>2. /\ DOMAIN hotels = 1 .. Len(hotels) /\ Len(hotels) \in Nat
      /\ DOMAIN types = 1 .. Len(types) /\ Len(types) \in Nat
      /\ DOMAIN users = 1 .. Len(users) /\ DOMAIN rooms = 1 .. Len(rooms)
  BY <1>1
<1>3. /\ Len(hotels) \in HotelId /\ DOMAIN hotels \subseteq HotelId
      /\ Len(types) \in TypeId /\ DOMAIN types \subseteq TypeId
  BY <1>1, <1>2, OfficeBounds DEF HotelId, TypeId
<1>4. /\ \A h \in DOMAIN hotels : hotels[h] \in HotelRow
      /\ \A ty \in DOMAIN types : types[ty] \in TypeRow
  BY <1>1
<1>5. /\ \A u \in Live(users) : u \in DOMAIN users /\ users[u] \in UserRow
      /\ \A r \in Live(rooms) : r \in DOMAIN rooms /\ rooms[r] \in RoomRow
  BY <1>1 DEF Live
<1> QED BY <1>2, <1>3, <1>4, <1>5

\* Requests start by reading.
LEMMA RequestsRead ==
    ASSUME OfficeTypeOK, NEW p \in Proc, AccountRequest(p) \/ StayRequest(p)
    PROVE  Reads(p)
<1> USE DEF Step, StepsTo, FreshCopy, Reads
<1>1. ASSUME NEW ph \in Phone, SendCodeRead(p, ph) \/ VerifyCodeRead(p, ph)
      PROVE  Reads(p)
  <2>1. codes[ph] <= CodeLife - 1 => codes[ph] < CodeLife
    BY OfficeBounds DEF OfficeTypeOK, SmsTypeOK
  <2> QED BY <1>1, <2>1 DEF SendCodeRead, VerifyCodeRead, Fits
<1>2. ASSUME NEW u \in DOMAIN users, LoginRead(p, u)
      PROVE  Reads(p)
  <2>1. users[u] \in UserRow
    BY <1>2, Ids DEF LoginRead
  <2>2. Fits("logging_in", u, users[u])
    BY <2>1 DEF Fits
  <2> QED BY <1>2, <2>2 DEF LoginRead
<1>3. ASSUME NEW t \in Token, NEW name \in StaffNames, NEW role \in Role,
             NEW h \in DOMAIN hotels, CreateStaff(p, t, name, role, h)
      PROVE  Reads(p)
  <2>1. h \in HotelId /\ name \in Name
    BY Ids, OfficeNames
  <2>2. User(name, role, h) \in UserRow /\ User(name, role, h).key = name
    BY <2>1 DEF User, UserRow
  <2>3. Fits("finding", name, User(name, role, h))
    BY <2>1, <2>2 DEF Fits
  <2>4. FreshCopy("finding", name, User(name, role, h))
    BY <1>3, <2>1, OfficeNames, OfficeBounds DEF CreateStaff, User, HotelId
  <2> QED BY <1>3, <2>3, <2>4 DEF CreateStaff
<1>4. ASSUME NEW t \in Token, NEW u \in Targets \cap DOMAIN users,
             ToggleStaff(p, t, u) \/ DeleteStaff(p, t, u)
      PROVE  Reads(p)
  BY <1>4 DEF ToggleStaff, DeleteStaff, AdminRequest, JWTAuth, Accepted, Fits
<1>5. ASSUME NEW r \in DOMAIN rooms, NEW u \in DOMAIN users, StayRead(p, r, u)
      PROVE  Reads(p)
  <2> DEFINE held == [room |-> rooms[r], user |-> u, guest |-> users[u]]
  <2>1. held \in Preloads
    BY <1>5, Ids DEF StayRead, Preloads
  <2>2. Fits("saving_order", r, held)
    BY <2>1 DEF Fits
  <2>3. FreshCopy("saving_order", r, held)
    BY <1>5 DEF StayRead
  <2> QED BY <1>5, <2>2, <2>3 DEF StayRead, unchangedButRequests
<1> QED BY <1>1, <1>2, <1>3, <1>4, <1>5 DEF AccountRequest, StayRequest

\* So do those of the catalogue, except for two inserts of one call.
LEMMA CatalogueReads ==
    ASSUME OfficeTypeOK, NEW p \in Proc, NEW t \in Token, CatalogueRequest(p, t)
    PROVE  \/ Reads(p)
           \/ \E name \in {"demo", "other"} : CreateHotel(p, t, name)
           \/ \E h \in DOMAIN hotels : CreateRoomType(p, t, h)
<1> USE DEF Step, StepsTo, FreshCopy, Reads, unchangedButRequests
<1>1. ASSUME NEW name \in {"demo", "other"}, NEW h \in DOMAIN hotels,
             UpdateHotelRead(p, t, h, name)
      PROVE  Reads(p)
  <2>1. [hotels[h] EXCEPT !.name = name] \in HotelRow
    BY Ids DEF HotelRow
  <2>2. Fits("updating_hotel", h, [hotels[h] EXCEPT !.name = name])
    BY <2>1 DEF Fits
  <2> QED BY <1>1, <2>2 DEF UpdateHotelRead
<1>2. ASSUME NEW h \in DOMAIN hotels, NEW ty \in DOMAIN types, NEW n \in Number,
             CreateRoomRead(p, t, h, ty, n)
      PROVE  Reads(p)
  <2>1. NewRoom(h, n, ty) \in RoomRow
    BY Ids DEF NewRoom, RoomRow
  <2>2. Fits("creating_room", h, NewRoom(h, n, ty))
    BY <2>1 DEF Fits
  <2>3. FreshCopy("creating_room", h, NewRoom(h, n, ty))
    BY <1>2 DEF CreateRoomRead, NewRoom
  <2> QED BY <1>2, <2>2, <2>3 DEF CreateRoomRead
<1>3. ASSUME NEW h \in DOMAIN hotels, NEW ty \in DOMAIN types,
             NEW numbers \in SUBSET Number, BatchCreateRead(p, t, h, ty, numbers)
      PROVE  Reads(p)
  <2>1. [hotel |-> h, type |-> ty, todo |-> numbers] \in BatchRow
    BY Ids DEF BatchRow
  <2>2. Fits("batching", h, [hotel |-> h, type |-> ty, todo |-> numbers])
    BY <2>1 DEF Fits
  <2>3. FreshCopy("batching", h, [hotel |-> h, type |-> ty, todo |-> numbers])
    BY <1>3 DEF BatchCreateRead
  <2> QED BY <1>3, <2>2, <2>3 DEF BatchCreateRead
<1>4. ASSUME NEW ty \in DOMAIN types, NEW active \in BOOLEAN,
             UpdateRoomTypeRead(p, t, ty, active)
      PROVE  Reads(p)
  <2>1. [types[ty] EXCEPT !.active = active] \in TypeRow
    BY Ids DEF TypeRow
  <2>2. Fits("updating_type", ty, [types[ty] EXCEPT !.active = active])
    BY <2>1 DEF Fits
  <2>3. FreshCopy("updating_type", ty, [types[ty] EXCEPT !.active = active])
    BY Ids DEF TypeRow
  <2> QED BY <1>4, <2>2, <2>3 DEF UpdateRoomTypeRead
<1>5. ASSUME NEW r \in DOMAIN rooms, DeleteRoomRead(p, t, r)
      PROVE  Reads(p)
  BY <1>5 DEF DeleteRoomRead, Fits
<1>6. ASSUME NEW r \in DOMAIN rooms, NEW ty \in TypeId,
             NEW status \in {"available", "occupied", "maintenance"},
             UpdateRoomRead(p, t, r, ty, status)
      PROVE  Reads(p)
  <2>1. rooms[r] \in RoomRow
    BY <1>6, Ids DEF UpdateRoomRead
  <2>2. [WithType(rooms[r], ty) EXCEPT !.status = status] \in RoomRow
    BY <2>1 DEF WithType, RoomRow
  <2>3. Fits("updating_room", r, [WithType(rooms[r], ty) EXCEPT !.status = status])
    BY <2>2 DEF Fits
  <2>4. FreshCopy("updating_room", r, [WithType(rooms[r], ty) EXCEPT !.status = status])
    BY <1>6, <2>1 DEF UpdateRoomRead, WithType, RoomRow
  <2> QED BY <1>6, <2>3, <2>4 DEF UpdateRoomRead
<1> QED BY <1>1, <1>2, <1>3, <1>4, <1>5, <1>6
        DEF CatalogueRequest, HotelRequest, TypeRequest, RoomRequest

-----------------------------------------------------------------------------
(* Types. *)

\* Tables do not shrink.
Grown == /\ DOMAIN users \subseteq DOMAIN users' /\ DOMAIN rooms \subseteq DOMAIN rooms'
         /\ DOMAIN types \subseteq DOMAIN types' /\ DOMAIN hotels \subseteq DOMAIN hotels'

LEMMA PreloadsGrow ==
    ASSUME Grown
    PROVE  Preloads \subseteq Preloads'
BY DEF Grown, Preloads

\* A request that moves on leaves what the others hold alone.
LEMMA MovesOn ==
    ASSUME RequestsTypeOK, NEW p \in Proc, NEW step \in Step, NEW x, NEW row,
           Holding(p, step, x, row), Grown, Fits(step, x, row)
    PROVE  RequestsTypeOK'
<1>1. /\ at' \in [Proc -> Step] /\ DOMAIN target' = Proc /\ DOMAIN copy' = Proc
      /\ at'[p] = step /\ target'[p] = x /\ copy'[p] = row
      /\ \A q \in Proc \ {p} :
           at'[q] = at[q] /\ target'[q] = target[q] /\ copy'[q] = copy[q]
  BY DEF RequestsTypeOK, Holding
<1>2. ASSUME NEW q \in Proc PROVE Fits(at'[q], target'[q], copy'[q])
  <2>1. Fits(at[q], target[q], copy[q])
    BY DEF RequestsTypeOK
  <2> QED BY <1>1, <2>1
<1>3. ASSUME NEW q \in Proc PROVE Fits(at[q], target[q], copy[q])'
  BY <1>2, <1>3, PreloadsGrow DEF Fits, Grown
<1> QED BY <1>1, <1>3 DEF RequestsTypeOK

LEMMA AnsweredKeepsRequests ==
    ASSUME RequestsTypeOK, NEW p \in Proc, Answered(p), Grown
    PROVE  RequestsTypeOK'
<1>1. Fits("idle", None, None) BY DEF Fits
<1> QED BY <1>1, MovesOn DEF Answered, Step

LEMMA OthersKeepRequests ==
    ASSUME RequestsTypeOK, UNCHANGED requests, Grown
    PROVE  RequestsTypeOK'
<1>1. ASSUME NEW q \in Proc PROVE Fits(at[q], target[q], copy[q])'
  <2>1. Fits(at[q], target[q], copy[q])
    BY DEF RequestsTypeOK
  <2> QED BY <2>1, PreloadsGrow DEF Fits, Grown, requests
<1> QED BY <1>1 DEF RequestsTypeOK, requests

\* A table that gets a row, and one whose rows are written over.
LEMMA Grows ==
    ASSUME NEW R, NEW t \in Seq(R), NEW row \in R
    PROVE  /\ Append(t, row) \in Seq(R) /\ Len(Append(t, row)) = Len(t) + 1
           /\ DOMAIN t \subseteq DOMAIN Append(t, row)
           /\ \A i \in DOMAIN t : Append(t, row)[i] = t[i]
           /\ Append(t, row)[Len(t) + 1] = row
           /\ DOMAIN Append(t, row) = DOMAIN t \cup {Len(t) + 1}
  OBVIOUS

LEMMA Overwritten ==
    ASSUME NEW R, NEW t \in Seq(R), NEW i \in DOMAIN t, NEW row \in R
    PROVE  /\ [t EXCEPT ![i] = row] \in Seq(R)
           /\ Len([t EXCEPT ![i] = row]) = Len(t)
           /\ DOMAIN [t EXCEPT ![i] = row] = DOMAIN t
  BY ExceptSeq

LEMMA InsertType ==
    ASSUME NEW R, NEW t \in Seq(R), NEW row \in R, NEW max \in Nat, Len(t) < max
    PROVE  /\ Insert(t, row) \in Seq(R) /\ Len(Insert(t, row)) <= max
           /\ DOMAIN t \subseteq DOMAIN Insert(t, row)
<1>1. /\ Append(t, row) \in Seq(R) /\ Len(Append(t, row)) = Len(t) + 1
      /\ DOMAIN t \subseteq DOMAIN Append(t, row)
  BY Grows
<1>2. Len(t) \in Nat OBVIOUS
<1> QED BY <1>1, <1>2 DEF Insert

LEMMA RestoredType ==
    ASSUME NEW R, NEW t \in Seq(R \cup {Gone}), NEW i \in DOMAIN t, NEW row \in R
    PROVE  /\ Restored(t, i, row) \in Seq(R \cup {Gone})
           /\ Len(Restored(t, i, row)) = Len(t)
           /\ DOMAIN Restored(t, i, row) = DOMAIN t
  BY Overwritten DEF Restored

\* A step that changes nothing but a request, a session or a code.
LEMMA TablesAlone ==
    ASSUME OfficeTypeOK, UNCHANGED <<deployment, tables>>
    PROVE  Grown /\ TablesTypeOK' /\ (deployment \in Deployments)'
<1> QED BY DEF OfficeTypeOK, TablesTypeOK, tables, deployment, Grown

LEMMA StepsToKeepsType ==
    ASSUME OfficeTypeOK, NEW p \in Proc, NEW step \in Step, NEW x, NEW row,
           StepsTo(p, step, x, row), Fits(step, x, row)
    PROVE  OfficeTypeOK'
<1>1. Grown /\ TablesTypeOK' /\ (deployment \in Deployments)'
  BY TablesAlone DEF StepsTo
<1>2. RequestsTypeOK'
  BY <1>1, MovesOn DEF OfficeTypeOK, StepsTo
<1> QED BY <1>1, <1>2 DEF OfficeTypeOK, StepsTo, SmsTypeOK, SessionsTypeOK, BootTypeOK,
                      smsVars, sessionVars

LEMMA ContinueKeepsType ==
    ASSUME OfficeTypeOK, NEW p \in Proc, Continue(p)
    PROVE  OfficeTypeOK'
<1> USE DEF Step
<1>0. /\ TablesTypeOK /\ SmsTypeOK /\ SessionsTypeOK /\ BootTypeOK /\ RequestsTypeOK
      /\ deployment \in Deployments /\ Fits(at[p], target[p], copy[p])
  BY DEF OfficeTypeOK, RequestsTypeOK
<1>1. CASE SendCodeSave(p)
  <2>1. Grown /\ TablesTypeOK' /\ (deployment \in Deployments)'
    BY <1>1, TablesAlone DEF SendCodeSave
  <2>2. RequestsTypeOK'
    BY <1>0, <1>1, <2>1, AnsweredKeepsRequests DEF SendCodeSave
  <2>3. SmsTypeOK'
    <3>1. target[p] \in Phone
      BY <1>0, <1>1 DEF Fits, SendCodeSave
    <3>2. CodeLife \in 0 .. CodeLife
      BY OfficeBounds
    <3>3. codes' \in [Phone -> 0 .. CodeLife]
      BY <1>0, <1>1, <3>2 DEF SendCodeSave, SmsTypeOK
    <3>4. tally[target[p]] \in Tally
      BY <1>0, <3>1 DEF SmsTypeOK
    <3>5. CodeSent(tally[target[p]]) \in Tally
      BY <3>4 DEF Tally, CodeSent
    <3>6. tally' = [tally EXCEPT ![target[p]] = CodeSent(tally[target[p]])]
      BY <1>0, <1>1, <3>1 DEF SendCodeSave, SmsTypeOK
    <3> QED BY <1>0, <3>3, <3>5, <3>6 DEF SmsTypeOK
  <2> QED BY <1>0, <1>1, <2>1, <2>2, <2>3
          DEF SendCodeSave, OfficeTypeOK, SessionsTypeOK, BootTypeOK, sessionVars
<1>2. CASE VerifyCodeDelete(p)
  <2>1. PICK removed \in 0 .. 1, lost \in 0 .. 1 :
          /\ Accept(p, removed, lost)
          /\ codes' \in {codes, [codes EXCEPT ![target[p]] = 0]}
    BY <1>2 DEF VerifyCodeDelete
  <2>2. Grown /\ TablesTypeOK' /\ (deployment \in Deployments)'
    BY <2>1, TablesAlone DEF Accept
  <2>3. target[p] \in Phone
    BY <1>0, <1>2 DEF Fits, VerifyCodeDelete
  <2>4. RequestsTypeOK'
    <3>1. /\ User(target[p], "guest", None) \in UserRow /\ target[p] \in Name
          /\ User(target[p], "guest", None).key = target[p]
      BY <2>3 DEF User, UserRow, Role, Name
    <3>2. Fits("finding", target[p], User(target[p], "guest", None))
      BY <3>1 DEF Fits
    <3> QED BY <1>0, <2>1, <2>2, <3>2, MovesOn DEF Accept
  <2>5. SmsTypeOK'
    <3>0. 0 \in 0 .. CodeLife
      BY OfficeBounds
    <3>1. codes' \in [Phone -> 0 .. CodeLife]
      BY <1>0, <2>1, <3>0 DEF SmsTypeOK
    <3>2. tally[target[p]] \in Tally
      BY <1>0, <2>3 DEF SmsTypeOK
    <3>3. CodeUsed(tally[target[p]], removed, lost) \in Tally
      BY <3>2 DEF Tally, CodeUsed
    <3>4. tally' = [tally EXCEPT ![target[p]] = CodeUsed(tally[target[p]], removed, lost)]
      BY <1>0, <2>1, <2>3 DEF Accept, SmsTypeOK
    <3> QED BY <1>0, <3>1, <3>3, <3>4 DEF SmsTypeOK
  <2> QED BY <1>0, <2>1, <2>2, <2>4, <2>5
          DEF Accept, OfficeTypeOK, SessionsTypeOK, BootTypeOK, sessionVars
<1>3. CASE FindByUsername(p)
  <2>1. Fits("enrolling", target[p], copy[p])
    BY <1>0, <1>3 DEF Fits, FindByUsername
  <2> QED BY <1>3, <2>1, StepsToKeepsType DEF FindByUsername, StepsTo
<1>5. ASSUME NEW t \in Token, LoginIssue(p, t) PROVE OfficeTypeOK'
  <2>1. Grown /\ TablesTypeOK' /\ (deployment \in Deployments)'
    BY <1>5, TablesAlone DEF LoginIssue
  <2>2. RequestsTypeOK'
    BY <1>0, <1>5, <2>1, AnsweredKeepsRequests DEF LoginIssue
  <2>3. target[p] \in Nat /\ copy[p] \in UserRow
    BY <1>0, <1>5, Ids DEF Fits, LoginIssue
  <2>4. [user |-> target[p], role |-> copy[p].role, hotel |-> copy[p].hotel,
         left |-> TokenLife] \in Claims
    BY <2>3, OfficeBounds DEF Claims, UserRow
  <2>5. SessionsTypeOK'
    BY <1>0, <1>5, <2>4 DEF LoginIssue, SessionsTypeOK
  <2> QED BY <1>0, <1>5, <2>1, <2>2, <2>5
          DEF LoginIssue, OfficeTypeOK, SmsTypeOK, BootTypeOK, smsVars
<1>6. CASE ToggleStaffRead(p)
  <2>1. target[p] \in DOMAIN users /\ users[target[p]] \in UserRow
    BY <1>6, Ids DEF ToggleStaffRead
  <2>2. [users[target[p]] EXCEPT !.active = ~@] \in UserRow
    BY <2>1 DEF UserRow
  <2>3. Fits("toggling", target[p], [users[target[p]] EXCEPT !.active = ~@])
    BY <2>1, <2>2 DEF Fits
  <2> QED BY <1>6, <2>3, StepsToKeepsType DEF ToggleStaffRead, StepsTo
<1>7. ASSUME TablesTypeOK', Grown, Answered(p),
             UNCHANGED <<deployment, smsVars, sessionVars, boot>>
      PROVE  OfficeTypeOK'
  <2>1. RequestsTypeOK'
    BY <1>0, <1>7, AnsweredKeepsRequests
  <2> QED BY <1>0, <1>7, <2>1
          DEF OfficeTypeOK, SmsTypeOK, SessionsTypeOK, BootTypeOK,
              smsVars, sessionVars, deployment
<1>8. ASSUME NEW S, NEW t \in Seq(S \cup {Gone})
      PROVE  t \in Seq(S \cup {Gone}) /\ Gone \in S \cup {Gone} /\ Len(t) \in Nat
  OBVIOUS
<1>9. CASE CreateUser(p)
  <2>1. copy[p] \in UserRow \cup {Gone} /\ users \in Seq(UserRow \cup {Gone})
    BY <1>0, <1>9 DEF CreateUser, Fits, TablesTypeOK
  <2>2. /\ users' \in Seq(UserRow \cup {Gone}) /\ Len(users') <= MaxUsers
        /\ DOMAIN users \subseteq DOMAIN users'
    BY <1>9, <2>1, InsertType, OfficeBounds DEF CreateUser
  <2>3. Grown /\ TablesTypeOK'
    BY <1>0, <1>9, <2>2 DEF CreateUser, TablesTypeOK, Grown
  <2> QED BY <1>7, <1>9, <2>3 DEF CreateUser
<1>10. CASE ToggleStaffSave(p)
  <2>1. /\ copy[p] \in UserRow /\ users \in Seq(UserRow \cup {Gone})
        /\ target[p] \in DOMAIN users
    BY <1>0, <1>10 DEF ToggleStaffSave, Fits, TablesTypeOK
  <2>2. [copy[p] EXCEPT !.active = TRUE] \in UserRow
    BY <2>1 DEF UserRow
  <2>3. PICK u \in DOMAIN users, row \in UserRow \cup {Gone} :
          users' = [users EXCEPT ![u] = row]
    BY <1>10, <2>1, <2>2 DEF ToggleStaffSave, Landing, Rivals, Live
  <2>4. /\ users' \in Seq(UserRow \cup {Gone}) /\ Len(users') = Len(users)
        /\ DOMAIN users' = DOMAIN users
    BY <2>1, <2>3, Overwritten
  <2>5. Grown /\ TablesTypeOK'
    BY <1>0, <1>10, <2>4 DEF ToggleStaffSave, TablesTypeOK, Grown
  <2> QED BY <1>7, <1>10, <2>5 DEF ToggleStaffSave
<1>11. CASE DeleteUser(p)
  <2>1. users \in Seq(UserRow \cup {Gone}) /\ target[p] \in DOMAIN users
    BY <1>0, <1>11 DEF DeleteUser, Fits, TablesTypeOK
  <2>2. /\ users' \in Seq(UserRow \cup {Gone}) /\ Len(users') = Len(users)
        /\ DOMAIN users' = DOMAIN users
    BY <1>8, <1>11, <2>1, Overwritten DEF DeleteUser, Delete
  <2>3. Grown /\ TablesTypeOK'
    BY <1>0, <1>11, <2>2 DEF DeleteUser, TablesTypeOK, Grown
  <2> QED BY <1>7, <1>11, <2>3 DEF DeleteUser
<1>12. CASE UpdateHotelSave(p)
  <2>1. copy[p] \in HotelRow /\ hotels \in Seq(HotelRow) /\ target[p] \in DOMAIN hotels
    BY <1>0, <1>12 DEF UpdateHotelSave, Fits, TablesTypeOK
  <2>2. /\ hotels' \in Seq(HotelRow) /\ Len(hotels') = Len(hotels)
        /\ DOMAIN hotels' = DOMAIN hotels
    BY <1>12, <2>1, Overwritten DEF UpdateHotelSave
  <2>3. Grown /\ TablesTypeOK'
    BY <1>0, <1>12, <2>2 DEF UpdateHotelSave, TablesTypeOK, Grown, unchangedBut
  <2> QED BY <1>7, <1>12, <2>3 DEF UpdateHotelSave, unchangedBut
<1>13. CASE UpdateRoomTypeSave(p)
  <2>1. copy[p] \in TypeRow /\ types \in Seq(TypeRow) /\ target[p] \in DOMAIN types
    BY <1>0, <1>13 DEF UpdateRoomTypeSave, Fits, TablesTypeOK
  <2>2. /\ types' \in Seq(TypeRow) /\ Len(types') = Len(types)
        /\ DOMAIN types' = DOMAIN types
    BY <1>13, <2>1, Overwritten DEF UpdateRoomTypeSave
  <2>3. Grown /\ TablesTypeOK'
    BY <1>0, <1>13, <2>2 DEF UpdateRoomTypeSave, TablesTypeOK, Grown, unchangedBut
  <2> QED BY <1>7, <1>13, <2>3 DEF UpdateRoomTypeSave, unchangedBut
<1>14. CASE CreateRoomInsert(p)
  <2>1. copy[p] \in RoomRow \cup {Gone} /\ rooms \in Seq(RoomRow \cup {Gone})
    BY <1>0, <1>14 DEF CreateRoomInsert, Fits, TablesTypeOK
  <2>2. /\ rooms' \in Seq(RoomRow \cup {Gone}) /\ Len(rooms') <= MaxRooms
        /\ DOMAIN rooms \subseteq DOMAIN rooms'
    BY <1>14, <2>1, InsertType, OfficeBounds DEF CreateRoomInsert
  <2>3. Grown /\ TablesTypeOK'
    BY <1>0, <1>14, <2>2 DEF CreateRoomInsert, TablesTypeOK, Grown, unchangedBut
  <2> QED BY <1>7, <1>14, <2>3 DEF CreateRoomInsert, unchangedBut
<1>15. CASE BatchCreateNext(p)
  <2>1. copy[p] \in BatchRow /\ rooms \in Seq(RoomRow \cup {Gone}) /\ Len(rooms) <= MaxRooms
    BY <1>0, <1>15 DEF BatchCreateNext, Fits, TablesTypeOK
  <2>2. PICK n \in copy[p].todo :
          /\ \/ /\ Len(rooms) < MaxRooms
                /\ rooms' = Insert(rooms, NewRoom(copy[p].hotel, n, copy[p].type))
             \/ UNCHANGED rooms
          /\ Holding(p, "batching", target[p], [copy[p] EXCEPT !.todo = @ \ {n}])
    BY <1>15 DEF BatchCreateNext
  <2>3. NewRoom(copy[p].hotel, n, copy[p].type) \in RoomRow \cup {Gone}
    BY <2>1 DEF BatchRow, RoomRow, NewRoom
  <2>4. /\ rooms' \in Seq(RoomRow \cup {Gone}) /\ Len(rooms') <= MaxRooms
        /\ DOMAIN rooms \subseteq DOMAIN rooms'
    <3> DEFINE row == NewRoom(copy[p].hotel, n, copy[p].type)
    <3> HIDE DEF row
    <3>1. row \in RoomRow \cup {Gone} /\ MaxRooms \in Nat
      BY <2>3, OfficeBounds DEF row
    <3>2. CASE Len(rooms) < MaxRooms /\ rooms' = Insert(rooms, row)
      BY <2>1, <3>1, <3>2, InsertType
    <3>3. CASE UNCHANGED rooms
      BY <2>1, <3>3
    <3> QED BY <2>2, <3>2, <3>3 DEF row
  <2>5. Grown /\ TablesTypeOK'
    BY <1>0, <1>15, <2>4 DEF BatchCreateNext, TablesTypeOK, Grown, unchangedBut
  <2>6. [copy[p] EXCEPT !.todo = @ \ {n}] \in BatchRow
    BY <2>1 DEF BatchRow
  <2>8. Fits("batching", target[p], [copy[p] EXCEPT !.todo = @ \ {n}])
    BY <2>6 DEF Fits
  <2>9. RequestsTypeOK'
    BY <1>0, <2>2, <2>5, <2>8, MovesOn
  <2> QED BY <1>0, <1>15, <2>5, <2>9
          DEF BatchCreateNext, OfficeTypeOK, SmsTypeOK, SessionsTypeOK, BootTypeOK,
              smsVars, sessionVars, deployment, unchangedBut
<1>16. CASE BatchCreateDone(p)
  <2>1. Grown /\ TablesTypeOK'
    BY <1>16, TablesAlone DEF BatchCreateDone, unchangedButRequests
  <2> QED BY <1>7, <1>16, <2>1 DEF BatchCreateDone, unchangedButRequests
<1>17. CASE UpdateRoomSave(p)
  <2>1. /\ copy[p] \in RoomRow \cup {Gone} /\ rooms \in Seq(RoomRow \cup {Gone})
        /\ target[p] \in DOMAIN rooms
    BY <1>0, <1>17 DEF UpdateRoomSave, Fits, TablesTypeOK
  <2>2. PICK r \in DOMAIN rooms : rooms' = [rooms EXCEPT ![r] = copy[p]]
    BY <1>17, <2>1 DEF UpdateRoomSave, Landing, Rivals, Live
  <2>3. /\ rooms' \in Seq(RoomRow \cup {Gone}) /\ Len(rooms') = Len(rooms)
        /\ DOMAIN rooms' = DOMAIN rooms
    BY <2>1, <2>2, Overwritten
  <2>4. Grown /\ TablesTypeOK'
    BY <1>0, <1>17, <2>3 DEF UpdateRoomSave, TablesTypeOK, Grown, unchangedBut
  <2> QED BY <1>7, <1>17, <2>4 DEF UpdateRoomSave, unchangedBut
<1>18. CASE DeleteRoom(p)
  <2>1. rooms \in Seq(RoomRow \cup {Gone}) /\ target[p] \in DOMAIN rooms
    BY <1>0, <1>18 DEF DeleteRoom, Fits, TablesTypeOK
  <2>2. /\ rooms' \in Seq(RoomRow \cup {Gone}) /\ Len(rooms') = Len(rooms)
        /\ DOMAIN rooms' = DOMAIN rooms
    BY <1>8, <1>18, <2>1, Overwritten DEF DeleteRoom, Delete
  <2>3. Grown /\ TablesTypeOK'
    BY <1>0, <1>18, <2>2 DEF DeleteRoom, TablesTypeOK, Grown, unchangedBut
  <2> QED BY <1>7, <1>18, <2>3 DEF DeleteRoom, unchangedBut
<1>19. CASE Fail(p)
  <2>1. Grown /\ TablesTypeOK'
    BY <1>19, TablesAlone DEF Fail
  <2> QED BY <1>7, <1>19, <2>1 DEF Fail
<1>20. CASE StaySave(p)
  <2>1. /\ copy[p] \in Preloads /\ target[p] \in DOMAIN rooms
        /\ rooms \in Seq(RoomRow \cup {Gone}) /\ users \in Seq(UserRow \cup {Gone})
    BY <1>0, <1>20 DEF StaySave, Fits, TablesTypeOK
  <2>2. /\ copy[p].room \in RoomRow /\ copy[p].user \in DOMAIN users
        /\ [copy[p].guest EXCEPT !.active = TRUE] \in UserRow
    BY <2>1 DEF Preloads, UserRow
  <2>3. /\ rooms' \in Seq(RoomRow \cup {Gone}) /\ Len(rooms') = Len(rooms)
        /\ DOMAIN rooms' = DOMAIN rooms
    <3>1. ASSUME target[p] \in Live(rooms), NEW status \in {"available", "occupied"},
                 rooms' = [rooms EXCEPT ![target[p]].status = status]
          PROVE  \E row \in RoomRow \cup {Gone} : rooms' = [rooms EXCEPT ![target[p]] = row]
      <4>1. [rooms[target[p]] EXCEPT !.status = status] \in RoomRow
        BY <3>1, Ids DEF RoomRow
      <4> QED BY <3>1, <4>1
    <3>2. CASE \E row \in RoomRow \cup {Gone} : rooms' = [rooms EXCEPT ![target[p]] = row]
      BY <2>1, <3>2, Overwritten
    <3>3. CASE rooms' = Restored(rooms, target[p], copy[p].room)
      BY <2>1, <2>2, <3>3, RestoredType
    <3>4. CASE UNCHANGED rooms
      BY <2>1, <3>4
    <3> QED BY <1>20, <3>1, <3>2, <3>3, <3>4 DEF StaySave
  <2>4. /\ users' \in Seq(UserRow \cup {Gone}) /\ Len(users') = Len(users)
        /\ DOMAIN users' = DOMAIN users
    <3> DEFINE u == copy[p].user
               row == [copy[p].guest EXCEPT !.active = TRUE]
    <3>1. u \in DOMAIN users /\ row \in UserRow /\ users \in Seq(UserRow \cup {Gone})
      BY <2>1, <2>2
    <3>2. users' = Restored(users, u, row) \/ users' = users
      BY <1>20 DEF StaySave
    <3> HIDE DEF u, row
    <3> QED BY <3>1, <3>2, RestoredType
  <2>5. Grown /\ TablesTypeOK'
    BY <1>0, <1>20, <2>3, <2>4 DEF StaySave, TablesTypeOK, Grown
  <2> QED BY <1>7, <1>20, <2>5 DEF StaySave
<1> QED BY <1>1, <1>2, <1>3, <1>5, <1>6, <1>9, <1>10, <1>11, <1>12, <1>13, <1>14, <1>15,
           <1>16, <1>17, <1>18, <1>19, <1>20 DEF Continue

\* The inserts of one call.
LEMMA CatalogueKeepsType ==
    ASSUME OfficeTypeOK,
           \/ \E p \in Proc, t \in Token, name \in {"demo", "other"} : CreateHotel(p, t, name)
           \/ \E p \in Proc, t \in Token, h \in DOMAIN hotels : CreateRoomType(p, t, h)
    PROVE  OfficeTypeOK'
<1>0. /\ TablesTypeOK /\ SmsTypeOK /\ SessionsTypeOK /\ BootTypeOK /\ RequestsTypeOK
      /\ deployment \in Deployments
  BY DEF OfficeTypeOK
<1>1. ASSUME TablesTypeOK', Grown, UNCHANGED <<deployment, smsVars, sessionVars, boot, requests>>
      PROVE  OfficeTypeOK'
  BY <1>0, <1>1, OthersKeepRequests
     DEF OfficeTypeOK, SmsTypeOK, SessionsTypeOK, BootTypeOK, smsVars, sessionVars, deployment
<1>2. ASSUME NEW p \in Proc, NEW t \in Token, NEW name \in {"demo", "other"},
             CreateHotel(p, t, name)
      PROVE  OfficeTypeOK'
  <2>1. hotels \in Seq(HotelRow) /\ [name |-> name] \in HotelRow
    BY <1>0 DEF TablesTypeOK, HotelRow
  <2>2. /\ hotels' \in Seq(HotelRow) /\ Len(hotels') = Len(hotels) + 1
        /\ DOMAIN hotels \subseteq DOMAIN hotels' /\ Len(hotels) \in Nat
    BY <1>2, <2>1, Grows DEF CreateHotel
  <2>3. Grown /\ TablesTypeOK'
    BY <1>0, <1>2, <2>2, OfficeBounds DEF CreateHotel, TablesTypeOK, Grown, unchangedBut
  <2> QED BY <1>1, <1>2, <2>3 DEF CreateHotel, unchangedBut
<1>3. ASSUME NEW p \in Proc, NEW t \in Token, NEW h \in DOMAIN hotels, CreateRoomType(p, t, h)
      PROVE  OfficeTypeOK'
  <2>1. types \in Seq(TypeRow) /\ [hotel |-> h, active |-> TRUE] \in TypeRow
    BY <1>0, Ids DEF TablesTypeOK, TypeRow
  <2>2. /\ types' \in Seq(TypeRow) /\ Len(types') = Len(types) + 1
        /\ DOMAIN types \subseteq DOMAIN types' /\ Len(types) \in Nat
    BY <1>3, <2>1, Grows DEF CreateRoomType
  <2>3. Grown /\ TablesTypeOK'
    BY <1>0, <1>3, <2>2, OfficeBounds DEF CreateRoomType, TablesTypeOK, Grown, unchangedBut
  <2> QED BY <1>1, <1>3, <2>3 DEF CreateRoomType, unchangedBut
<1> QED BY <1>2, <1>3

\* Logging out and the clocks.
LEMMA TimeKeepsType ==
    ASSUME OfficeTypeOK, Minute \/ Hour \/ RedisGains \/ RedisLoses \/ \E t \in Token : Logout(t)
    PROVE  OfficeTypeOK'
<1>0. SmsTypeOK /\ SessionsTypeOK /\ BootTypeOK /\ RequestsTypeOK
  BY DEF OfficeTypeOK
<1>1. UNCHANGED <<deployment, tables, boot, requests>>
  BY DEF Minute, Hour, RedisGains, RedisLoses, Logout
<1>2. Grown /\ TablesTypeOK' /\ (deployment \in Deployments)' /\ RequestsTypeOK' /\ BootTypeOK'
  <2>1. Grown /\ TablesTypeOK' /\ (deployment \in Deployments)'
    BY <1>1, TablesAlone
  <2> QED BY <1>0, <1>1, <2>1, OthersKeepRequests DEF BootTypeOK
<1>3. SmsTypeOK'
  <2>1. CASE Minute
    <3>1. ASSUME NEW ph \in Phone
          PROVE  /\ (IF codes[ph] = 0 THEN 0 ELSE codes[ph] - 1) \in 0 .. CodeLife
                 /\ MinuteOver(tally[ph]) \in Tally
      BY <1>0, OfficeBounds DEF SmsTypeOK, Tally, MinuteOver
    <3> QED BY <2>1, <3>1 DEF Minute, SmsTypeOK
  <2> QED BY <1>0, <2>1 DEF Hour, RedisGains, RedisLoses, Logout, SmsTypeOK, smsVars
<1>4. SessionsTypeOK'
  <2>1. ASSUME TokensAge PROVE tokens' \in [Token -> Claims]
    <3>1. NoToken \in Claims
      BY OfficeBounds DEF NoToken, Claims, Role
    <3>2. ASSUME NEW t \in Token
          PROVE  (IF tokens[t].left <= 1 THEN NoToken
                  ELSE [tokens[t] EXCEPT !.left = @ - 1]) \in Claims
      <4>1. tokens[t] \in Claims
        BY <1>0 DEF SessionsTypeOK
      <4>2. tokens[t].left > 1 => tokens[t].left - 1 \in 0 .. TokenLife
        BY <4>1, OfficeBounds DEF Claims
      <4>3. tokens[t].left > 1 => [tokens[t] EXCEPT !.left = tokens[t].left - 1] \in Claims
        BY <4>1, <4>2 DEF Claims
      <4>4. tokens[t].left <= 1 \/ tokens[t].left > 1
        BY <4>1, OfficeBounds DEF Claims
      <4> QED BY <3>1, <4>3, <4>4
    <3> QED BY <2>1, <3>2 DEF TokensAge
  <2>2. ASSUME EntriesAge PROVE black' \in [Token -> 0 .. TokenLife]
    <3>1. ASSUME NEW t \in Token
          PROVE  (IF black[t] = 0 THEN 0 ELSE black[t] - 1) \in 0 .. TokenLife
      BY <1>0, OfficeBounds DEF SessionsTypeOK
    <3> QED BY <2>2, <3>1 DEF EntriesAge
  <2>3. /\ tokens \in [Token -> Claims] /\ black \in [Token -> 0 .. TokenLife]
        /\ lead \in 0 .. MaxDrift /\ MaxDrift \in Nat
    BY <1>0, OfficeBounds DEF SessionsTypeOK
  <2>4. CASE Hour
    BY <2>1, <2>2, <2>3, <2>4 DEF Hour, SessionsTypeOK
  <2>5. CASE RedisGains
    BY <2>2, <2>3, <2>5 DEF RedisGains, SessionsTypeOK
  <2>6. CASE RedisLoses
    BY <2>1, <2>3, <2>6 DEF RedisLoses, SessionsTypeOK
  <2>7. CASE Minute
    BY <2>3, <2>7 DEF Minute, SessionsTypeOK, sessionVars
  <2>8. ASSUME NEW t \in Token, Logout(t) PROVE SessionsTypeOK'
    <3>1. TokenLife \in 0 .. TokenLife
      BY OfficeBounds
    <3> QED BY <2>3, <2>8, <3>1 DEF Logout, SessionsTypeOK
  <2> QED BY <2>4, <2>5, <2>6, <2>7, <2>8
<1> QED BY <1>2, <1>3, <1>4 DEF OfficeTypeOK

\* The seed: every row it writes is a good one.
LEMMA SeedUserKeepsType ==
    ASSUME OfficeTypeOK, NEW row \in UserRow, NEW step \in BootStep, SeedUser(row, step)
    PROVE  OfficeTypeOK'
<1>0. /\ TablesTypeOK /\ SmsTypeOK /\ SessionsTypeOK /\ BootTypeOK /\ RequestsTypeOK
      /\ deployment \in Deployments /\ users \in Seq(UserRow \cup {Gone})
  BY DEF OfficeTypeOK, TablesTypeOK
<1>1. BootTypeOK'
  BY <1>0 DEF SeedUser, Proceed, FailAndProceed, BootTypeOK
<1>2. /\ users' \in Seq(UserRow \cup {Gone}) /\ Len(users') <= MaxUsers
      /\ DOMAIN users \subseteq DOMAIN users'
  <2>1. CASE Len(users) < MaxUsers /\ users' = Append(users, row)
    BY <1>0, <2>1, Grows, OfficeBounds
  <2>2. CASE UNCHANGED users
    BY <1>0, <2>2 DEF TablesTypeOK
  <2> QED BY <2>1, <2>2 DEF SeedUser
<1>3. Grown /\ TablesTypeOK'
  BY <1>0, <1>2 DEF SeedUser, TablesTypeOK, Grown
<1>4. RequestsTypeOK'
  BY <1>0, <1>3, OthersKeepRequests DEF SeedUser
<1> QED BY <1>0, <1>1, <1>3, <1>4
        DEF SeedUser, OfficeTypeOK, SmsTypeOK, SessionsTypeOK, smsVars, sessionVars, deployment

LEMMA BootKeepsType ==
    ASSUME OfficeTypeOK, Boot
    PROVE  OfficeTypeOK'
<1>0. /\ TablesTypeOK /\ SmsTypeOK /\ SessionsTypeOK /\ BootTypeOK /\ RequestsTypeOK
      /\ deployment \in Deployments
  BY DEF OfficeTypeOK
<1>1. ASSUME TablesTypeOK', Grown, BootTypeOK',
             UNCHANGED <<deployment, smsVars, sessionVars, requests>>
      PROVE  OfficeTypeOK'
  BY <1>0, <1>1, OthersKeepRequests
     DEF OfficeTypeOK, SmsTypeOK, SessionsTypeOK, smsVars, sessionVars, deployment
<1>2. ASSUME NEW role \in Role, NEW h \in HotelId \cup {None}, NEW name \in SeedName
      PROVE  User(name, role, h) \in UserRow
  BY DEF User, UserRow, Name
<1>3. None \in HotelId \cup {None} /\ boot.hotel \in HotelId \cup {None}
  BY <1>0 DEF BootTypeOK
<1>4. ASSUME UNCHANGED <<deployment, tables, smsVars, sessionVars, requests>>, BootTypeOK'
      PROVE  OfficeTypeOK'
  BY <1>1, <1>4, TablesAlone
<1>5. ASSUME NEW step \in BootStep, Skip(step) \/ FailAndProceed(step)
      PROVE  BootTypeOK'
  BY <1>0, <1>5 DEF Skip, Proceed, FailAndProceed, BootTypeOK
<1>6. CASE StartUp
  <2>1. boot.starts \in 0 .. MaxStarts /\ boot.starts < MaxStarts
    BY <1>0, <1>6 DEF BootTypeOK, StartUp
  <2>2. boot.starts + 1 \in 0 .. MaxStarts
    BY <2>1, OfficeBounds
  <2>3. boot' = [boot EXCEPT !.step = "admin", !.starts = boot.starts + 1]
    BY <1>6 DEF StartUp
  <2>4. BootTypeOK'
    BY <1>0, <2>2, <2>3 DEF BootTypeOK, BootStep
  <2> QED BY <1>4, <1>6, <2>4 DEF StartUp
<1>7. CASE SeedAdmin
  <2>1. CASE Skip("hotel")
    BY <1>4, <1>5, <2>1 DEF Skip, BootStep
  <2> QED BY <1>2, <1>3, <1>7, <2>1, SeedUserKeepsType DEF SeedAdmin, BootStep, Role, SeedName
<1>8. CASE SeedHotel
  <2>1. CASE Skip("guest")
    BY <1>4, <1>5, <2>1 DEF Skip, BootStep
  <2>2. CASE /\ FailAndProceed("manager")
             /\ UNCHANGED <<deployment, tables, smsVars, sessionVars, requests>>
    BY <1>4, <1>5, <2>2 DEF BootStep
  <2>3. CASE /\ Len(hotels) < MaxHotels
             /\ hotels' = Append(hotels, [name |-> "demo"])
             /\ boot' = [boot EXCEPT !.step = "manager", !.hotel = Len(hotels) + 1,
                                     !.failed = @ \/ DemoHotels # {}]
             /\ UNCHANGED <<deployment, users, types, rooms, smsVars, sessionVars, requests>>
    <3>1. hotels \in Seq(HotelRow) /\ [name |-> "demo"] \in HotelRow
      BY <1>0 DEF TablesTypeOK, HotelRow
    <3>2. /\ hotels' \in Seq(HotelRow) /\ Len(hotels') = Len(hotels) + 1
          /\ DOMAIN hotels \subseteq DOMAIN hotels' /\ Len(hotels) \in Nat
      BY <2>3, <3>1, Grows
    <3>3. Grown /\ TablesTypeOK'
      BY <1>0, <2>3, <3>2, OfficeBounds DEF TablesTypeOK, Grown
    <3>4. Len(hotels) + 1 \in HotelId
      BY <2>3, <3>2, OfficeBounds DEF HotelId
    <3>5. (boot.failed \/ DemoHotels # {}) \in BOOLEAN
      OBVIOUS
    <3>6. BootTypeOK'
      BY <1>0, <2>3, <3>4, <3>5 DEF BootTypeOK, BootStep
    <3> QED BY <1>1, <2>3, <3>3, <3>6
  <2> QED BY <1>8, <2>1, <2>2, <2>3 DEF SeedHotel
<1>9. CASE SeedManager
  BY <1>2, <1>3, <1>9, SeedUserKeepsType DEF SeedManager, BootStep, Role, SeedName
<1>10. CASE SeedClerk
  BY <1>2, <1>3, <1>10, SeedUserKeepsType DEF SeedClerk, BootStep, Role, SeedName
<1>11. CASE SeedTypes
  <2>1. CASE UNCHANGED types /\ FailAndProceed("rooms")
    BY <1>4, <1>5, <1>11, <2>1 DEF SeedTypes, BootStep, tables
  <2>2. CASE /\ Len(types) < MaxTypes
             /\ types' = Append(types, [hotel |-> boot.hotel, active |-> TRUE])
             /\ boot' = [boot EXCEPT !.step = "rooms", !.type = Len(types) + 1]
    <3>1. types \in Seq(TypeRow) /\ [hotel |-> boot.hotel, active |-> TRUE] \in TypeRow
      BY <1>0 DEF TablesTypeOK, TypeRow, BootTypeOK
    <3>2. /\ types' \in Seq(TypeRow) /\ Len(types') = Len(types) + 1
          /\ DOMAIN types \subseteq DOMAIN types' /\ Len(types) \in Nat
      BY <2>2, <3>1, Grows
    <3>3. Grown /\ TablesTypeOK'
      BY <1>0, <1>11, <2>2, <3>2, OfficeBounds DEF SeedTypes, TablesTypeOK, Grown
    <3>4. Len(types) + 1 \in TypeId
      BY <2>2, <3>2, OfficeBounds DEF TypeId
    <3>5. BootTypeOK'
      BY <1>0, <2>2, <3>4 DEF BootTypeOK, BootStep
    <3> QED BY <1>1, <1>11, <3>3, <3>5 DEF SeedTypes
  <2> QED BY <1>11, <2>1, <2>2 DEF SeedTypes
<1>12. ASSUME NEW n \in Number, SeedRoom(n) PROVE OfficeTypeOK'
  <2>1. /\ rooms \in Seq(RoomRow \cup {Gone})
        /\ NewRoom(boot.hotel, n, boot.type) \in RoomRow \cup {Gone}
    BY <1>0 DEF TablesTypeOK, RoomRow, NewRoom, BootTypeOK
  <2>2. /\ rooms' \in Seq(RoomRow \cup {Gone}) /\ Len(rooms') = Len(rooms) + 1
        /\ DOMAIN rooms \subseteq DOMAIN rooms' /\ Len(rooms) \in Nat
    BY <1>12, <2>1, Grows DEF SeedRoom
  <2>3. Grown /\ TablesTypeOK'
    BY <1>0, <1>12, <2>2, OfficeBounds DEF SeedRoom, TablesTypeOK, Grown
  <2>4. BootTypeOK'
    <3>1. (boot.untyped \/ boot.type = 0) \in BOOLEAN
      OBVIOUS
    <3> QED BY <1>0, <1>12, <3>1 DEF SeedRoom, BootTypeOK
  <2> QED BY <1>1, <1>12, <2>3, <2>4 DEF SeedRoom
<1>13. CASE SeedRoomsDone
  BY <1>0, <1>4, <1>13 DEF SeedRoomsDone, Proceed, FailAndProceed, BootTypeOK, BootStep
<1>14. CASE SeedGuest
  <2>1. CASE Skip("up")
    BY <1>4, <1>5, <2>1 DEF Skip, BootStep
  <2> QED BY <1>2, <1>3, <1>14, <2>1, SeedUserKeepsType DEF SeedGuest, BootStep, Role, SeedName
<1> QED BY <1>6, <1>7, <1>8, <1>9, <1>10, <1>11, <1>12, <1>13, <1>14 DEF Boot

LEMMA StopKeepsType ==
    ASSUME OfficeTypeOK, Stop
    PROVE  OfficeTypeOK'
<1>0. /\ TablesTypeOK /\ SmsTypeOK /\ SessionsTypeOK /\ BootTypeOK /\ RequestsTypeOK
      /\ deployment \in Deployments
  BY DEF OfficeTypeOK
<1>1. TablesTypeOK' /\ (deployment \in Deployments)' /\ SessionsTypeOK'
  BY <1>0, TablesAlone DEF Stop, SessionsTypeOK, sessionVars
<1>2. BootTypeOK'
  <2>1. 0 \in HotelId /\ 0 \in TypeId
    BY OfficeBounds DEF HotelId, TypeId
  <2> QED BY <1>0, <2>1 DEF Stop, BootTypeOK, BootStep
<1>3. RequestsTypeOK'
  BY DEF Stop, RequestsTypeOK, Fits, Step
<1>4. SmsTypeOK'
  <2>1. CASE store = "memory"
    <3>1. ASSUME NEW ph \in Phone
          PROVE  (IF codes[ph] = 0 THEN tally[ph] ELSE CodeLost(tally[ph])) \in Tally
      BY <1>0 DEF SmsTypeOK, Tally, CodeLost
    <3>2. 0 \in 0 .. CodeLife
      BY OfficeBounds
    <3> QED BY <2>1, <3>1, <3>2 DEF Stop, SmsTypeOK
  <2> QED BY <1>0, <2>1 DEF Stop, SmsTypeOK, smsVars
<1> QED BY <1>1, <1>2, <1>3, <1>4 DEF OfficeTypeOK

\* The databases a server starts on.
LEMMA FirstTables ==
    ASSUME FirstBoot \/ \E untyped \in BOOLEAN : Running(untyped)
    PROVE  TablesTypeOK /\ BootTypeOK /\ tokens \in [Token -> Claims]
<1>1. CASE FirstBoot
  <2>1. NoToken \in Claims
    BY OfficeBounds DEF NoToken, Claims, Role
  <2> QED BY <1>1, <2>1, OfficeBounds
          DEF FirstBoot, TablesTypeOK, BootTypeOK, BootStep, HotelId, TypeId
<1>2. ASSUME NEW untyped \in BOOLEAN, Running(untyped)
      PROVE  TablesTypeOK /\ BootTypeOK /\ tokens \in [Token -> Claims]
  <2> USE DEF Running
  <2>1. /\ 0 \in HotelId /\ 1 \in HotelId /\ 2 \in HotelId
        /\ 0 \in TypeId /\ 1 \in TypeId /\ TokenLife \in 0 .. TokenLife
        /\ 0 \in 0 .. TokenLife /\ 1 \in 0 .. MaxStarts
    BY OfficeBounds DEF HotelId, TypeId
  <2>2. /\ User("admin", "super_admin", None) \in UserRow
        /\ User("manager", "hotel_admin", 1) \in UserRow
        /\ User("clerk", "front_desk", 1) \in UserRow
        /\ User("demo_guest", "guest", None) \in UserRow
    BY <2>1 DEF User, UserRow, Role, Name, SeedName
  <2>3. users \in Seq(UserRow \cup {Gone}) /\ Len(users) <= MaxUsers
    <3>1. users = <<User("admin", "super_admin", None), User("manager", "hotel_admin", 1),
                    User("clerk", "front_desk", 1), User("demo_guest", "guest", None)>>
      BY <1>2
    <3> QED BY <2>2, <3>1, OfficeBounds
  <2>4. types \in Seq(TypeRow) /\ Len(types) <= MaxTypes
    <3>1. \/ types = <<[hotel |-> 2, active |-> TRUE]>>
          \/ types = <<[hotel |-> 1, active |-> TRUE], [hotel |-> 2, active |-> TRUE]>>
      BY <1>2
    <3>2. [hotel |-> 1, active |-> TRUE] \in TypeRow /\ [hotel |-> 2, active |-> TRUE] \in TypeRow
      BY <2>1 DEF TypeRow
    <3> HIDE DEF Running
    <3>3. CASE types = <<[hotel |-> 2, active |-> TRUE]>>
      BY <3>2, <3>3, OfficeBounds
    <3>4. CASE types = <<[hotel |-> 1, active |-> TRUE], [hotel |-> 2, active |-> TRUE]>>
      BY <3>2, <3>4, OfficeBounds
    <3> QED BY <3>1, <3>3, <3>4
  <2>5. hotels \in Seq(HotelRow) /\ Len(hotels) <= MaxHotels
    BY <1>2, OfficeBounds DEF HotelRow
  <2>6. rooms \in Seq(RoomRow \cup {Gone}) /\ Len(rooms) <= MaxRooms
    <3>1. PICK n \in Number, ty \in {0, 1} : rooms = <<NewRoom(1, n, ty)>>
      BY <1>2
    <3>2. NewRoom(1, n, ty) \in RoomRow
      BY <2>1 DEF NewRoom, RoomRow
    <3> QED BY <3>1, <3>2, OfficeBounds
  <2>7. boot = [step |-> "up", hotel |-> 0, type |-> 0, failed |-> FALSE,
                untyped |-> untyped, starts |-> 1]
    BY <1>2
  <2>8. BootTypeOK
    BY <2>1, <2>7 DEF BootTypeOK, BootStep
  <2>9. tokens \in [Token -> Claims]
    <3>1. /\ NoToken \in Claims
          /\ [user |-> 1, role |-> "super_admin", hotel |-> None, left |-> TokenLife] \in Claims
          /\ [user |-> 2, role |-> "hotel_admin", hotel |-> 1, left |-> TokenLife] \in Claims
      BY <2>1 DEF NoToken, Claims, Role
    <3> QED BY <1>2, <3>1
  <2> QED BY <2>3, <2>4, <2>5, <2>6, <2>8, <2>9 DEF TablesTypeOK
<1> QED BY <1>1, <1>2

LEMMA InitTypeOK ==
    ASSUME OfficeInit
    PROVE  OfficeTypeOK
<1>1. TablesTypeOK /\ BootTypeOK /\ tokens \in [Token -> Claims]
  <2>1. ("untyped" \in traffic) \in BOOLEAN
    OBVIOUS
  <2> QED BY <2>1, FirstTables DEF OfficeInit
<1>2. deployment \in Deployments
  <2>1. PICK d \in Deployments : engine = d[1] /\ store = d[2] /\ traffic = d[3]
    BY DEF OfficeInit
  <2>2. d = <<d[1], d[2], d[3]>>
    BY OfficeTraffic
  <2> QED BY <2>1, <2>2 DEF deployment
<1>3. NoTally \in Tally
  BY DEF NoTally, Tally
<1>4. SmsTypeOK /\ SessionsTypeOK
  BY <1>1, <1>3, OfficeBounds DEF OfficeInit, SmsTypeOK, SessionsTypeOK
<1>5. RequestsTypeOK
  BY DEF OfficeInit, RequestsTypeOK, Fits, Step
<1> QED BY <1>1, <1>2, <1>4, <1>5 DEF OfficeTypeOK

LEMMA NextTypeOK ==
    ASSUME OfficeTypeOK, [Next]_vars
    PROVE  OfficeTypeOK'
<1>1. ASSUME NEW p \in Proc, NEW step \in Step, NEW x, NEW row,
             StepsTo(p, step, x, row), Fits(step, x, row)
      PROVE  OfficeTypeOK'
  BY <1>1, StepsToKeepsType
<1>2. ASSUME NEW p \in Proc, AccountRequest(p) \/ StayRequest(p) PROVE OfficeTypeOK'
  BY <1>1, <1>2, RequestsRead DEF Reads
<1>3. ASSUME NEW p \in Proc, NEW t \in Token, CatalogueRequest(p, t) PROVE OfficeTypeOK'
  BY <1>1, <1>3, CatalogueReads, CatalogueKeepsType DEF Reads
<1>4. ASSUME NEW p \in Proc, Continue(p) PROVE OfficeTypeOK'
  BY <1>4, ContinueKeepsType
<1>5. CASE Outside
  BY <1>5, TimeKeepsType, StopKeepsType DEF Outside
<1>6. CASE UNCHANGED vars
  <2>1. /\ TablesTypeOK /\ SmsTypeOK /\ SessionsTypeOK /\ BootTypeOK /\ RequestsTypeOK
        /\ UNCHANGED <<deployment, tables, smsVars, sessionVars, boot, requests>>
    BY <1>6 DEF OfficeTypeOK, vars
  <2>2. Grown /\ TablesTypeOK' /\ (deployment \in Deployments)' /\ RequestsTypeOK'
    BY <2>1, TablesAlone, OthersKeepRequests
  <2> QED BY <2>1, <2>2 DEF OfficeTypeOK, SmsTypeOK, SessionsTypeOK, BootTypeOK, smsVars, sessionVars
<1> QED BY <1>2, <1>3, <1>4, <1>5, <1>6, BootKeepsType DEF Next

\* Every table, token, code and request of the back office holds what its type
\* says, whatever requests run into each other: rows stay rows, ids stay in
\* their table, and a request works on a row that was once given out.
THEOREM OfficeTypeCorrect == Spec => []TypeOK
<1>1. Init => OfficeTypeOK
  BY InitTypeOK DEF Init
<1>2. OfficeTypeOK /\ [Next]_vars => OfficeTypeOK'
  BY NextTypeOK
<1> QED BY <1>1, <1>2, PTL DEF Spec, TypeOK

-----------------------------------------------------------------------------
(* Tokens that were refused. *)

\* An entry of the blacklist stays as long as its token is valid, but for the
\* hours that Redis' clock is ahead.
EntriesOutlive == \A t \in Token : black[t] = 0 \/ black[t] + lead >= tokens[t].left

\* Who touches the tokens, the blacklist and the clocks.
LEMMA SessionSteps ==
    ASSUME OfficeTypeOK, [Next]_vars
    PROVE  \/ UNCHANGED sessionVars
           \/ Hour \/ RedisGains \/ RedisLoses
           \/ \E t \in Token : Logout(t)
           \/ \E p \in Proc, t \in Token : LoginIssue(p, t)
<1> DEFINE Kept == UNCHANGED sessionVars
<1>1. ASSUME NEW p \in Proc, AccountRequest(p) \/ StayRequest(p) PROVE Kept
  BY <1>1, RequestsRead DEF Reads, StepsTo
<1>2. ASSUME NEW p \in Proc, NEW t \in Token, CatalogueRequest(p, t) PROVE Kept
  BY <1>2, CatalogueReads DEF Reads, StepsTo, CreateHotel, CreateRoomType, unchangedBut
<1>3. ASSUME NEW p \in Proc, Continue(p)
      PROVE  Kept \/ \E t \in Token : LoginIssue(p, t)
  <2>1. CASE \/ SendCodeSave(p) \/ VerifyCodeDelete(p) \/ FindByUsername(p) \/ CreateUser(p)
            \/ ToggleStaffRead(p) \/ ToggleStaffSave(p) \/ DeleteUser(p) \/ Fail(p)
    BY <2>1 DEF SendCodeSave, VerifyCodeDelete, Accept, FindByUsername, CreateUser,
                ToggleStaffRead, ToggleStaffSave, DeleteUser, Fail
  <2>2. CASE \/ UpdateHotelSave(p) \/ UpdateRoomTypeSave(p) \/ CreateRoomInsert(p)
            \/ BatchCreateNext(p) \/ BatchCreateDone(p) \/ UpdateRoomSave(p) \/ DeleteRoom(p)
            \/ StaySave(p)
    BY <2>2 DEF UpdateHotelSave, UpdateRoomTypeSave, CreateRoomInsert, BatchCreateNext,
                BatchCreateDone, UpdateRoomSave, DeleteRoom, StaySave, unchangedBut,
                unchangedButRequests
  <2> QED BY <1>3, <2>1, <2>2 DEF Continue
<1>4. CASE Boot
  BY <1>4 DEF Boot, StartUp, SeedAdmin, SeedHotel, SeedManager, SeedClerk, SeedTypes,
              SeedRoom, SeedRoomsDone, SeedGuest, SeedUser, Skip
<1>5. CASE Outside
  BY <1>5 DEF Outside, Minute, Stop
<1>6. CASE UNCHANGED vars
  BY <1>6 DEF vars
<1> QED BY <1>1, <1>2, <1>3, <1>4, <1>5, <1>6 DEF Next

\* What an hour makes of a token and of an entry.
LEMMA AgedBy ==
    ASSUME SessionsTypeOK, NEW t \in Token
    PROVE  /\ TokensAge =>
                tokens'[t].left = IF tokens[t].left <= 1 THEN 0 ELSE tokens[t].left - 1
           /\ EntriesAge => black'[t] = IF black[t] = 0 THEN 0 ELSE black[t] - 1
<1>1. tokens[t] \in Claims
  BY DEF SessionsTypeOK
<1> QED BY <1>1 DEF TokensAge, EntriesAge, NoToken, Claims

\* The entries go on outliving their tokens, and what was refused stays refused.
LEMMA RefusedStep ==
    ASSUME OfficeTypeOK, EntriesOutlive, [Next]_vars
    PROVE  /\ EntriesOutlive'
           /\ \A t \in Token :
                Accepted(t, TRUE)' /\ ~Accepted(t, TRUE)
                  => tokens[t].left = 0 \/ tokens'[t].left <= MaxDrift
<1> DEFINE Stays(t) == /\ black'[t] = 0 \/ black'[t] + lead' >= tokens'[t].left
                       /\ tokens'[t].left > 0 /\ black'[t] = 0 /\ black[t] # 0
                            => tokens[t].left = 0 \/ tokens'[t].left <= MaxDrift
<1> SUFFICES ASSUME NEW t \in Token PROVE Stays(t)
  <2>1. \A t \in Token : tokens[t].left \in Nat
    BY OfficeBounds DEF OfficeTypeOK, SessionsTypeOK, Claims
  <2> QED BY <2>1 DEF EntriesOutlive, Accepted, Stays
<1>0. /\ SessionsTypeOK
      /\ tokens \in [Token -> Claims] /\ black \in [Token -> 0 .. TokenLife]
  BY DEF OfficeTypeOK, SessionsTypeOK
<1>1. /\ tokens[t].left \in Nat /\ black[t] \in Nat /\ lead \in Nat /\ lead <= MaxDrift
      /\ tokens[t].left <= TokenLife /\ TokenLife \in Nat \ {0} /\ MaxDrift \in Nat
  BY OfficeBounds DEF OfficeTypeOK, SessionsTypeOK, Claims
<1>2. black[t] = 0 \/ black[t] + lead >= tokens[t].left
  BY DEF EntriesOutlive
<1>5. CASE UNCHANGED sessionVars
  BY <1>2, <1>5 DEF sessionVars, Stays
<1>6. CASE Hour
  <2>1. /\ lead' = lead
        /\ tokens'[t].left = IF tokens[t].left <= 1 THEN 0 ELSE tokens[t].left - 1
        /\ black'[t] = IF black[t] = 0 THEN 0 ELSE black[t] - 1
    BY <1>0, <1>6, AgedBy DEF Hour
  <2> QED BY <1>1, <1>2, <2>1 DEF Stays
<1>7. CASE RedisGains
  <2>1. /\ lead' = lead + 1 /\ lead < MaxDrift /\ tokens' = tokens
        /\ black'[t] = IF black[t] = 0 THEN 0 ELSE black[t] - 1
    BY <1>0, <1>7, AgedBy DEF RedisGains
  <2> QED BY <1>1, <1>2, <2>1 DEF Stays
<1>8. CASE RedisLoses
  <2>1. /\ lead' = lead - 1 /\ lead > 0 /\ black' = black
        /\ tokens'[t].left = IF tokens[t].left <= 1 THEN 0 ELSE tokens[t].left - 1
    BY <1>0, <1>8, AgedBy DEF RedisLoses
  <2> QED BY <1>1, <1>2, <2>1 DEF Stays
<1>9. ASSUME NEW s \in Token, Logout(s) PROVE Stays(t)
  <2>1. tokens' = tokens /\ lead' = lead /\ black'[t] \in {black[t], TokenLife}
    BY <1>0, <1>9 DEF Logout
  <2> QED BY <1>1, <1>2, <2>1 DEF Stays
<1>10. ASSUME NEW p \in Proc, NEW s \in Token, LoginIssue(p, s) PROVE Stays(t)
  <2>1. black' = black /\ lead' = lead
    BY <1>10 DEF LoginIssue
  <2>2. CASE t = s
    <3>1. tokens[t].left = 0 /\ black[t] = 0
      BY <1>10, <2>2 DEF LoginIssue
    <3> QED BY <2>1, <3>1 DEF Stays
  <2>3. CASE t # s
    <3>1. tokens'[t] = tokens[t]
      BY <1>0, <1>10, <2>3 DEF LoginIssue
    <3> QED BY <1>2, <2>1, <3>1 DEF Stays
  <2> QED BY <2>2, <2>3
<1> QED BY <1>5, <1>6, <1>7, <1>8, <1>9, <1>10, SessionSteps

\* A token that was logged out is not accepted again by a Redis that answers,
\* for any number of tokens and hours, except for as many of its last hours as
\* the clocks of Redis and the server can drift apart.
THEOREM RefusedStaysRefused == Spec => RefusedForGood
<1>1. Init => OfficeTypeOK /\ EntriesOutlive
  BY InitTypeOK DEF Init, OfficeInit, EntriesOutlive
<1>2. OfficeTypeOK /\ EntriesOutlive /\ [Next]_vars
        => OfficeTypeOK' /\ EntriesOutlive'
  BY NextTypeOK, RefusedStep
<1>3. OfficeTypeOK /\ EntriesOutlive /\ [Next]_vars
        => [\A t \in Token :
              Accepted(t, TRUE)' /\ ~Accepted(t, TRUE)
                => tokens[t].left = 0 \/ tokens'[t].left <= MaxDrift]_vars
  BY RefusedStep
<1> QED BY <1>1, <1>2, <1>3, PTL DEF Spec, RefusedForGood

-----------------------------------------------------------------------------
(* How often a code is sent and used. *)

\* The requests at a step of sending or verifying for a phone.
Waiting(step, ph) == {q \in Proc : at[q] = step /\ target[q] = ph}

\* Until the last code is a minute old no request joins those that send, and
\* while a code is valid every use of it left it there.
SentFits(ph) ==
    IF codes[ph] = CodeLife
      THEN tally[ph].sent + Cardinality(Waiting("sending", ph))
             <= Cardinality(Proc) * (1 + tally[ph].cleared)
      ELSE tally[ph].sent <= Cardinality(Proc) * tally[ph].cleared

UsedFits(ph) ==
    IF codes[ph] > 0
      THEN tally[ph].used <= tally[ph].kept
      ELSE tally[ph].used + Cardinality(Waiting("matched", ph))
             <= Cardinality(Proc) + tally[ph].kept

CodesInv == \A ph \in Phone : SentFits(ph) /\ UsedFits(ph)

LEMMA WaitingCounts ==
    ASSUME IsFiniteSet(Proc)
    PROVE  /\ Cardinality(Proc) \in Nat
           /\ \A step, ph : /\ IsFiniteSet(Waiting(step, ph))
                            /\ Cardinality(Waiting(step, ph)) \in Nat
                            /\ Cardinality(Waiting(step, ph)) <= Cardinality(Proc)
<1>1. Cardinality(Proc) \in Nat
  BY FS_CardinalityType
<1>2. ASSUME NEW step, NEW ph
      PROVE  /\ IsFiniteSet(Waiting(step, ph))
             /\ Cardinality(Waiting(step, ph)) \in Nat
             /\ Cardinality(Waiting(step, ph)) <= Cardinality(Proc)
  <2>1. Waiting(step, ph) \in SUBSET Proc
    BY DEF Waiting
  <2>2. /\ IsFiniteSet(Waiting(step, ph))
        /\ Cardinality(Waiting(step, ph)) <= Cardinality(Proc)
    BY <2>1, FS_Subset
  <2> QED BY <2>2, FS_CardinalityType
<1> QED BY <1>1, <1>2

\* Fewer requests wait, or one less.
LEMMA FewerWait ==
    ASSUME IsFiniteSet(Proc), NEW step, NEW ph, Waiting(step, ph)' \subseteq Waiting(step, ph)
    PROVE  Cardinality(Waiting(step, ph)') <= Cardinality(Waiting(step, ph))
<1>1. IsFiniteSet(Waiting(step, ph))
  BY WaitingCounts
<1> QED BY <1>1, FS_Subset

LEMMA OneLessWaits ==
    ASSUME IsFiniteSet(Proc), NEW step, NEW ph, NEW p \in Waiting(step, ph),
           Waiting(step, ph)' = Waiting(step, ph) \ {p}
    PROVE  Cardinality(Waiting(step, ph)') = Cardinality(Waiting(step, ph)) - 1
<1>1. IsFiniteSet(Waiting(step, ph))
  BY WaitingCounts
<1>2. Cardinality(Waiting(step, ph) \ {p}) = Cardinality(Waiting(step, ph)) - 1
  BY <1>1, FS_RemoveElement
<1> QED BY <1>2

\* A request that goes to another step waits no more, and the others do as before.
LEMMA GoesElsewhere ==
    ASSUME RequestsTypeOK, NEW p \in Proc, NEW step, NEW x, NEW row,
           Holding(p, step, x, row), NEW s, s # step
    PROVE  \A ph : Waiting(s, ph)' = Waiting(s, ph) \ {p}
BY DEF RequestsTypeOK, Holding, Waiting

\* A step that leaves codes alone: no request joins those that send or have
\* read a code, or the code they read allows it.
CodesRest ==
    /\ UNCHANGED smsVars
    /\ \A ph \in Phone :
         /\ Waiting("sending", ph)' \subseteq Waiting("sending", ph) \/ codes[ph] < CodeLife
         /\ Waiting("matched", ph)' \subseteq Waiting("matched", ph) \/ codes[ph] > 0

LEMMA RestsElsewhere ==
    ASSUME RequestsTypeOK, UNCHANGED smsVars,
           \/ UNCHANGED requests
           \/ \E p \in Proc : \E step, x, row :
                Holding(p, step, x, row) /\ step \notin {"sending", "matched"}
    PROVE  CodesRest
<1>1. CASE UNCHANGED requests
  BY <1>1 DEF CodesRest, Waiting, requests
<1>2. ASSUME NEW p \in Proc, NEW step, NEW x, NEW row,
             Holding(p, step, x, row), step \notin {"sending", "matched"}
      PROVE  CodesRest
  BY <1>2, GoesElsewhere DEF CodesRest
<1> QED BY <1>1, <1>2

LEMMA ReadsRest ==
    ASSUME RequestsTypeOK, NEW p \in Proc, Reads(p)
    PROVE  CodesRest
<1>1. PICK step, x, row : StepsTo(p, step, x, row) /\ FreshCopy(step, x, row)
  BY DEF Reads
<1>2. UNCHANGED smsVars /\ Holding(p, step, x, row)
  BY <1>1 DEF StepsTo
<1>3. CASE step \notin {"sending", "matched"}
  BY <1>2, <1>3, RestsElsewhere
<1>4. ASSUME step \in {"sending", "matched"}, NEW s \in {"sending", "matched"}, NEW ph \in Phone
      PROVE  \/ Waiting(s, ph)' \subseteq Waiting(s, ph)
             \/ s = step /\ x = ph
  BY <1>2 DEF RequestsTypeOK, Holding, Waiting
<1> QED BY <1>1, <1>2, <1>3, <1>4 DEF CodesRest, FreshCopy

LEMMA SmsSteps ==
    ASSUME OfficeTypeOK, [Next]_vars
    PROVE  \/ CodesRest
           \/ \E p \in Proc : SendCodeSave(p) \/ VerifyCodeDelete(p)
           \/ Minute
           \/ Stop
<1>0. RequestsTypeOK
  BY DEF OfficeTypeOK
<1>1. ASSUME NEW p \in Proc, AccountRequest(p) \/ StayRequest(p) PROVE CodesRest
  BY <1>0, <1>1, RequestsRead, ReadsRest
<1>2. ASSUME NEW p \in Proc, NEW t \in Token, CatalogueRequest(p, t) PROVE CodesRest
  BY <1>0, <1>2, CatalogueReads, ReadsRest, RestsElsewhere
     DEF CreateHotel, CreateRoomType, unchangedBut
<1>3. ASSUME NEW p \in Proc, Continue(p), ~SendCodeSave(p), ~VerifyCodeDelete(p)
      PROVE  CodesRest
  <2> DEFINE Moves == \E step, x, row :
                        Holding(p, step, x, row) /\ step \notin {"sending", "matched"}
  <2>1. Answered(p) => Moves
    BY DEF Answered
  <2>2. CASE \/ CreateUser(p) \/ ToggleStaffSave(p) \/ DeleteUser(p) \/ Fail(p)
             \/ \E t \in Token : LoginIssue(p, t)
    <3>1. UNCHANGED smsVars /\ Answered(p)
      BY <2>2 DEF CreateUser, ToggleStaffSave, DeleteUser, Fail, LoginIssue
    <3> QED BY <1>0, <2>1, <3>1, RestsElsewhere
  <2>3. CASE FindByUsername(p) \/ ToggleStaffRead(p)
    <3>1. UNCHANGED smsVars /\ Moves
      BY <2>3 DEF FindByUsername, ToggleStaffRead
    <3> QED BY <1>0, <3>1, RestsElsewhere
  <2>4. CASE \/ UpdateHotelSave(p) \/ UpdateRoomTypeSave(p) \/ CreateRoomInsert(p)
             \/ BatchCreateDone(p) \/ UpdateRoomSave(p) \/ DeleteRoom(p) \/ StaySave(p)
    <3>1. UNCHANGED smsVars /\ Answered(p)
      BY <2>4 DEF UpdateHotelSave, UpdateRoomTypeSave, CreateRoomInsert, BatchCreateDone,
                  UpdateRoomSave, DeleteRoom, StaySave, unchangedBut, unchangedButRequests
    <3> QED BY <1>0, <2>1, <3>1, RestsElsewhere
  <2>5. CASE BatchCreateNext(p)
    <3>1. UNCHANGED smsVars /\ Moves
      BY <2>5 DEF BatchCreateNext, unchangedBut, unchangedButRequests
    <3> QED BY <1>0, <3>1, RestsElsewhere
  <2> QED BY <1>3, <2>2, <2>3, <2>4, <2>5 DEF Continue
<1>4. CASE Boot
  <2>1. UNCHANGED <<smsVars, requests>>
    BY <1>4 DEF Boot, StartUp, SeedAdmin, SeedHotel, SeedManager, SeedClerk, SeedTypes,
                SeedRoom, SeedRoomsDone, SeedGuest, SeedUser, Skip
  <2> QED BY <1>0, <2>1, RestsElsewhere
<1>5. CASE \/ Hour \/ RedisGains \/ RedisLoses \/ \E t \in Token : Logout(t)
  <2>1. UNCHANGED <<smsVars, requests>>
    BY <1>5 DEF Hour, RedisGains, RedisLoses, Logout
  <2> QED BY <1>0, <2>1, RestsElsewhere
<1>6. CASE UNCHANGED vars
  <2>1. UNCHANGED <<smsVars, requests>>
    BY <1>6 DEF vars
  <2> QED BY <1>0, <2>1, RestsElsewhere
<1> QED BY <1>1, <1>2, <1>3, <1>4, <1>5, <1>6 DEF Next, Outside

\* Products that the bounds are made of.
LEMMA OneMore ==
    ASSUME NEW n \in Nat, NEW c \in Nat
    PROVE  /\ n * c \in Nat /\ n * (1 + c) \in Nat
           /\ n * (1 + c) = n * c + n
           /\ n * c <= n * (1 + c) /\ n <= n * (1 + c)
<1>1. n * c \in Nat /\ n * (1 + c) = n * c + n
  OBVIOUS
<1> QED BY <1>1

\* The counts a phone has, and what is known of them.
LEMMA PhoneFacts ==
    ASSUME IsFiniteSet(Proc), OfficeTypeOK, NEW ph \in Phone
    PROVE  /\ tally[ph] \in Tally /\ codes[ph] \in 0 .. CodeLife
           /\ tally[ph].sent \in Nat /\ tally[ph].cleared \in Nat
           /\ tally[ph].used \in Nat /\ tally[ph].kept \in Nat
BY DEF OfficeTypeOK, SmsTypeOK, Tally

\* What the steps of the waiting requests and of the clock make of the bounds,
\* in numbers: n requests, c removed codes, s sent, w waiting to send.
LEMMA SentSteps ==
    ASSUME NEW n \in Nat, NEW c \in Nat, NEW s \in Nat, NEW w \in Nat, w <= n
    PROVE  /\ s <= n * c => s + w <= n * (1 + c)
           /\ s + w <= n * (1 + c) => s <= n * (1 + c)
           /\ s <= n * c => s <= n * (1 + c)
           /\ 0 <= n * 0 /\ n * (c + 1) = n * (1 + c)
<1> DEFINE a == n * c
           b == n * (1 + c)
<1>1. a \in Nat /\ b \in Nat /\ b = a + n
  BY OneMore
<1>2. 0 <= n * 0 /\ n * (c + 1) = b
  OBVIOUS
<1> HIDE DEF a, b
<1>3. (s <= a => s + w <= b) /\ (s + w <= b => s <= b) /\ (s <= a => s <= b)
  BY <1>1
<1> QED BY <1>2, <1>3 DEF a, b

\* The requests that wait for a phone, before a step and after it.
LEMMA PhoneCounts ==
    ASSUME IsFiniteSet(Proc), NEW ph, NEW step
    PROVE  /\ Cardinality(Proc) \in Nat
           /\ Cardinality(Waiting(step, ph)) \in Nat
           /\ Cardinality(Waiting(step, ph)) <= Cardinality(Proc)
           /\ Cardinality(Waiting(step, ph)') \in Nat
           /\ Cardinality(Waiting(step, ph)') <= Cardinality(Proc)
<1>1. Waiting(step, ph)' \in SUBSET Proc
  BY DEF Waiting
<1>2. /\ IsFiniteSet(Waiting(step, ph)')
      /\ Cardinality(Waiting(step, ph)') <= Cardinality(Proc)
  BY <1>1, FS_Subset
<1> QED BY <1>2, WaitingCounts, FS_CardinalityType

\* A phone that a step leaves alone, except for requests that stop waiting for it.
LEMMA PhoneRests ==
    ASSUME IsFiniteSet(Proc), OfficeTypeOK, NEW ph \in Phone, SentFits(ph), UsedFits(ph),
           codes'[ph] = codes[ph], tally'[ph] = tally[ph],
           Waiting("sending", ph)' \subseteq Waiting("sending", ph) \/ codes[ph] < CodeLife,
           Waiting("matched", ph)' \subseteq Waiting("matched", ph) \/ codes[ph] > 0
    PROVE  SentFits(ph)' /\ UsedFits(ph)'
<1> DEFINE n == Cardinality(Proc)
           s == Cardinality(Waiting("sending", ph))
           m == Cardinality(Waiting("matched", ph))
           s2 == Cardinality(Waiting("sending", ph)')
           m2 == Cardinality(Waiting("matched", ph)')
           b == n * (1 + tally[ph].cleared)
           k == tally[ph]
<1>1. n \in Nat /\ s \in Nat /\ m \in Nat /\ s2 \in Nat /\ m2 \in Nat
  BY PhoneCounts
<1>2. /\ k.sent \in Nat /\ k.used \in Nat /\ k.kept \in Nat /\ b \in Nat
  BY PhoneFacts, OneMore, <1>1
<1>3. codes[ph] = CodeLife => s2 <= s
  BY FewerWait, PhoneFacts, OfficeBounds
<1>4. ~(codes[ph] > 0) => m2 <= m
  BY FewerWait
<1>5. SentFits(ph)'
  <2>1. CASE codes[ph] = CodeLife
    <3>1. k.sent + s <= b
      BY <2>1 DEF SentFits
    <3>2. k.sent + s2 <= b
      <4> HIDE DEF b, s, s2, k
      <4> QED BY <1>1, <1>2, <1>3, <2>1, <3>1
    <3> QED BY <2>1, <3>2 DEF SentFits
  <2>2. CASE codes[ph] # CodeLife
    BY <2>2 DEF SentFits
  <2> QED BY <2>1, <2>2
<1>6. UsedFits(ph)'
  <2>1. CASE codes[ph] > 0
    BY <2>1 DEF UsedFits
  <2>2. CASE ~(codes[ph] > 0)
    <3>1. k.used + m <= n + k.kept
      BY <2>2 DEF UsedFits
    <3>2. k.used + m2 <= n + k.kept
      <4> HIDE DEF m, m2, n, k
      <4> QED BY <1>1, <1>2, <1>4, <2>2, <3>1
    <3> QED BY <2>2, <3>2 DEF UsedFits
  <2> QED BY <2>1, <2>2
<1> QED BY <1>5, <1>6

LEMMA RestKeepsCodes ==
    ASSUME IsFiniteSet(Proc), OfficeTypeOK, CodesInv, CodesRest
    PROVE  CodesInv'
<1> SUFFICES ASSUME NEW ph \in Phone PROVE SentFits(ph)' /\ UsedFits(ph)'
  BY DEF CodesInv
<1>1. codes'[ph] = codes[ph] /\ tally'[ph] = tally[ph]
  BY DEF CodesRest, smsVars
<1> QED BY <1>1, PhoneRests DEF CodesInv, CodesRest

\* A code is sent: one request less waits, one more code was sent.
LEMMA SendKeepsCodes ==
    ASSUME IsFiniteSet(Proc), OfficeTypeOK, CodesInv, NEW p \in Proc, SendCodeSave(p)
    PROVE  CodesInv'
<1> SUFFICES ASSUME NEW ph \in Phone PROVE SentFits(ph)' /\ UsedFits(ph)'
  BY DEF CodesInv
<1>0. RequestsTypeOK /\ SentFits(ph) /\ UsedFits(ph)
  BY DEF OfficeTypeOK, CodesInv
<1>1. /\ Waiting("sending", ph)' = Waiting("sending", ph) \ {p}
      /\ Waiting("matched", ph)' = Waiting("matched", ph) \ {p}
  BY <1>0, GoesElsewhere DEF SendCodeSave, Answered
<1>2. CASE ph # target[p]
  <2>1. codes'[ph] = codes[ph] /\ tally'[ph] = tally[ph]
    BY <1>2 DEF SendCodeSave, OfficeTypeOK, SmsTypeOK
  <2> QED BY <1>0, <1>1, <2>1, PhoneRests
<1>3. CASE ph = target[p]
  <2> DEFINE n == Cardinality(Proc)
             w == Cardinality(Waiting("sending", ph))
             w2 == Cardinality(Waiting("sending", ph)')
             k == tally[ph]
             b == n * (1 + k.cleared)
  <2>1. codes'[ph] = CodeLife /\ tally'[ph] = CodeSent(k)
    BY <1>3 DEF SendCodeSave, OfficeTypeOK, SmsTypeOK
  <2>2. p \in Waiting("sending", ph)
    BY <1>3 DEF SendCodeSave, Waiting
  <2>3. w2 = w - 1
    BY <1>1, <2>2, OneLessWaits
  <2>4. n \in Nat /\ w \in Nat /\ w2 \in Nat /\ w <= n /\ k.sent \in Nat /\ k.cleared \in Nat
    BY PhoneCounts, PhoneFacts
  <2>5. b \in Nat
    BY <2>4, OneMore
  <2>6. k.sent + w <= b
    BY <1>0, <2>4, SentSteps DEF SentFits
  <2>7. (k.sent + 1) + w2 <= b
    <3> HIDE DEF b, w, w2, k, n
    <3> QED BY <2>3, <2>4, <2>5, <2>6
  <2>8. SentFits(ph)'
    BY <2>1, <2>7 DEF SentFits, CodeSent
  <2>9. UsedFits(ph)'
    BY <2>1, OfficeBounds DEF UsedFits, CodeSent
  <2> QED BY <2>8, <2>9
<1> QED BY <1>2, <1>3

\* A code that is gone allows as many more to be sent as requests can run.
LEMMA ClearedFits ==
    ASSUME IsFiniteSet(Proc), OfficeTypeOK, NEW ph \in Phone, SentFits(ph),
           codes'[ph] = 0, tally'[ph].sent = tally[ph].sent,
           tally'[ph].cleared = tally[ph].cleared + 1
    PROVE  SentFits(ph)'
<1> DEFINE n == Cardinality(Proc)
           w == Cardinality(Waiting("sending", ph))
           k == tally[ph]
<1>1. n \in Nat /\ w \in Nat /\ w <= n /\ k.sent \in Nat /\ k.cleared \in Nat
  BY PhoneCounts, PhoneFacts
<1>2. k.sent <= n * (1 + k.cleared) /\ n * (k.cleared + 1) = n * (1 + k.cleared)
  BY <1>1, SentSteps DEF SentFits
<1>3. codes'[ph] # CodeLife
  BY OfficeBounds
<1> QED BY <1>2, <1>3 DEF SentFits

\* A code is accepted: one request less has read it, one more has used it.
LEMMA VerifyKeepsCodes ==
    ASSUME IsFiniteSet(Proc), OfficeTypeOK, CodesInv, NEW p \in Proc, VerifyCodeDelete(p)
    PROVE  CodesInv'
<1> SUFFICES ASSUME NEW ph \in Phone PROVE SentFits(ph)' /\ UsedFits(ph)'
  BY DEF CodesInv
<1>0. RequestsTypeOK /\ SentFits(ph) /\ UsedFits(ph)
  BY DEF OfficeTypeOK, CodesInv
<1>1. \E row : Holding(p, "finding", target[p], row)
  BY DEF VerifyCodeDelete, Accept
<1>2. /\ Waiting("sending", ph)' = Waiting("sending", ph) \ {p}
      /\ Waiting("matched", ph)' = Waiting("matched", ph) \ {p}
  BY <1>0, <1>1, GoesElsewhere
<1>3. CASE ph # target[p]
  <2>1. codes'[ph] = codes[ph] /\ tally'[ph] = tally[ph]
    BY <1>3 DEF VerifyCodeDelete, Accept, OfficeTypeOK, SmsTypeOK
  <2> QED BY <1>0, <1>2, <2>1, PhoneRests
<1>4. CASE ph = target[p]
  <2> DEFINE n == Cardinality(Proc)
             s == Cardinality(Waiting("sending", ph))
             s2 == Cardinality(Waiting("sending", ph)')
             m == Cardinality(Waiting("matched", ph))
             m2 == Cardinality(Waiting("matched", ph)')
             k == tally[ph]
             b == n * (1 + k.cleared)
  <2>1. p \in Waiting("matched", ph)
    BY <1>4 DEF VerifyCodeDelete, Waiting
  <2>2. m2 = m - 1
    BY <1>2, <2>1, OneLessWaits
  <2>3. s2 <= s
    BY <1>2, FewerWait
  <2>4. /\ n \in Nat /\ m \in Nat /\ m2 \in Nat /\ m <= n /\ s \in Nat /\ s2 \in Nat
        /\ k.sent \in Nat /\ k.cleared \in Nat /\ k.used \in Nat /\ k.kept \in Nat
        /\ codes[ph] \in Nat
    BY PhoneCounts, PhoneFacts
  <2>5. b \in Nat
    BY <2>4, OneMore
  <2>6. PICK removed \in {0, 1}, lost \in {0, 1} :
          /\ tally'[ph] = CodeUsed(k, removed, lost)
          /\ removed = 1 => codes[ph] > 0 /\ codes'[ph] = 0
          /\ removed = 0 => codes'[ph] = codes[ph] /\ (codes[ph] > 0 => lost = 1)
    BY <1>4, <2>4 DEF VerifyCodeDelete, Accept, OfficeTypeOK, SmsTypeOK
  <2>7. k.used + m <= n + k.kept
    <3>1. k.used <= k.kept \/ k.used + m <= n + k.kept
      BY <1>0 DEF UsedFits
    <3> HIDE DEF m, n, k
    <3> QED BY <2>4, <3>1
  <2>8. (k.used + 1) + m2 <= n + (k.kept + lost)
    <3> HIDE DEF m, m2, n, k
    <3> QED BY <2>2, <2>4, <2>7
  <2>9. UsedFits(ph)'
    <3>1. CASE codes'[ph] > 0
      <4>1. removed = 0 /\ lost = 1
        BY <2>6, <3>1
      <4>2. k.used <= k.kept
        BY <2>6, <3>1, <4>1, <1>0 DEF UsedFits
      <4> QED BY <2>4, <2>6, <3>1, <4>1, <4>2 DEF UsedFits, CodeUsed
    <3>2. CASE ~(codes'[ph] > 0)
      BY <2>6, <2>8, <3>2 DEF UsedFits, CodeUsed
    <3> QED BY <3>1, <3>2
  <2>10. SentFits(ph)'
    <3>1. CASE removed = 1
      BY <1>0, <2>6, <3>1, ClearedFits DEF CodeUsed
    <3>2. CASE removed = 0
      <4>1. codes'[ph] = codes[ph] /\ tally'[ph].sent = k.sent /\ tally'[ph].cleared = k.cleared
        BY <2>4, <2>6, <3>2 DEF CodeUsed
      <4>2. CASE codes[ph] = CodeLife
        <5>1. k.sent + s <= b
          BY <1>0, <4>2 DEF SentFits
        <5>2. k.sent + s2 <= b
          <6> HIDE DEF b, s, s2, k
          <6> QED BY <2>3, <2>4, <2>5, <5>1
        <5> QED BY <4>1, <4>2, <5>2 DEF SentFits
      <4>3. CASE codes[ph] # CodeLife
        BY <1>0, <4>1, <4>3 DEF SentFits
      <4> QED BY <4>2, <4>3
    <3> QED BY <2>6, <3>1, <3>2
  <2> QED BY <2>9, <2>10
<1> QED BY <1>3, <1>4

\* A minute passes: nothing was sent in the new one, and no code is new any more.
LEMMA MinuteKeepsCodes ==
    ASSUME IsFiniteSet(Proc), OfficeTypeOK, CodesInv, Minute
    PROVE  CodesInv'
<1> SUFFICES ASSUME NEW ph \in Phone PROVE SentFits(ph)' /\ UsedFits(ph)'
  BY DEF CodesInv
<1> DEFINE n == Cardinality(Proc)
           m == Cardinality(Waiting("matched", ph))
           k == tally[ph]
<1>1. /\ n \in Nat /\ m \in Nat /\ m <= n
      /\ k.used \in Nat /\ k.kept \in Nat /\ codes[ph] \in 0 .. CodeLife
  BY PhoneCounts, PhoneFacts
<1>2. /\ codes'[ph] = IF codes[ph] = 0 THEN 0 ELSE codes[ph] - 1
      /\ tally'[ph] = MinuteOver(k)
  BY DEF Minute
<1>3. codes'[ph] # CodeLife /\ (codes'[ph] > 0 => codes[ph] > 0)
  BY <1>1, <1>2, OfficeBounds
<1>4. 0 <= n * 0
  BY <1>1, SentSteps
<1>5. SentFits(ph)'
  BY <1>2, <1>3, <1>4 DEF SentFits, MinuteOver
<1>6. Waiting("matched", ph)' = Waiting("matched", ph)
  BY DEF Minute, requests, Waiting
<1>7. UsedFits(ph)'
  <2>1. k.used <= k.kept \/ (codes[ph] = 0 /\ k.used + m <= n + k.kept)
    BY <1>1 DEF UsedFits, CodesInv
  <2>2. k.used + m <= n + k.kept
    <3> HIDE DEF m, n, k
    <3> QED BY <1>1, <2>1
  <2>3. codes'[ph] > 0 => k.used <= k.kept
    BY <1>3 DEF UsedFits, CodesInv
  <2> QED BY <1>2, <1>6, <2>2, <2>3 DEF UsedFits, MinuteOver
<1> QED BY <1>5, <1>7

\* The server stops: nobody waits, and a code in memory is gone.
LEMMA StopKeepsCodes ==
    ASSUME IsFiniteSet(Proc), OfficeTypeOK, CodesInv, Stop
    PROVE  CodesInv'
<1> SUFFICES ASSUME NEW ph \in Phone PROVE SentFits(ph)' /\ UsedFits(ph)'
  BY DEF CodesInv
<1>0. SentFits(ph) /\ UsedFits(ph)
  BY DEF CodesInv
<1>1. Waiting("sending", ph)' = {} /\ Waiting("matched", ph)' = {}
  BY DEF Stop, Waiting
<1>2. CASE codes'[ph] = codes[ph] /\ tally'[ph] = tally[ph]
  BY <1>0, <1>1, <1>2, PhoneRests
<1>3. CASE codes[ph] > 0 /\ codes'[ph] = 0 /\ tally'[ph] = CodeLost(tally[ph])
  <2> DEFINE n == Cardinality(Proc)
             k == tally[ph]
  <2>1. n \in Nat /\ k.used \in Nat /\ k.kept \in Nat /\ k.used <= k.kept
    BY <1>0, <1>3, PhoneCounts, PhoneFacts DEF UsedFits
  <2>2. Cardinality(Waiting("matched", ph)') = 0
    BY <1>1, FS_EmptySet
  <2>3. k.used + 0 <= n + k.kept
    <3> HIDE DEF n, k
    <3> QED BY <2>1
  <2>4. UsedFits(ph)'
    BY <1>3, <2>2, <2>3 DEF UsedFits, CodeLost
  <2>5. SentFits(ph)'
    BY <1>0, <1>3, ClearedFits DEF CodeLost
  <2> QED BY <2>4, <2>5
<1> QED BY <1>2, <1>3, PhoneFacts DEF Stop, smsVars

LEMMA CodesInvariant ==
    ASSUME IsFiniteSet(Proc)
    PROVE  Spec => []CodesInv
<1>1. Init => CodesInv
  <2> SUFFICES ASSUME Init, NEW ph \in Phone PROVE SentFits(ph) /\ UsedFits(ph)
    BY DEF CodesInv
  <2>1. codes[ph] = 0 /\ tally[ph] = NoTally
    BY DEF Init, OfficeInit
  <2>2. Waiting("matched", ph) = {}
    BY DEF Init, OfficeInit, Waiting
  <2>3. Cardinality(Proc) \in Nat /\ Cardinality(Waiting("matched", ph)) = 0
    BY <2>2, FS_EmptySet, FS_CardinalityType
  <2>4. 0 <= Cardinality(Proc) * 0
    BY <2>3
  <2> QED BY <2>1, <2>3, <2>4, OfficeBounds DEF SentFits, UsedFits, NoTally
<1>2. OfficeTypeOK /\ CodesInv /\ [Next]_vars => CodesInv'
  BY SmsSteps, RestKeepsCodes, SendKeepsCodes, VerifyKeepsCodes, MinuteKeepsCodes, StopKeepsCodes
<1>3. Spec => []OfficeTypeOK
  BY OfficeTypeCorrect DEF TypeOK
<1> QED BY <1>1, <1>2, <1>3, PTL DEF Spec

(***************************************************************************)
(* However sends, verifications, minutes and stops interleave, a phone is  *)
(* sent no more codes in a minute than requests can run at once, for every *)
(* code that was removed meanwhile and once more: what sms.go's unlocked   *)
(* read of the cooldown still promises.                                    *)
(***************************************************************************)
THEOREM CooldownStaysHeld ==
    ASSUME IsFiniteSet(Proc)
    PROVE  Spec => []CooldownHeld
<1>1. OfficeTypeOK /\ CodesInv => CooldownHeld
  <2> SUFFICES ASSUME OfficeTypeOK, CodesInv, NEW ph \in Phone
               PROVE  tally[ph].sent <= Cardinality(Proc) * (1 + tally[ph].cleared)
    BY DEF CooldownHeld
  <2> DEFINE n == Cardinality(Proc)
             w == Cardinality(Waiting("sending", ph))
  <2>1. /\ n \in Nat /\ w \in Nat /\ w <= n
        /\ tally[ph].sent \in Nat /\ tally[ph].cleared \in Nat
    BY PhoneCounts, PhoneFacts
  <2> QED BY <2>1, SentSteps DEF CodesInv, SentFits
<1>2. Spec => []OfficeTypeOK
  BY OfficeTypeCorrect DEF TypeOK
<1> QED BY <1>1, <1>2, CodesInvariant, PTL

(***************************************************************************)
(* However sends, verifications, minutes and stops interleave, a code that *)
(* was sent once is accepted by no more requests than can read it at once, *)
(* and one more for every removal that Redis lost: what sms.go's unlocked  *)
(* read and removal still promise.                                         *)
(***************************************************************************)
THEOREM CodeUseStaysBounded ==
    ASSUME IsFiniteSet(Proc)
    PROVE  Spec => []CodeUseBounded
<1>1. OfficeTypeOK /\ CodesInv => CodeUseBounded
  <2> SUFFICES ASSUME OfficeTypeOK, CodesInv, NEW ph \in Phone
               PROVE  tally[ph].used <= Cardinality(Proc) + tally[ph].kept
    BY DEF CodeUseBounded
  <2> DEFINE n == Cardinality(Proc)
             m == Cardinality(Waiting("matched", ph))
             k == tally[ph]
  <2>1. n \in Nat /\ m \in Nat /\ k.used \in Nat /\ k.kept \in Nat
    BY PhoneCounts, PhoneFacts
  <2>2. k.used <= k.kept \/ k.used + m <= n + k.kept
    BY DEF CodesInv, UsedFits
  <2> HIDE DEF n, m, k
  <2>3. k.used <= n + k.kept
    BY <2>1, <2>2
  <2> QED BY <2>3 DEF n, k
<1>2. Spec => []OfficeTypeOK
  BY OfficeTypeCorrect DEF TypeOK
<1> QED BY <1>1, <1>2, CodesInvariant, PTL
=============================================================================
