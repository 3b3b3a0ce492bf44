----------------------------- MODULE TalkProofs -----------------------------
(***************************************************************************)
(* Proofs about server and clients together, for any number of processes,  *)
(* clients and rooms, as long as games are only played: each handler keeps *)
(* every client on the way to the state the rooms of the server say it is  *)
(* in. From this follow who may play, that nobody waits in vain, that the  *)
(* two programs agree, and that the arrays implement the lobby.            *)
(***************************************************************************)
EXTENDS OnlineProofs

(***************************************************************************)
(* The handlers, one by one.                                               *)
(***************************************************************************)
Holding == Wired /\ RoomArrayInv /\ OrderInv /\ Tracked

(* The rooms, and who is where, stay as they are.                          *)
LEMMA NothingMoves ==
  ASSUME TalkInv, status = "up", UNCHANGED <<rooms, nb_rooms, fd>>,
         names' = names, places' = places
  PROVE  RoomArrayInv' /\ OrderInv' /\ \A q \in Proc : \A v : View(q, v)' => View(q, v)
BY Ordered DEF RoomArrayInv, OrderInv, View

LEMMA RequestTypes ==
  /\ "CONNECTING" \in States /\ "CONNECTED" \in States /\ "IN_ROOM" \in States
  /\ "IN_GAME" \in States /\ "WAITING_PLAY_INPUT" \in States
  /\ "WAITING_CONNECTION" \in States /\ "WAITING_CREATE_ROOM_RESPONSE" \in States
  /\ "WAITING_JOIN_ROOM_RESPONSE" \in States /\ "WAITING_PLAY_ACK" \in States
BY DEF States, Running, WaitingInput, WaitingReply, InRoom

(* What follows from the type of a message.                                *)
LEMMA Connecting ==
  ASSUME NEW m, m.type = "CONNECT"
  PROVE  /\ IsRequest(m) /\ WaitsIn(m, "WAITING_CONNECTION")
         /\ \A v : Allowed(m, v) => v = "NEW" /\ m.name \in AllNames
BY DEF IsRequest, WaitsIn, Allowed, IsEnd

LEMMA Creating ==
  ASSUME NEW m, m.type = "CREATE_ROOM"
  PROVE  /\ IsRequest(m) /\ WaitsIn(m, "WAITING_CREATE_ROOM_RESPONSE")
         /\ \A v : Allowed(m, v) => v = "FREE"
BY DEF IsRequest, WaitsIn, Allowed, IsEnd

LEMMA JoiningRoom ==
  ASSUME NEW m, m.type = "JOIN_ROOM"
  PROVE  /\ IsRequest(m) /\ WaitsIn(m, "WAITING_JOIN_ROOM_RESPONSE")
         /\ \A v : Allowed(m, v) => v = "FREE" /\ ~m.spectate
BY DEF IsRequest, WaitsIn, Allowed, IsEnd

LEMMA PlayingMove ==
  ASSUME NEW m, m.type = "PLAY"
  PROVE  /\ IsRequest(m) /\ WaitsIn(m, "WAITING_PLAY_ACK")
         /\ \A v : Allowed(m, v) => v = "WAITING_PLAY_INPUT"
BY DEF IsRequest, WaitsIn, Allowed, IsEnd

LEMMA Saying ==
  ASSUME NEW m, m.type = "SEND_MESSAGE"
  PROVE  ~IsRequest(m) /\ \A v : Allowed(m, v) => v \in Seated
BY DEF IsRequest, Allowed, IsEnd

LEMMA Writing ==
  ASSUME NEW m, m.type = "SET_BIOGRAPHY" PROVE ~IsRequest(m)
BY DEF IsRequest

LEMMA Leaving ==
  ASSUME NEW m, m.type = "LEAVE_ROOM", NEW v PROVE ~Allowed(m, v)
BY DEF Allowed, IsEnd

(* Somebody is accepted.                                                   *)
LEMMA AcceptHolds ==
  ASSUME TalkInv, SocketsInv', UNCHANGED clientVars, Accept PROVE Holding'
<1>1. /\ status = "up" /\ SocketsInv /\ up' = up /\ down' = down
      /\ rooms' = rooms /\ nb_rooms' = nb_rooms
  BY DEF Accept, wires, TalkInv
<1>2. /\ Orderly(rooms, nb_rooms, fd, names, places) /\ Distinct(fd, names)
      /\ RoomArrayInv /\ WireInv /\ Tracked
  BY <1>1, Ordered DEF TalkInv, LiveInv
<1>3. names' = names /\ places' = places
  BY <1>1, SlotAdded
<1>4. PICK p \in Proc : /\ fd[p] = 0 /\ \A q \in Proc : fd[q] # fd'[p]
                        /\ fd'[p] # -1 /\ \A q \in Proc : q # p => fd'[q] = fd[q]
  BY <1>1, SlotAdded
<1>5. /\ Orderly(rooms, nb_rooms, fd', names, places)
      /\ \A q \in Proc : \A v : HasView(rooms, nb_rooms, fd', names, places, q, v) =>
           HasView(rooms, nb_rooms, fd, names, places, q, v)
  BY <1>2, <1>4, OrderlyAccept
<1>6. OrderInv' /\ \A q \in Proc : \A v : View(q, v)' => View(q, v)
  BY <1>1, <1>3, <1>5 DEF OrderInv, View
<1>7. \A q \in Proc : \A v : TalkOf(q, v) => TalkOf(q, v)'
  BY <1>1 DEF TalkOf, clientVars
<1>8. Tracked'
  BY <1>2, <1>6, <1>7 DEF Tracked
<1>9. RoomArrayInv' /\ Wired'
  BY <1>1, <1>2 DEF RoomArrayInv, WireInv, Wired
<1>10. QED
  BY <1>6, <1>8, <1>9 DEF Holding

(* From what everybody heeds to what is tracked.                           *)
LEMMA Tracking ==
  ASSUME NEW p \in Proc, \A v : View(p, v)' => Heeds(p, v),
         \A q \in Proc : q # p => \A v : View(q, v)' => Heeds(q, v)
  PROVE  Tracked'
<1>1. \A q \in Proc : \A v : View(q, v)' => Heeds(q, v)
  OBVIOUS
<1>2. \A q \in Proc : \A v : Heeds(q, v) => TalkOf(q, v)'
  BY DEF Heeds, TalkOf
<1>3. QED
  BY <1>1, <1>2 DEF Tracked

(* A request that is refused, or a name that is: nothing but the answer.   *)
LEMMA Refusing ==
  ASSUME TalkInv, status = "up", status' = "up", UNCHANGED clientVars,
         UNCHANGED <<clients, nb_clients, rooms, nb_rooms, fd>>,
         NEW c, NEW p, NEW m, NEW v, Reader(c, p, m, v), IsRequest(m),
         NEW r, Emit(p, <<To(clients[c].sock, r)>>), NEW a \in States, WaitsIn(m, a),
         NEW t \in States, Moves(a, r, t), NEW w, AtRest(w, t),
         \A x : Allowed(m, x) => x = w
  PROVE  Holding'
<1>1. SocketsInv /\ Tracked /\ p \in Proc
  BY DEF TalkInv, LiveInv, Reader
<1>2. /\ Heeds(p, w) /\ Wired'
      /\ \A q \in Proc : q # p => \A x : TalkOf(q, x) => Heeds(q, x)
  BY <1>1, Replying
<1>3. RoomArrayInv' /\ OrderInv' /\ \A q \in Proc : \A x : View(q, x)' => View(q, x)
  BY NothingMoves, SlotsKept
<1>4. \A x : View(p, x)' => x = w
  BY <1>1, <1>3 DEF Reader
<1>5. \A x : View(p, x)' => Heeds(p, x)
  BY <1>2, <1>4
<1>6. \A q \in Proc : q # p => \A x : View(q, x)' => Heeds(q, x)
  BY <1>1, <1>2, <1>3 DEF Tracked
<1>7. Tracked'
  BY <1>1, <1>5, <1>6, Tracking
<1>8. QED
  BY <1>2, <1>3, <1>7 DEF Holding

LEMMA RefuseConnectionHolds ==
  ASSUME TalkInv, UNCHANGED clientVars, NEW c, RefuseConnection(c), status' = "up"
  PROVE  Holding'
<1>1. status = "up" /\ \E p, m, v : Reader(c, p, m, v) /\ m.type = "CONNECT"
  BY Reading DEF RefuseConnection
<1>2. PICK p, m, v : Reader(c, p, m, v) /\ m.type = "CONNECT"
  BY <1>1
<1>3. /\ IsRequest(m) /\ WaitsIn(m, "WAITING_CONNECTION")
      /\ \A x : Allowed(m, x) => x = "NEW"
  BY <1>2, Connecting
<1> DEFINE r == [type |-> "CONNECTION_REFUSED"]
           a == "WAITING_CONNECTION"
           t == "CONNECTING"
           w == "NEW"
<1>4. Emit(p, <<To(clients[c].sock, r)>>)
  BY <1>2 DEF RefuseConnection, Reader
<1>5. UNCHANGED <<clients, nb_clients, rooms, nb_rooms, fd>>
  BY DEF RefuseConnection
<1>6. Moves(a, r, t) /\ AtRest(w, t) /\ a \in States /\ t \in States
  BY RequestTypes DEF Moves, AtRest
<1> HIDE DEF r, t, w
<1>7. \A x : Allowed(m, x) => x = w
  BY <1>3 DEF w
<1> HIDE DEF a
<1>8. WaitsIn(m, a)
  BY <1>3 DEF a
<1>9. QED
  BY <1>1, <1>2, <1>3, <1>4, <1>5, <1>6, <1>7, <1>8, Refusing

LEMMA RefuseJoinRoomHolds ==
  ASSUME TalkInv, UNCHANGED clientVars, NEW c, RefuseJoinRoom(c), status' = "up"
  PROVE  Holding'
<1>1. status = "up" /\ \E p, m, v : Reader(c, p, m, v) /\ m.type = "JOIN_ROOM"
  BY Reading DEF RefuseJoinRoom
<1>2. PICK p, m, v : Reader(c, p, m, v) /\ m.type = "JOIN_ROOM"
  BY <1>1
<1>3. /\ IsRequest(m) /\ WaitsIn(m, "WAITING_JOIN_ROOM_RESPONSE")
      /\ \A x : Allowed(m, x) => x = "FREE"
  BY <1>2, JoiningRoom
<1> DEFINE r == [type |-> "JOIN_ROOM_REFUSED"]
           a == "WAITING_JOIN_ROOM_RESPONSE"
           t == "CONNECTED"
           w == "FREE"
<1>4. Emit(p, <<To(clients[c].sock, r)>>)
  BY <1>2 DEF RefuseJoinRoom, Reader
<1>5. UNCHANGED <<clients, nb_clients, rooms, nb_rooms, fd>>
  BY DEF RefuseJoinRoom
<1>6. Moves(a, r, t) /\ AtRest(w, t) /\ a \in States /\ t \in States
  BY RequestTypes DEF Moves, AtRest
<1> HIDE DEF r, t, w
<1>7. \A x : Allowed(m, x) => x = w
  BY <1>3 DEF w
<1> HIDE DEF a
<1>8. WaitsIn(m, a)
  BY <1>3 DEF a
<1>9. QED
  BY <1>1, <1>2, <1>3, <1>4, <1>5, <1>6, <1>7, <1>8, Refusing

LEMMA NotInUse ==
  ASSUME TalkInv, status = "up", NEW name, ~NameInUse(name), NEW c \in Connected,
         clients[c].name = Unnamed
  PROVE  name # Unnamed /\ \A q \in Proc : names[q] # name
<1>1. KnownInv
  BY Known DEF TalkInv
<1>2. \A d \in Connected : clients[d].name # name
  BY DEF NameInUse
<1>3. ASSUME NEW q \in Proc PROVE names[q] # name
  BY <1>1, <1>2 DEF KnownInv
<1>4. QED
  BY <1>2, <1>3

LEMMA AcceptConnectionHolds ==
  ASSUME TalkInv, SocketsInv', UNCHANGED clientVars, NEW c, AcceptConnection(c), status' = "up"
  PROVE  Holding'
<1>1. status = "up" /\ \E p, m, v : Reader(c, p, m, v) /\ m.type = "CONNECT"
  BY Reading DEF AcceptConnection
<1>2. PICK p, m, v : Reader(c, p, m, v) /\ m.type = "CONNECT"
  BY <1>1
<1>3. /\ IsRequest(m) /\ WaitsIn(m, "WAITING_CONNECTION")
      /\ \A x : Allowed(m, x) => x = "NEW" /\ m.name \in AllNames
  BY <1>2, Connecting
<1> DEFINE r == [type |-> "CONNECTION_SUCCESSFUL"]
           a == "WAITING_CONNECTION"
           t == "CONNECTED"
           w == "FREE"
<1>4. /\ p \in Proc /\ c \in Connected /\ c \in ClientSlots /\ fd[p] = clients[c].sock
      /\ View(p, v) /\ v = "NEW" /\ m.name \in AllNames /\ names[p] = clients[c].name
      /\ m = Message(c)
  BY <1>2, <1>3 DEF Reader
<1>5. /\ Orderly(rooms, nb_rooms, fd, names, places) /\ Distinct(fd, names)
      /\ RoomArrayInv /\ Tracked /\ SocketsInv
  BY <1>1, Ordered DEF TalkInv, LiveInv
<1>6. names[p] = Unnamed /\ places[p] = 0
  BY <1>4, <1>5, ViewNew DEF View
<1>7. Emit(p, <<To(clients[c].sock, r)>>)
  BY <1>2 DEF AcceptConnection, Reader
<1>8. Moves(a, r, t) /\ AtRest(w, t) /\ a \in States /\ t \in States
  BY RequestTypes DEF Moves, AtRest
<1>9. UNCHANGED <<rooms, nb_rooms, fd>> /\ nb_clients' = nb_clients
  BY DEF AcceptConnection
<1>10. /\ clients'[c].name = m.name /\ clients'[c].sock = clients[c].sock
       /\ \A d \in ClientSlots : d # c => clients'[d] = clients[d]
       /\ ~NameInUse(m.name)
  BY <1>4, <1>5, NameGiven DEF SocketsInv
<1>11. clients'[c].room_id = clients[c].room_id
  BY <1>4, <1>5 DEF SocketsInv, ArrayInv, IsClient, AcceptConnection
<1> HIDE DEF r, a, t, w
<1>12. /\ names'[p] = m.name /\ places'[p] = clients'[c].room_id
       /\ \A q \in Proc : q # p => names'[q] = names[q] /\ places'[q] = places[q]
  BY <1>4, <1>5, <1>9, <1>10, SlotWritten, ConnectedSlots DEF SocketsInv
<1>13. places' = places
  BY <1>2, <1>11, <1>12, SamePlaces DEF Reader
<1>14. m.name # Unnamed /\ \A q \in Proc : names[q] # m.name
  BY <1>1, <1>4, <1>6, <1>10, NotInUse
<1>15. \A i, j : Held(rooms, nb_rooms, i, j) => rooms[i].players[j].name # m.name
  <2>1. SUFFICES ASSUME NEW i, NEW j, Held(rooms, nb_rooms, i, j), rooms[i].players[j].name = m.name
                 PROVE  FALSE
    OBVIOUS
  <2>2. i \in LiveRooms /\ j \in {0, 1} /\ j \in PlayerSeats(rooms[i])
    BY <1>5, <2>1 DEF Held, LiveRooms, PlayerSeats, Orderly, RoomsOrderly, LiveRoom
  <2>3. <<i, j>> \in KeptSeats(m.name)
    BY <2>1, <2>2 DEF KeptSeats
  <2>4. QED
    BY <1>4, <2>3 DEF AcceptConnection
<1>16. /\ Orderly(rooms, nb_rooms, fd, names', places)
       /\ \A q \in Proc : q # p =>
            \A x : HasView(rooms, nb_rooms, fd, names', places, q, x) => View(q, x)
       /\ \A x : HasView(rooms, nb_rooms, fd, names', places, p, x) => x = "FREE"
  BY <1>4, <1>5, <1>6, <1>12, <1>14, <1>15, OrderlyNamed DEF View
<1>17. /\ OrderInv' /\ \A q \in Proc : q # p => \A x : View(q, x)' => View(q, x)
       /\ \A x : View(p, x)' => x = w
  BY <1>9, <1>13, <1>16 DEF OrderInv, View, w
<1>17a. WaitsIn(m, a)
  BY <1>3 DEF a
<1>18. /\ Heeds(p, w) /\ Wired'
       /\ \A q \in Proc : q # p => \A x : TalkOf(q, x) => Heeds(q, x)
  BY <1>1, <1>2, <1>3, <1>5, <1>7, <1>8, <1>17a, Replying
<1>19. Tracked'
  <2>1. \A x : View(p, x)' => Heeds(p, x)
    BY <1>17, <1>18
  <2>2. \A q \in Proc : q # p => \A x : View(q, x)' => Heeds(q, x)
    BY <1>5, <1>17, <1>18 DEF Tracked
  <2>3. QED
    BY <1>4, <2>1, <2>2, Tracking
<1>20. RoomArrayInv'
  BY <1>5, <1>9 DEF RoomArrayInv
<1>21. QED
  BY <1>17, <1>18, <1>19, <1>20 DEF Holding

LEMMA SetBiographyHolds ==
  ASSUME TalkInv, SocketsInv', UNCHANGED clientVars, NEW c, HandleSetBiography(c), status' = "up"
  PROVE  Holding'
<1>1. status = "up" /\ \E p, m, v : Reader(c, p, m, v) /\ m.type = "SET_BIOGRAPHY"
  BY Reading DEF HandleSetBiography
<1>2. PICK p, m, v : Reader(c, p, m, v) /\ m.type = "SET_BIOGRAPHY"
  BY <1>1
<1>3. ~IsRequest(m)
  BY <1>2, Writing
<1>4. /\ p \in Proc /\ c \in Connected /\ c \in ClientSlots /\ fd[p] = clients[c].sock
      /\ names[p] = clients[c].name /\ places[p] = clients[c].room_id
  BY <1>2 DEF Reader
<1>5. /\ Orderly(rooms, nb_rooms, fd, names, places) /\ RoomArrayInv /\ Tracked /\ SocketsInv
  BY <1>1, Ordered DEF TalkInv, LiveInv
<1>6. UNCHANGED <<rooms, nb_rooms, fd>> /\ nb_clients' = nb_clients
  BY DEF HandleSetBiography
<1>7. /\ clients'[c].name = clients[c].name /\ clients'[c].sock = clients[c].sock
      /\ clients'[c].room_id = clients[c].room_id
      /\ \A d \in ClientSlots : d # c => clients'[d] = clients[d]
  BY <1>4, <1>5 DEF SocketsInv, ArrayInv, IsClient, HandleSetBiography
<1>8. /\ names'[p] = names[p] /\ places'[p] = places[p]
      /\ \A q \in Proc : q # p => names'[q] = names[q] /\ places'[q] = places[q]
  BY <1>4, <1>5, <1>6, <1>7, SlotWritten, ConnectedSlots DEF SocketsInv
<1>9. names' = names /\ places' = places
  BY <1>8, SameNames2, SamePlaces
<1>10. RoomArrayInv' /\ OrderInv' /\ \A q \in Proc : \A x : View(q, x)' => View(q, x)
  BY <1>1, <1>6, <1>9, NothingMoves
<1>11. Emit(p, <<>>)
  BY <1>2 DEF HandleSetBiography, Reader
<1>12. Wired' /\ \A q \in Proc : Told(q, p, <<>>)
  BY <1>1, <1>11, Delivered, NoMessages DEF Wired
<1>13. ASSUME NEW x, View(p, x) PROVE Heeds(p, x)
  <2>1. TalkOf(p, x)
    BY <1>4, <1>5, <1>13 DEF Tracked
  <2>2. Reader(c, p, m, x)
    BY <1>2, <1>13, <2>1 DEF Reader
  <2>3. QED
    BY <1>3, <1>4, <1>12, <2>2, Taking
<1>14. ASSUME NEW q \in Proc, q # p, NEW x, View(q, x) PROVE Heeds(q, x)
  BY <1>4, <1>5, <1>12, <1>14, Spared DEF Tracked
<1>15. Tracked'
  BY <1>4, <1>10, <1>13, <1>14, Tracking
<1>16. QED
  BY <1>10, <1>12, <1>15 DEF Holding

(***************************************************************************)
(* The room of somebody who is in one.                                     *)
(***************************************************************************)
LEMMA IndexIs ==
  ASSUME RoomsOrderly(rooms, nb_rooms), NEW i \in 0 .. nb_rooms - 1
  PROVE  RoomFound(rooms[i].id) /\ RoomIndex(rooms[i].id) = i
<1> DEFINE found == {k \in LiveRooms : rooms[k].id = rooms[i].id}
<1>1. RoomFound(rooms[i].id) /\ i \in found
  BY DEF RoomFound, LiveRooms
<1>2. found \in SUBSET Nat
  BY DEF LiveRooms
<1>3. \A k \in found : k = i
  BY DEF RoomsOrderly, LiveRooms
<1>4. RoomIndex(rooms[i].id) = Min(found)
  BY <1>1 DEF RoomIndex
<1> HIDE DEF found
<1>5. Min(found) \in found
  BY <1>1, <1>2, MinOfNaturals
<1>6. QED
  BY <1>1, <1>3, <1>4, <1>5

LEMMA FoundIs ==
  ASSUME RoomsOrderly(rooms, nb_rooms), NEW id, RoomFound(id)
  PROVE  RoomIndex(id) \in 0 .. nb_rooms - 1 /\ rooms[RoomIndex(id)].id = id
<1>1. PICK i \in 0 .. nb_rooms - 1 : rooms[i].id = id
  BY DEF RoomFound, LiveRooms
<1>2. QED
  BY <1>1, IndexIs

HasSeat(q, i, l) == Held(rooms, nb_rooms, i, l) /\ rooms[i].players[l].id = fd[q]

LEMMA HeldView ==
  ASSUME Orderly(rooms, nb_rooms, fd, names, places), Distinct(fd, names),
         NEW q \in Proc, NEW i, NEW l, HasSeat(q, i, l)
  PROVE  /\ View(q, SeatView(rooms[i], l)) /\ \A x : View(q, x) => x = SeatView(rooms[i], l)
         /\ \A k, j : HasSeat(q, k, j) => k = i /\ j = l
<1>1. names[q] # Unnamed /\ places[q] # 0
  BY Seating DEF HasSeat
<1>2. \A k, j : HasSeat(q, k, j) => k = i /\ j = l
  BY OneSeat DEF HasSeat
<1>3. QED
  BY <1>1, <1>2 DEF View, HasView, HasSeat

LEMMA SeatOfReader ==
  ASSUME TalkInv, status = "up", NEW c, NEW p, NEW m, NEW v, Reader(c, p, m, v), v \in Seated
  PROVE  \E i, j : /\ HasSeat(p, i, j) /\ v = SeatView(rooms[i], j)
                   /\ RoomFound(clients[c].room_id) /\ RoomIndex(clients[c].room_id) = i
                   /\ i \in 0 .. nb_rooms - 1 /\ LiveRoom(rooms[i])
<1>1. /\ Orderly(rooms, nb_rooms, fd, names, places) /\ Distinct(fd, names)
      /\ p \in Proc /\ View(p, v) /\ places[p] = clients[c].room_id
  BY Ordered DEF Reader
<1>2. PICK i, j : HasSeat(p, i, j) /\ v = SeatView(rooms[i], j)
  BY <1>1, ViewSeated DEF View, HasSeat
<1>3. places[p] = rooms[i].id
  BY <1>1, <1>2, Seating DEF HasSeat
<1>4. RoomsOrderly(rooms, nb_rooms) /\ i \in 0 .. nb_rooms - 1
  BY <1>1, <1>2 DEF HasSeat, Held, Orderly
<1>5. RoomFound(rooms[i].id) /\ RoomIndex(rooms[i].id) = i /\ LiveRoom(rooms[i])
  BY <1>4, IndexIs DEF RoomsOrderly
<1>6. QED
  BY <1>1, <1>2, <1>3, <1>4, <1>5

(* Who has the move in a room.                                             *)
LEMMA Mover ==
  ASSUME NEW r, LiveRoom(r), NEW j, SeatView(r, j) = "WAITING_PLAY_INPUT"
  PROVE  r.is_started /\ r.turn = j /\ r.nb_players = 2 /\ j \in {0, 1}
BY DEF LiveRoom, SeatView

LEMMA SideIs ==
  ASSUME Orderly(rooms, nb_rooms, fd, names, places), Distinct(fd, names),
         NEW p \in Proc, NEW i, NEW j, HasSeat(p, i, j)
  PROVE  PlayerSide(rooms[i], fd[p]) = j
<1>1. CASE j = 0
  BY <1>1 DEF PlayerSide, HasSeat
<1>2. CASE j = 1
  <2>1. rooms[i].players[0].id # fd[p]
    <3>1. SUFFICES ASSUME rooms[i].players[0].id = fd[p] PROVE FALSE
      OBVIOUS
    <3>2. HasSeat(p, i, 0)
      BY <1>2, <3>1 DEF HasSeat, Held, Orderly, RoomsOrderly, LiveRoom
    <3>3. QED
      BY <1>2, <3>2, HeldView
  <2>2. QED
    BY <1>2, <2>1 DEF PlayerSide
<1>3. QED
  BY <1>1, <1>2 DEF HasSeat, Held

LEMMA RejectPlayHolds ==
  ASSUME TalkInv, UNCHANGED clientVars, NEW c, RejectPlay(c), status' = "up"
  PROVE  Holding'
<1>1. status = "up" /\ \E p, m, v : Reader(c, p, m, v) /\ m.type = "PLAY"
  BY Reading DEF RejectPlay
<1>2. PICK p, m, v : Reader(c, p, m, v) /\ m.type = "PLAY"
  BY <1>1
<1>3. /\ IsRequest(m) /\ WaitsIn(m, "WAITING_PLAY_ACK")
      /\ \A x : Allowed(m, x) => x = "WAITING_PLAY_INPUT"
  BY <1>2, PlayingMove
<1> DEFINE r == [type |-> "INVALID_PLAY"]
           a == "WAITING_PLAY_ACK"
           t == "WAITING_PLAY_INPUT"
<1>4. /\ Orderly(rooms, nb_rooms, fd, names, places) /\ Distinct(fd, names)
      /\ p \in Proc /\ fd[p] = clients[c].sock /\ p = Process(c) /\ v = t
  BY <1>1, <1>2, <1>3, Ordered DEF Reader
<1>5. v \in Seated
  BY <1>4 DEF Seated, Playing
<1>6. PICK i, j : HasSeat(p, i, j) /\ RoomIndex(clients[c].room_id) = i
  BY <1>1, <1>2, <1>5, SeatOfReader
<1>7. PlayerSide(rooms[i], clients[c].sock) = j
  BY <1>4, <1>6, SideIs
<1>8. Emit(p, <<To(clients[c].sock, r)>>)
  BY <1>4, <1>6, <1>7 DEF RejectPlay, HasSeat
<1>9. UNCHANGED <<clients, nb_clients, rooms, nb_rooms, fd>>
  BY DEF RejectPlay
<1>10. Moves(a, r, t) /\ AtRest(t, t) /\ a \in States /\ t \in States
  BY RequestTypes DEF Moves, AtRest, Seated, Playing
<1> HIDE DEF r, t
<1>11. \A x : Allowed(m, x) => x = t
  BY <1>3 DEF t
<1> HIDE DEF a
<1>12. WaitsIn(m, a)
  BY <1>3 DEF a
<1>13. QED
  BY <1>1, <1>2, <1>3, <1>8, <1>9, <1>10, <1>11, <1>12, Refusing

(***************************************************************************)
(* Writing to a room.                                                      *)
(***************************************************************************)
SameRoomBut(r, r2) ==
  /\ r2.id = r.id /\ r2.nb_players = r.nb_players /\ r2.nb_spectators = r.nb_spectators
  /\ r2.is_started = r.is_started

LEMMA TurnSet ==
  ASSUME NEW r, IsRoom(r), NEW x, NEW r2, r2 = [r EXCEPT !.turn = x]
  PROVE  IsRoom(r2) /\ r2.turn = x /\ r2.players = r.players /\ SameRoomBut(r, r2)
<1>1. r2 = [id |-> r.id, nb_players |-> r.nb_players, nb_spectators |-> r.nb_spectators,
            players |-> r.players, is_started |-> r.is_started, turn |-> x]
  BY DEF IsRoom
<1>2. r2.turn = x /\ r2.players = r.players /\ SameRoomBut(r, r2)
  BY <1>1 DEF SameRoomBut
<1>3. QED
  BY <1>1, <1>2 DEF IsRoom, SameRoomBut

Reseated(r, r2, k, x) ==
  /\ IsRoom(r2) /\ r2.turn = r.turn /\ SameRoomBut(r, r2)
  /\ r2.players[k].id = x /\ r2.players[k].name = r.players[k].name
  /\ r2.players[k].client_index = r.players[k].client_index
  /\ \A j \in Seats : j # k => r2.players[j] = r.players[j]

LEMMA SeatIdSet ==
  ASSUME NEW r, IsRoom(r), NEW k \in Seats, NEW x, NEW r2, r2 = [r EXCEPT !.players[k].id = x]
  PROVE  Reseated(r, r2, k, x)
<1> DEFINE s == [r.players[k] EXCEPT !.id = x]
           t == [r.players EXCEPT ![k] = s]
<1>1. r.players = [j \in Seats |-> r.players[j]] /\ IsSeat(r.players[k])
  BY DEF IsRoom
<1>2. s = [id |-> x, name |-> r.players[k].name, client_index |-> r.players[k].client_index]
  BY <1>1 DEF IsSeat
<1>3. /\ IsSeat(s) /\ s.id = x /\ s.name = r.players[k].name
      /\ s.client_index = r.players[k].client_index
  BY <1>2 DEF IsSeat
<1>4. r2 = [r EXCEPT !.players = t]
  OBVIOUS
<1> HIDE DEF s
<1>5. t[k] = s /\ t = [j \in Seats |-> t[j]] /\ \A j \in Seats : j # k => t[j] = r.players[j]
  BY <1>1
<1> HIDE DEF t
<1>6. r2 = [id |-> r.id, nb_players |-> r.nb_players, nb_spectators |-> r.nb_spectators,
            players |-> t, is_started |-> r.is_started, turn |-> r.turn]
  BY <1>4 DEF IsRoom
<1>7. r2.players = t /\ r2.turn = r.turn /\ SameRoomBut(r, r2)
  BY <1>6 DEF SameRoomBut
<1>8. \A j \in Seats : IsSeat(t[j])
  BY <1>3, <1>5 DEF IsRoom
<1>9. IsRoom(r2)
  BY <1>5, <1>6, <1>7, <1>8 DEF IsRoom, SameRoomBut
<1>10. QED
  BY <1>3, <1>5, <1>7, <1>9 DEF Reseated

(* One room of the array is written.                                       *)
LEMMA RoomWritten ==
  ASSUME RoomArrayInv, NEW i \in RoomSlots, NEW r2, IsRoom(r2),
         rooms' = [rooms EXCEPT ![i] = r2], nb_rooms' \in 0 .. MAX_ROOMS
  PROVE  /\ RoomArrayInv' /\ rooms'[i] = r2
         /\ \A k \in RoomSlots : k # i => rooms'[k] = rooms[k]
BY DEF RoomArrayInv

LEMMA LiveSlots ==
  ASSUME RoomArrayInv
  PROVE  /\ nb_rooms \in Nat /\ MAX_ROOMS \in Nat /\ nb_rooms <= MAX_ROOMS
         /\ RoomSlots = 0 .. MAX_ROOMS - 1
         /\ \A i \in 0 .. nb_rooms - 1 : i \in RoomSlots
BY ServerAssumption DEF RoomArrayInv, RoomSlots

LEMMA PlayersHaveSeats == 0 \in Seats /\ 1 \in Seats
BY ServerAssumption DEF Seats

(***************************************************************************)
(* What is written to both players of a room.                              *)
(***************************************************************************)
ToBoth(out, room, a, b) ==
  Len(out) = 2 /\ out[1] = To(room.players[0].id, a) /\ out[2] = To(room.players[1].id, b)

TellsSeats(out, i, q, a, b) ==
  /\ HasSeat(q, i, 0) => MessagesTo(q, out) = <<a>>
  /\ HasSeat(q, i, 1) => MessagesTo(q, out) = <<b>>
  /\ ~HasSeat(q, i, 0) /\ ~HasSeat(q, i, 1) => MessagesTo(q, out) = <<>>

LEMMA TwoTold ==
  ASSUME Orderly(rooms, nb_rooms, fd, names, places), Distinct(fd, names),
         NEW i \in 0 .. nb_rooms - 1, rooms[i].nb_players = 2, NEW q \in Proc,
         NEW out, NEW a, NEW b, ToBoth(out, rooms[i], a, b)
  PROVE  TellsSeats(out, i, q, a, b)
<1>1. MessagesTo(q, out) = MessageTo(q, out[1]) \o MessageTo(q, out[2])
  BY TwoMessages DEF ToBoth
<1> USE DEF ToBoth, TellsSeats
<1>2. \A l \in {0, 1} : HasSeat(q, i, l) <=> rooms[i].players[l].id = fd[q]
  BY DEF HasSeat, Held
<1>3. CASE HasSeat(q, i, 0)
  <2>1. fd[q] # 0 /\ ~HasSeat(q, i, 1)
    BY <1>3, HeldView, Seating DEF HasSeat
  <2>2. MessageTo(q, out[1]) = <<a>>
    BY <1>2, <1>3, <2>1, Addressed
  <2>3. MessageTo(q, out[2]) = <<>>
    BY <1>2, <2>1, Addressed
  <2>4. QED
    BY <1>1, <1>3, <2>1, <2>2, <2>3
<1>4. CASE ~HasSeat(q, i, 0) /\ HasSeat(q, i, 1)
  <2>1. fd[q] # 0
    BY <1>4, Seating DEF HasSeat
  <2>2. MessageTo(q, out[1]) = <<>>
    BY <1>2, <1>4, Addressed
  <2>3. MessageTo(q, out[2]) = <<b>>
    BY <1>2, <1>4, <2>1, Addressed
  <2>4. QED
    BY <1>1, <1>4, <2>2, <2>3
<1>5. CASE ~HasSeat(q, i, 0) /\ ~HasSeat(q, i, 1)
  <2>1. MessageTo(q, out[1]) = <<>> /\ MessageTo(q, out[2]) = <<>>
    BY <1>2, <1>5, Addressed
  <2>2. QED
    BY <1>1, <1>5, <2>1
<1>6. QED
  BY <1>3, <1>4, <1>5

LEMMA PlayedToBoth ==
  ASSUME NEW room, room.nb_players = 2, room.nb_spectators = 0
  PROVE  ToBoth(PlayedToAll(room), room, [type |-> "PLAYED"], [type |-> "PLAYED"])
<1> DEFINE m == [type |-> "PLAYED"]
           f == [k \in 1 .. 2 |-> To(room.players[k - 1].id, m)]
           g == [k \in 1 .. 0 |-> To(room.players[2 + k - 1].id, m)]
           S == {To(room.players[0].id, m), To(room.players[1].id, m)}
<1>1. ToSeats(room, 0, room.nb_players - 1, Played) = f
  BY DEF ToSeats, Played
<1>2. ToSeats(room, 2, room.nb_spectators + 1, Played) = g
  BY DEF ToSeats, Played
<1> HIDE DEF m
<1>3. f \in [1 .. 2 -> S] /\ f[1] = To(room.players[0].id, m) /\ f[2] = To(room.players[1].id, m)
  OBVIOUS
<1>4. g \in [1 .. 0 -> S]
  OBVIOUS
<1> HIDE DEF f, g, S
<1>5. f \in Seq(S) /\ Len(f) = 2 /\ g \in Seq(S) /\ Len(g) = 0
  BY <1>3, <1>4, RangeIsSequence
<1>6. Len(f \o g) = 2 /\ (f \o g)[1] = f[1] /\ (f \o g)[2] = f[2]
  <2>1. Len(f \o g) = 2
    BY <1>5
  <2>2. 1 \in 1 .. Len(f) /\ 2 \in 1 .. Len(f)
    BY <1>5
  <2>3. \A k \in 1 .. Len(f) : (f \o g)[k] = f[k]
    BY <1>5, JoinLeft
  <2>4. (f \o g)[1] = f[1] /\ (f \o g)[2] = f[2]
    BY <2>2, <2>3
  <2>5. QED
    BY <2>1, <2>4
<1>7. PlayedToAll(room) = f \o g
  BY <1>1, <1>2 DEF PlayedToAll
<1>8. QED
  BY <1>3, <1>6, <1>7 DEF m, ToBoth

(***************************************************************************)
(* A move is made.                                                         *)
(***************************************************************************)
(* The turn of room i has changed, and nothing else.                       *)
Turned(i) ==
  /\ RoomArrayInv' /\ RoomsOrderly(rooms', nb_rooms) /\ SameNames(rooms, nb_rooms, rooms')
  /\ SameIds(rooms, nb_rooms, rooms')
  /\ rooms'[i].turn = 1 - rooms[i].turn /\ rooms'[i].is_started
  /\ \A k \in 0 .. nb_rooms - 1 : k # i => rooms'[k] = rooms[k]

LEMMA RoomTurned ==
  ASSUME RoomArrayInv, Orderly(rooms, nb_rooms, fd, names, places),
         NEW i \in 0 .. nb_rooms - 1, rooms' = [rooms EXCEPT ![i].turn = 1 - @],
         rooms[i].is_started, nb_rooms' = nb_rooms
  PROVE  Turned(i)
<1>1. i \in RoomSlots /\ IsRoom(rooms[i]) /\ LiveRoom(rooms[i])
  BY LiveSlots DEF RoomArrayInv, Orderly, RoomsOrderly
<1>2. PICK r2 : r2 = [rooms[i] EXCEPT !.turn = 1 - rooms[i].turn]
  OBVIOUS
<1>3. /\ IsRoom(r2) /\ r2.turn = 1 - rooms[i].turn /\ r2.players = rooms[i].players
      /\ SameRoomBut(rooms[i], r2)
  BY <1>1, <1>2, TurnSet
<1>4. rooms' = [rooms EXCEPT ![i] = r2]
  BY <1>2
<1>5. /\ RoomArrayInv' /\ rooms'[i] = r2 /\ \A k \in RoomSlots : k # i => rooms'[k] = rooms[k]
  BY <1>1, <1>3, <1>4, RoomWritten DEF RoomArrayInv
<1>6. \A k \in 0 .. nb_rooms - 1 : k # i => rooms'[k] = rooms[k]
  BY <1>5, LiveSlots
<1>7. LiveRoom(r2)
  BY <1>1, <1>3 DEF LiveRoom, SameRoomBut
<1>8. \A k \in 0 .. nb_rooms - 1 : rooms'[k].id = rooms[k].id /\ LiveRoom(rooms'[k])
  BY <1>3, <1>5, <1>6, <1>7 DEF Orderly, RoomsOrderly, SameRoomBut
<1>9. RoomsOrderly(rooms', nb_rooms)
  BY <1>8 DEF Orderly, RoomsOrderly
<1>10. \A k \in 0 .. nb_rooms - 1 : /\ rooms'[k].players = rooms[k].players
                                   /\ rooms'[k].nb_players = rooms[k].nb_players
  BY <1>3, <1>5, <1>6 DEF SameRoomBut
<1>11. SameNames(rooms, nb_rooms, rooms')
  BY <1>8, <1>10 DEF SameNames, Held
<1>12. SameIds(rooms, nb_rooms, rooms')
  BY <1>10 DEF Held, SameIds
<1>13. QED
  BY <1>1, <1>3, <1>5, <1>6, <1>9, <1>11, <1>12 DEF SameRoomBut, Turned

LEMMA ValidPlayHolds ==
  ASSUME TalkInv, UNCHANGED clientVars, NEW c, ValidPlay(c), status' = "up"
  PROVE  Holding'
<1>1. status = "up" /\ \E p, m, v : Reader(c, p, m, v) /\ m.type = "PLAY"
  BY Reading DEF ValidPlay
<1>2. PICK p, m, v : Reader(c, p, m, v) /\ m.type = "PLAY"
  BY <1>1
<1>3. /\ IsRequest(m) /\ WaitsIn(m, "WAITING_PLAY_ACK")
      /\ \A x : Allowed(m, x) => x = "WAITING_PLAY_INPUT"
  BY <1>2, PlayingMove
<1> DEFINE r == [type |-> "PLAYED"]
           mine == "WAITING_PLAY_INPUT"
           yours == "IN_GAME"
           ack == "WAITING_PLAY_ACK"
<1>4. /\ Orderly(rooms, nb_rooms, fd, names, places) /\ Distinct(fd, names)
      /\ RoomArrayInv /\ SocketsInv /\ Tracked
      /\ p \in Proc /\ fd[p] = clients[c].sock /\ fd[p] # 0 /\ p = Process(c) /\ v = mine
  BY <1>1, <1>2, <1>3, Ordered DEF Reader, TalkInv, LiveInv
<1>5. v \in Seated
  BY <1>4 DEF Seated, Playing
<1>6. PICK i, j : /\ HasSeat(p, i, j) /\ v = SeatView(rooms[i], j)
                  /\ RoomIndex(clients[c].room_id) = i
                  /\ i \in 0 .. nb_rooms - 1 /\ LiveRoom(rooms[i])
  BY <1>1, <1>2, <1>5, SeatOfReader
<1>7. /\ rooms[i].is_started /\ rooms[i].turn = j /\ rooms[i].nb_players = 2 /\ j \in {0, 1}
      /\ rooms[i].nb_spectators = 0
  BY <1>4, <1>6, Mover DEF LiveRoom
<1>8. /\ rooms' = [rooms EXCEPT ![i].turn = 1 - @] /\ Emit(p, PlayedToAll(rooms[i]))
      /\ UNCHANGED <<clients, nb_clients, nb_rooms, fd>>
  BY <1>4, <1>6 DEF ValidPlay
<1>9. names' = names /\ places' = places
  BY <1>8, SlotsKept
<1>10. /\ RoomArrayInv' /\ RoomsOrderly(rooms', nb_rooms) /\ SameNames(rooms, nb_rooms, rooms')
       /\ SameIds(rooms, nb_rooms, rooms')
       /\ rooms'[i].turn = 1 - j /\ rooms'[i].is_started
       /\ \A k \in 0 .. nb_rooms - 1 : k # i => rooms'[k] = rooms[k]
  <2>1. /\ RoomArrayInv /\ Orderly(rooms, nb_rooms, fd, names, places)
        /\ i \in 0 .. nb_rooms - 1 /\ rooms' = [rooms EXCEPT ![i].turn = 1 - @]
        /\ rooms[i].is_started /\ nb_rooms' = nb_rooms
    BY <1>4, <1>6, <1>7, <1>8
  <2>2. Turned(i)
    BY <2>1, RoomTurned
  <2>3. QED
    BY <1>7, <2>2 DEF Turned
<1>11. Remains(rooms, nb_rooms, fd, names, places, rooms')
  BY <1>4, <1>10, OrderlyTurned
<1>12. /\ OrderInv'
       /\ \A q \in Proc : \A x : View(q, x)' =>
            Keeps(rooms, nb_rooms, fd, names, places, rooms', q, x)
  BY <1>8, <1>9, <1>11 DEF OrderInv, View, Remains
<1>13. PICK out : out = PlayedToAll(rooms[i])
  OBVIOUS
<1>14. ToBoth(out, rooms[i], r, r)
  BY <1>7, <1>13, PlayedToBoth
<1>15. Wired' /\ \A q \in Proc : Told(q, p, MessagesTo(q, out))
  BY <1>1, <1>8, <1>13, Delivered DEF Wired
<1>16. /\ Moves(ack, r, yours) /\ AtRest(yours, yours) /\ Tells(yours, r, mine)
       /\ ack \in States /\ yours \in States /\ yours \in Seated
  BY RequestTypes DEF Moves, AtRest, Seated, Playing, Tells
<1>17. \A k : /\ rooms[i].turn # k => SeatView(rooms[i], k) = yours
              /\ rooms'[i].turn # k => SeatView(rooms'[i], k) = yours
              /\ rooms'[i].turn = k => SeatView(rooms'[i], k) = mine
  BY <1>7, <1>10 DEF SeatView
<1>18. "NEW" \notin Seated /\ "FREE" \notin Seated
  BY DEF Seated, Playing
<1> HIDE DEF r, mine, yours
<1>18a. \A q \in Proc : TellsSeats(out, i, q, r, r)
  BY <1>4, <1>6, <1>7, <1>14, TwoTold
<1>19. \A q \in Proc : \A l \in {0, 1} : HasSeat(q, i, l) => MessagesTo(q, out) = <<r>>
  BY <1>18a DEF TellsSeats
<1>20. \A q \in Proc : ~HasSeat(q, i, 0) /\ ~HasSeat(q, i, 1) => MessagesTo(q, out) = <<>>
  BY <1>18a DEF TellsSeats
<1>21. ASSUME NEW q \in Proc, NEW k, NEW l, HasSeat(q, k, l), NEW x,
              Keeps(rooms, nb_rooms, fd, names, places, rooms', q, x)
       PROVE  x = SeatView(rooms'[k], l)
  <2>1. /\ \A y : View(q, y) => y = SeatView(rooms[k], l)
        /\ \A g, h : HasSeat(q, g, h) => g = k /\ h = l
    BY <1>4, <1>21, HeldView
  <2>2. ~(View(q, x) /\ (x = "NEW" \/ x = "FREE"))
    BY <1>18, <2>1, SeatViews
  <2>3. QED
    BY <1>21, <2>1, <2>2 DEF Keeps, HasSeat, View
<1>22. ASSUME NEW x, View(p, x)' PROVE Heeds(p, x)
  <2>1. x = SeatView(rooms'[i], j)
    BY <1>4, <1>6, <1>12, <1>21, <1>22
  <2>2. x = yours
    BY <1>7, <1>10, <1>17, <2>1
  <2>3. Told(p, p, <<r>>)
    BY <1>4, <1>6, <1>7, <1>15, <1>19
  <2>4. Leads(ack, <<r>>, yours)
    BY <1>16, LeadsStraight
  <2>5. QED
    BY <1>2, <1>3, <1>16, <2>2, <2>3, <2>4, Answering
<1>23. ASSUME NEW q \in Proc, q # p, NEW x, View(q, x)' PROVE Heeds(q, x)
  <2>1. Keeps(rooms, nb_rooms, fd, names, places, rooms', q, x)
    BY <1>12, <1>23
  <2>2. CASE \E l : HasSeat(q, i, l)
    <3>1. PICK l : HasSeat(q, i, l)
      BY <2>2
    <3>2. l \in {0, 1} /\ l # j
      BY <1>4, <1>6, <1>23, <3>1 DEF HasSeat, Held, Distinct
    <3>3. x = SeatView(rooms'[i], l)
      BY <1>21, <2>1, <3>1
    <3>4. l = 1 - j
      BY <1>7, <3>2
    <3>5. x = mine
      BY <1>10, <1>17, <3>3, <3>4
    <3>6. View(q, yours)
      BY <1>4, <1>7, <1>17, <3>1, <3>2, HeldView
    <3>7. TalkOf(q, yours) /\ Told(q, p, <<r>>)
      BY <1>4, <1>15, <1>19, <3>1, <3>2, <3>6 DEF Tracked
    <3>8. QED
      BY <1>4, <1>16, <1>23, <3>5, <3>7, Telling
  <2>3. CASE ~\E l : HasSeat(q, i, l)
    <3>1. Told(q, p, <<>>)
      BY <1>15, <1>20, <2>3
    <3>2. View(q, x)
      <4>1. CASE View(q, x) /\ (x = "NEW" \/ x = "FREE")
        BY <4>1
      <4>2. ASSUME NEW k, NEW l, HasSeat(q, k, l), x = SeatView(rooms'[k], l) PROVE View(q, x)
        <5>1. k # i /\ k \in 0 .. nb_rooms - 1
          BY <2>3, <4>2 DEF HasSeat, Held
        <5>2. rooms'[k] = rooms[k]
          BY <1>10, <5>1
        <5>3. QED
          BY <1>4, <4>2, <5>2, HeldView
      <4>3. QED
        BY <2>1, <4>1, <4>2 DEF Keeps, View, HasSeat
    <3>3. QED
      BY <1>4, <1>23, <3>1, <3>2, Spared DEF Tracked
  <2>4. QED
    BY <2>2, <2>3
<1>24. Tracked'
  BY <1>4, <1>22, <1>23, Tracking
<1>25. QED
  BY <1>10, <1>12, <1>15, <1>24 DEF Holding

(***************************************************************************)
(* A message to the others in a room.                                      *)
(***************************************************************************)
Entry(room, l, sock, m) ==
  To(IF room.players[l].id = sock THEN -1 ELSE room.players[l].id, m)

ToTheOthers(out, room, sock, m) ==
  /\ IsSequence(out) /\ Len(out) = room.nb_players
  /\ \A k \in 1 .. room.nb_players : out[k] = Entry(room, k - 1, sock, m)

Said(c, room) ==
  LET Text(j) == [type |-> "MESSAGE", from |-> clients[c].name]
  IN  ToSeats(room, 0, room.nb_players - 1, Text) \o ToSeats(room, 2, room.nb_spectators + 1, Text)

LEMMA SaidToAll ==
  ASSUME NEW c, NEW room, LiveRoom(room), NEW sock
  PROVE  ToTheOthers(ToOthers(Said(c, room), sock), room, sock,
                     [type |-> "MESSAGE", from |-> clients[c].name])
<1> DEFINE m == [type |-> "MESSAGE", from |-> clients[c].name]
           Text(j) == m
           n == room.nb_players
           f == [k \in 1 .. n |-> To(room.players[k - 1].id, m)]
           g == [k \in 1 .. 0 |-> To(room.players[2 + k - 1].id, m)]
           S == {f[k] : k \in 1 .. n}
<1>1. n \in Nat /\ room.nb_spectators = 0
  BY DEF LiveRoom
<1>2. ToSeats(room, 0, n - 1, Text) = f
  <2>1. (n - 1) - 0 + 1 = n /\ \A k \in 1 .. n : 0 + k - 1 = k - 1
    BY <1>1
  <2>2. ToSeats(room, 0, n - 1, Text) =
          [k \in 1 .. (n - 1) - 0 + 1 |-> To(room.players[0 + k - 1].id, m)]
    BY DEF ToSeats
  <2> HIDE DEF m, n
  <2>3. QED
    BY <2>1, <2>2
<1>3. ToSeats(room, 2, room.nb_spectators + 1, Text) = g
  BY <1>1 DEF ToSeats
<1>4. Said(c, room) = f \o g
  BY <1>2, <1>3 DEF Said
<1> HIDE DEF m, n
<1>5. f \in [1 .. n -> S]
  OBVIOUS
<1>6. g \in [1 .. 0 -> S]
  OBVIOUS
<1>6a. \A k \in 1 .. n : f[k] = To(room.players[k - 1].id, m)
  OBVIOUS
<1> HIDE DEF f, g, S
<1>7. f \in Seq(S) /\ Len(f) = n /\ g \in Seq(S) /\ Len(g) = 0
  BY <1>1, <1>5, <1>6, RangeIsSequence
<1>8. PICK all : all = f \o g
  OBVIOUS
<1>9. all \in Seq(S) /\ Len(all) = n
  BY <1>1, <1>7, <1>8
<1>10. \A k \in 1 .. n : all[k] = f[k]
  BY <1>7, <1>8, JoinLeft
<1>11. PICK out : out = ToOthers(all, sock)
  OBVIOUS
<1>12. out = [k \in 1 .. n |-> IF all[k].to = sock THEN To(-1, all[k].msg) ELSE all[k]]
  BY <1>9, <1>11 DEF ToOthers
<1>13. Len(out) = n /\ IsSequence(out)
  <2> DEFINE T == {out[k] : k \in 1 .. n}
  <2>1. out \in [1 .. n -> T]
    BY <1>12
  <2> HIDE DEF T
  <2>2. Len(out) = n /\ out \in Seq(T)
    BY <1>1, <2>1, RangeIsSequence
  <2>3. QED
    BY <2>2 DEF IsSequence
<1>14. ASSUME NEW k \in 1 .. n PROVE out[k] = Entry(room, k - 1, sock, m)
  <2>1. all[k] = To(room.players[k - 1].id, m)
    BY <1>6a, <1>10
  <2>2. PICK x : x = room.players[k - 1].id
    OBVIOUS
  <2>3. all[k].to = x /\ all[k].msg = m /\ all[k] = To(x, m)
    BY <2>1, <2>2 DEF To
  <2>4. out[k] = IF x = sock THEN To(-1, m) ELSE To(x, m)
    BY <1>12, <2>3
  <2>5. QED
    BY <2>2, <2>4 DEF Entry
<1>15. ToTheOthers(out, room, sock, m)
  BY <1>13, <1>14 DEF ToTheOthers, n
<1>16. QED
  BY <1>4, <1>8, <1>11, <1>15 DEF m

LEMMA EntryTold ==
  ASSUME Orderly(rooms, nb_rooms, fd, names, places), Distinct(fd, names),
         NEW p \in Proc, fd[p] # 0, NEW q \in Proc, NEW m, NEW i, NEW l, Held(rooms, nb_rooms, i, l)
  PROVE  MessageTo(q, Entry(rooms[i], l, fd[p], m)) =
           IF HasSeat(q, i, l) /\ q # p THEN <<m>> ELSE <<>>
<1> DEFINE x == rooms[i].players[l].id
           y == IF x = fd[p] THEN -1 ELSE x
<1>0. Entry(rooms[i], l, fd[p], m) = To(y, m)
  BY DEF Entry
<1>1. fd[q] # -1 /\ (q # p /\ fd[q] # 0 => fd[q] # fd[p])
  BY DEF Distinct
<1>2. HasSeat(q, i, l) <=> x = fd[q]
  BY DEF HasSeat
<1>3. CASE HasSeat(q, i, l) /\ q # p
  <2>1. fd[q] # 0
    BY <1>3, Seating DEF HasSeat
  <2>2. y = fd[q]
    BY <1>1, <1>2, <1>3, <2>1
  <2>3. QED
    BY <1>0, <1>3, <2>1, <2>2, Addressed
<1>4. CASE ~(HasSeat(q, i, l) /\ q # p)
  <2>1. y # fd[q]
    BY <1>1, <1>2, <1>4
  <2>2. QED
    BY <1>0, <1>4, <2>1, Addressed
<1>5. QED
  BY <1>3, <1>4

LEMMA JoinNothing ==
  ASSUME NEW m PROVE <<m>> \o <<>> = <<m>> /\ <<>> \o <<m>> = <<m>>
OBVIOUS

(* Everybody else in the room is told, and nobody is who is not in it.     *)
TellsOthers(out, i, p, q, m) ==
  /\ q # p /\ (\E l : HasSeat(q, i, l)) => MessagesTo(q, out) = <<m>>
  /\ q = p \/ ~(\E l : HasSeat(q, i, l)) => MessagesTo(q, out) = <<>>

LEMMA OthersTold ==
  ASSUME Orderly(rooms, nb_rooms, fd, names, places), Distinct(fd, names),
         NEW p \in Proc, fd[p] # 0, NEW q \in Proc, NEW m, NEW out, NEW i \in 0 .. nb_rooms - 1,
         ToTheOthers(out, rooms[i], fd[p], m)
  PROVE  TellsOthers(out, i, p, q, m)
<1>1. rooms[i].nb_players \in {1, 2}
  BY DEF Orderly, RoomsOrderly, LiveRoom
<1> DEFINE At(l) == MessageTo(q, Entry(rooms[i], l, fd[p], m))
<1>2. \A l : Held(rooms, nb_rooms, i, l) =>
        At(l) = IF HasSeat(q, i, l) /\ q # p THEN <<m>> ELSE <<>>
  BY EntryTold
<1> HIDE DEF At
<1>3. \A l : HasSeat(q, i, l) => Held(rooms, nb_rooms, i, l)
  BY DEF HasSeat
<1>4. CASE rooms[i].nb_players = 1
  <2>1. Len(out) = 1 /\ out[1] = Entry(rooms[i], 0, fd[p], m)
    <3>1. 1 \in 1 .. 1 /\ 1 - 1 = 0
      OBVIOUS
    <3>2. QED
      BY <1>4, <3>1 DEF ToTheOthers
  <2>2. MessagesTo(q, out) = At(0)
    BY <2>1, OneMessage DEF At
  <2>3. \A l : Held(rooms, nb_rooms, i, l) <=> l = 0
    BY <1>4 DEF Held
  <2>4. QED
    BY <1>2, <1>3, <2>2, <2>3 DEF TellsOthers
<1>5. CASE rooms[i].nb_players = 2
  <2>1. /\ Len(out) = 2 /\ out[1] = Entry(rooms[i], 0, fd[p], m)
        /\ out[2] = Entry(rooms[i], 1, fd[p], m)
    <3>1. 1 \in 1 .. 2 /\ 1 - 1 = 0 /\ 2 \in 1 .. 2 /\ 2 - 1 = 1
      OBVIOUS
    <3>2. QED
      BY <1>5, <3>1 DEF ToTheOthers
  <2>2. MessagesTo(q, out) = At(0) \o At(1)
    BY <2>1, TwoMessages DEF At
  <2>3. \A l : Held(rooms, nb_rooms, i, l) <=> l = 0 \/ l = 1
    BY <1>5 DEF Held
  <2>4. ~(HasSeat(q, i, 0) /\ HasSeat(q, i, 1))
    BY HeldView
  <2>5. CASE q # p /\ HasSeat(q, i, 0)
    <3>1. At(0) = <<m>> /\ At(1) = <<>>
      BY <1>2, <2>3, <2>4, <2>5
    <3>2. MessagesTo(q, out) = <<m>>
      BY <2>2, <3>1, JoinNothing
    <3>3. q # p /\ \E l : HasSeat(q, i, l)
      BY <2>5
    <3>4. QED
      BY <3>2, <3>3 DEF TellsOthers
  <2>6. CASE q # p /\ HasSeat(q, i, 1)
    <3>1. At(0) = <<>> /\ At(1) = <<m>>
      BY <1>2, <2>3, <2>4, <2>6
    <3>2. MessagesTo(q, out) = <<m>>
      BY <2>2, <3>1, JoinNothing
    <3>3. q # p /\ \E l : HasSeat(q, i, l)
      BY <2>6
    <3>4. QED
      BY <3>2, <3>3 DEF TellsOthers
  <2>7. CASE q = p \/ ~(\E l : HasSeat(q, i, l))
    <3>1. At(0) = <<>> /\ At(1) = <<>>
      BY <1>2, <2>3, <2>7
    <3>2. QED
      BY <2>2, <2>7, <3>1 DEF TellsOthers
  <2>8. QED
    BY <1>3, <2>3, <2>5, <2>6, <2>7
<1>6. QED
  BY <1>1, <1>4, <1>5

(* What the handler writes, to the room the sender is in.                  *)
SaidBy(c, p, m, v, i, out, r) ==
  /\ Reader(c, p, m, v) /\ v \in Seated /\ m.type = "SEND_MESSAGE"
  /\ status = "up" /\ i \in 0 .. nb_rooms - 1
  /\ \E j : HasSeat(p, i, j)
  /\ Emit(p, out) /\ r.type = "MESSAGE" /\ \A q \in Proc : TellsOthers(out, i, p, q, r)
  /\ ToTheOthers(out, rooms[i], fd[p], r)

LEMMA SayingWrites ==
  ASSUME TalkInv, NEW c, HandleSendMessage(c)
  PROVE  \E p, m, v, i, out, r : SaidBy(c, p, m, v, i, out, r)
<1>1. status = "up" /\ \E p, m, v : Reader(c, p, m, v) /\ m.type = "SEND_MESSAGE"
  BY Reading DEF HandleSendMessage
<1>2. PICK p, m, v : Reader(c, p, m, v) /\ m.type = "SEND_MESSAGE"
  BY <1>1
<1>3. v \in Seated
  BY <1>2, Saying DEF Reader
<1>4. PICK i, j : /\ HasSeat(p, i, j) /\ RoomIndex(clients[c].room_id) = i
                  /\ i \in 0 .. nb_rooms - 1 /\ LiveRoom(rooms[i])
  BY <1>1, <1>2, <1>3, SeatOfReader
<1>5. /\ Orderly(rooms, nb_rooms, fd, names, places) /\ Distinct(fd, names)
      /\ p \in Proc /\ p = Process(c) /\ fd[p] = clients[c].sock /\ fd[p] # 0
  BY <1>1, <1>2, Ordered DEF Reader
<1> DEFINE r == [type |-> "MESSAGE", from |-> clients[c].name]
<1>6. PICK out : out = ToOthers(Said(c, rooms[i]), fd[p])
  OBVIOUS
<1>7. Emit(p, out)
  BY <1>4, <1>5, <1>6 DEF HandleSendMessage, Said
<1>8. ToTheOthers(out, rooms[i], fd[p], r)
  BY <1>4, <1>6, SaidToAll
<1>9. r.type = "MESSAGE"
  OBVIOUS
<1> HIDE DEF r
<1>10. \A q \in Proc : TellsOthers(out, i, p, q, r)
  BY <1>4, <1>5, <1>8, OthersTold
<1>11. QED
  BY <1>1, <1>2, <1>3, <1>4, <1>7, <1>8, <1>9, <1>10 DEF SaidBy

LEMMA SendMessageHolds ==
  ASSUME TalkInv, UNCHANGED clientVars, NEW c, HandleSendMessage(c), status' = "up"
  PROVE  Holding'
<1>0. PICK p, m, v, i, out, r : SaidBy(c, p, m, v, i, out, r)
  BY SayingWrites
<1>1. /\ Reader(c, p, m, v) /\ v \in Seated /\ m.type = "SEND_MESSAGE"
      /\ status = "up" /\ i \in 0 .. nb_rooms - 1
      /\ \E j : HasSeat(p, i, j)
      /\ Emit(p, out) /\ r.type = "MESSAGE" /\ \A q \in Proc : TellsOthers(out, i, p, q, r)
  BY <1>0 DEF SaidBy
<1>2. ~IsRequest(m)
  BY <1>1, Saying
<1>3. /\ Orderly(rooms, nb_rooms, fd, names, places) /\ Distinct(fd, names)
      /\ p \in Proc /\ Tracked
  BY <1>1, Ordered DEF Reader, TalkInv, LiveInv
<1>4. UNCHANGED <<clients, nb_clients, rooms, nb_rooms, fd>>
  BY DEF HandleSendMessage
<1>5. RoomArrayInv' /\ OrderInv' /\ \A q \in Proc : \A x : View(q, x)' => View(q, x)
  BY <1>1, <1>4, NothingMoves, SlotsKept
<1>6. Wired' /\ \A q \in Proc : Told(q, p, MessagesTo(q, out))
  BY <1>1, Delivered DEF Wired
<1>7. ASSUME NEW x, View(p, x) PROVE Heeds(p, x)
  <2>1. TalkOf(p, x)
    BY <1>3, <1>7 DEF Tracked
  <2>2. Reader(c, p, m, x)
    BY <1>1, <1>7, <2>1 DEF Reader
  <2>3. Told(p, p, <<>>)
    BY <1>1, <1>3, <1>6 DEF TellsOthers
  <2>4. QED
    BY <1>2, <2>2, <2>3, Taking
<1>8. ASSUME NEW q \in Proc, q # p, NEW x, View(q, x) PROVE Heeds(q, x)
  <2>1. TalkOf(q, x)
    BY <1>3, <1>8 DEF Tracked
  <2>2. CASE \E l : HasSeat(q, i, l)
    <3>1. x \in Seated
      BY <1>3, <1>8, <2>2, HeldView, SeatViews
    <3>2. Told(q, p, <<r>>)
      BY <1>1, <1>6, <1>8, <2>2 DEF TellsOthers
    <3>3. Tells(x, r, x)
      BY <1>1 DEF Tells
    <3>4. QED
      BY <1>3, <1>8, <2>1, <3>1, <3>2, <3>3, Telling
  <2>3. CASE ~\E l : HasSeat(q, i, l)
    <3>1. Told(q, p, <<>>)
      BY <1>1, <1>6, <2>3 DEF TellsOthers
    <3>2. QED
      BY <1>3, <1>8, <2>1, <3>1, Spared
  <2>4. QED
    BY <2>2, <2>3
<1>9. Tracked'
  BY <1>3, <1>5, <1>7, <1>8, Tracking
<1>10. QED
  BY <1>5, <1>6, <1>9 DEF Holding

(***************************************************************************)
(* A room is opened.                                                       *)
(***************************************************************************)
LEMMA SomeCodeFree ==
  ASSUME SocketsInv, RoomArrayInv
  PROVE  NewCode \in Codes /\ \A i \in RoomSlots : rooms[i].id # NewCode
<1> DEFINE R == {rooms[i].id : i \in RoomSlots}
           C == {clients[c].room_id : c \in Connected}
<1>1. MAX_ROOMS \in Nat /\ RoomSlots = 0 .. MAX_ROOMS - 1
  BY LiveSlots
<1>2. /\ MAX_CLIENTS \in Nat /\ nb_clients \in Nat /\ nb_clients <= MAX_CLIENTS
      /\ Connected = 0 .. nb_clients - 1
  BY Counters DEF SocketsInv
<1>3. IsFiniteSet(RoomSlots) /\ Cardinality(RoomSlots) = MAX_ROOMS
  <2>1. IsFiniteSet(0 .. MAX_ROOMS - 1)
    BY <1>1, FS_Interval
  <2>2. Cardinality(0 .. MAX_ROOMS - 1) = MAX_ROOMS
    BY <1>1, FS_Interval
  <2>3. QED
    BY <1>1, <2>1, <2>2
<1>4. IsFiniteSet(Connected) /\ Cardinality(Connected) = nb_clients
  <2>1. IsFiniteSet(0 .. nb_clients - 1)
    BY <1>2, FS_Interval
  <2>2. Cardinality(0 .. nb_clients - 1) = nb_clients
    BY <1>2, FS_Interval
  <2>3. QED
    BY <1>2, <2>1, <2>2
<1>5. IsFiniteSet(R) /\ Cardinality(R) <= MAX_ROOMS /\ Cardinality(R) \in Nat
  <2> DEFINE g == [i \in RoomSlots |-> rooms[i].id]
  <2>1. g \in Surjection(RoomSlots, R)
    BY DEF Surjection
  <2>2. QED
    BY <1>3, <2>1, FS_Surjection, FS_CardinalityType
<1>6. IsFiniteSet(C) /\ Cardinality(C) <= nb_clients /\ Cardinality(C) \in Nat
  <2> DEFINE g == [c \in Connected |-> clients[c].room_id]
  <2>1. g \in Surjection(Connected, C)
    BY DEF Surjection
  <2>2. QED
    BY <1>4, <2>1, FS_Surjection, FS_CardinalityType
<1>7. UsedCodes = R \cup C
  BY DEF UsedCodes
<1> HIDE DEF R, C
<1>8. /\ IsFiniteSet(R \cup C) /\ Cardinality(R \cup C) \in Nat
      /\ Cardinality(R \cup C) <= MAX_ROOMS + MAX_CLIENTS
  <2>1. IsFiniteSet(R \cup C)
    BY <1>5, <1>6, FS_Union
  <2>2. IsFiniteSet(R \cap C)
    BY <1>5, FS_Intersection
  <2>3. Cardinality(R \cup C) = Cardinality(R) + Cardinality(C) - Cardinality(R \cap C)
    BY <1>5, <1>6, FS_Union
  <2>4. Cardinality(R \cap C) \in Nat /\ Cardinality(R \cup C) \in Nat
    BY <2>1, <2>2, FS_CardinalityType
  <2>5. QED
    BY <1>1, <1>2, <1>5, <1>6, <2>1, <2>3, <2>4
<1>9. Codes \ UsedCodes # {}
  <2>1. SUFFICES ASSUME Codes \subseteq R \cup C PROVE FALSE
    BY <1>7
  <2>2. Cardinality(Codes) \in Nat /\ Cardinality(Codes) > MAX_ROOMS + MAX_CLIENTS
    BY FS_CardinalityType, ServerAssumption
  <2>3. Cardinality(Codes) <= Cardinality(R \cup C)
    BY <1>8, <2>1, FS_Subset
  <2>4. QED
    BY <1>1, <1>2, <1>8, <2>2, <2>3
<1>10. Codes \ UsedCodes \in SUBSET Nat
  BY ServerAssumption
<1>11. NewCode \in Codes \ UsedCodes
  BY <1>9, <1>10, MinOfNaturals DEF NewCode
<1>12. QED
  BY <1>11 DEF UsedCodes

(* The seats of a room and their number are written.                       *)
PlayersAre(r, r2, t, n) ==
  /\ r2 = [id |-> r.id, nb_players |-> n, nb_spectators |-> r.nb_spectators,
           players |-> t, is_started |-> r.is_started, turn |-> r.turn]
  /\ r2.players = t /\ r2.nb_players = n /\ r2.id = r.id
  /\ r2.nb_spectators = r.nb_spectators /\ r2.is_started = r.is_started /\ r2.turn = r.turn

LEMMA PlayersSet ==
  ASSUME NEW r, IsRoom(r), NEW t, NEW n, NEW r2,
         r2 = [[r EXCEPT !.players = t] EXCEPT !.nb_players = n]
  PROVE  PlayersAre(r, r2, t, n)
<1>1. PICK r1 : r1 = [r EXCEPT !.players = t]
  OBVIOUS
<1>2. r1 = [id |-> r.id, nb_players |-> r.nb_players, nb_spectators |-> r.nb_spectators,
            players |-> t, is_started |-> r.is_started, turn |-> r.turn]
  BY <1>1 DEF IsRoom
<1>3. r2 = [id |-> r.id, nb_players |-> n, nb_spectators |-> r.nb_spectators,
            players |-> t, is_started |-> r.is_started, turn |-> r.turn]
  BY <1>1, <1>2
<1>4. /\ r2.players = t /\ r2.nb_players = n /\ r2.id = r.id
      /\ r2.nb_spectators = r.nb_spectators /\ r2.is_started = r.is_started /\ r2.turn = r.turn
  BY <1>3
<1>5. QED
  BY <1>3, <1>4 DEF PlayersAre

(* A player takes the next seat.                                           *)
SeatedIn(r2, j, c) == /\ r2.players[j].id = clients[c].sock /\ r2.players[j].name = clients[c].name
                      /\ r2.players[j].client_index = c

MorePlayers(r, r2, c) ==
  /\ IsRoom(r2) /\ r2.nb_players = r.nb_players + 1 /\ r2.id = r.id
  /\ r2.nb_spectators = r.nb_spectators /\ r2.is_started = r.is_started /\ r2.turn = r.turn
  /\ SeatedIn(r2, r.nb_players, c)
  /\ \A j \in Seats : j # r.nb_players => r2.players[j] = r.players[j]

LEMMA PlayerAdded ==
  ASSUME NEW r, IsRoom(r), r.nb_players \in {0, 1}, NEW c, NEW r2, r2 = WithPlayer(r, c, FALSE)
  PROVE  MorePlayers(r, r2, c)
<1> DEFINE s == [id |-> clients[c].sock, name |-> clients[c].name, client_index |-> c]
           k == r.nb_players
           t == [r.players EXCEPT ![k] = s]
<1>1. r.players = [j \in Seats |-> r.players[j]] /\ k \in Seats
  BY PlayersHaveSeats DEF IsRoom
<1>2. IsSeat(s) /\ s.id = clients[c].sock /\ s.name = clients[c].name /\ s.client_index = c
  BY DEF IsSeat
<1>3. r2 = [[r EXCEPT !.players = t] EXCEPT !.nb_players = k + 1]
  <2>1. PICK r1 : r1 = [r EXCEPT !.players = t]
    OBVIOUS
  <2>2. r1.nb_players = k
    BY <2>1 DEF IsRoom
  <2>3. r2 = [r1 EXCEPT !.nb_players = r1.nb_players + 1]
    BY <2>1 DEF WithPlayer
  <2>4. QED
    BY <2>1, <2>2, <2>3
<1> HIDE DEF s
<1>4. t[k] = s /\ t = [j \in Seats |-> t[j]] /\ \A j \in Seats : j # k => t[j] = r.players[j]
  BY <1>1
<1> HIDE DEF t
<1>4a. PICK n : n = k + 1
  OBVIOUS
<1>5. PlayersAre(r, r2, t, n)
  <2>1. r2 = [[r EXCEPT !.players = t] EXCEPT !.nb_players = n]
    BY <1>3, <1>4a
  <2>2. QED
    BY <2>1, PlayersSet
<1>7. \A j \in Seats : IsSeat(t[j])
  BY <1>2, <1>4 DEF IsRoom
<1>8. IsRoom(r2)
  BY <1>4, <1>5, <1>7 DEF IsRoom, PlayersAre
<1>9. QED
  BY <1>2, <1>4, <1>4a, <1>5, <1>8 DEF SeatedIn, PlayersAre, MorePlayers

Cleared(r, r2, x) ==
  /\ IsRoom(r2) /\ r2.players = r.players /\ r2.id = x /\ r2.nb_players = 0 /\ r2.nb_spectators = 0
  /\ r2.is_started = FALSE /\ r2.turn = 0

LEMMA RoomCleared ==
  ASSUME NEW r, IsRoom(r), NEW x, NEW r2,
         r2 = [r EXCEPT !.id = x, !.nb_players = 0, !.nb_spectators = 0,
                        !.is_started = FALSE, !.turn = 0]
  PROVE  Cleared(r, r2, x)
<1>1. r2 = [id |-> x, nb_players |-> 0, nb_spectators |-> 0, players |-> r.players,
            is_started |-> FALSE, turn |-> 0]
  BY DEF IsRoom
<1>2. QED
  BY <1>1 DEF IsRoom, Cleared

(* The slot of a client gets the code of its room.                         *)
LEMMA RoomIdWritten ==
  ASSUME ArrayInv, NEW c \in ClientSlots, NEW x, clients' = [clients EXCEPT ![c].room_id = x]
  PROVE  /\ clients'[c].room_id = x /\ clients'[c].sock = clients[c].sock
         /\ clients'[c].name = clients[c].name
         /\ \A d \in ClientSlots : d # c => clients'[d] = clients[d]
BY DEF ArrayInv, IsClient

LEMMA KeepsSame ==
  ASSUME Orderly(rooms, nb_rooms, fd, names, places), Distinct(fd, names),
         NEW q \in Proc, NEW x, Keeps(rooms, nb_rooms, fd, names, places, rooms', q, x),
         \A k, l : HasSeat(q, k, l) => SeatView(rooms'[k], l) = SeatView(rooms[k], l)
  PROVE  View(q, x)
BY HeldView DEF Keeps, View, HasSeat

(* The room that is opened: the one player in it is the client in slot c.  *)
OpenedBy(r2, c) ==
  /\ IsRoom(r2) /\ r2.id = NewCode /\ r2.nb_players = 1 /\ r2.nb_spectators = 0
  /\ r2.is_started = FALSE /\ r2.turn = 0 /\ SeatedIn(r2, 0, c)
  /\ \A k \in Seats : k # 0 => r2.players[k] = rooms[nb_rooms].players[k]

LEMMA RoomOpened ==
  ASSUME RoomArrayInv, NEW c, HandleCreateRoom(c)
  PROVE  /\ nb_rooms \in RoomSlots
         /\ \E r2 : OpenedBy(r2, c) /\ rooms' = [rooms EXCEPT ![nb_rooms] = r2]
<1>1. nb_rooms \in RoomSlots
  BY DEF HandleCreateRoom
<1>2. PICK x : x = NewCode
  OBVIOUS
<1>2a. PICK r0 : r0 = rooms[nb_rooms]
  OBVIOUS
<1>2b. IsRoom(r0)
  BY <1>1, <1>2a DEF RoomArrayInv
<1>3. PICK r : r = [r0 EXCEPT !.id = x, !.nb_players = 0, !.nb_spectators = 0,
                                           !.is_started = FALSE, !.turn = 0]
  OBVIOUS
<1>4. Cleared(r0, r, x)
  BY <1>2b, <1>3, RoomCleared
<1>5. PICK r2 : r2 = WithPlayer(r, c, FALSE)
  OBVIOUS
<1>6. rooms' = [rooms EXCEPT ![nb_rooms] = r2]
  BY <1>2, <1>2a, <1>3, <1>5 DEF HandleCreateRoom
<1>7. MorePlayers(r, r2, c)
  BY <1>4, <1>5, PlayerAdded DEF Cleared
<1>8. OpenedBy(r2, c)
  BY <1>2, <1>2a, <1>4, <1>7 DEF OpenedBy, Cleared, MorePlayers
<1>9. QED
  BY <1>1, <1>6, <1>8

(* What opening a room does to the array.                                  *)
LEMMA OpenedOrderly ==
  ASSUME SocketsInv, RoomArrayInv, OrderInv, nb_rooms \in RoomSlots, nb_rooms' = nb_rooms + 1,
         NEW c, NEW r2, OpenedBy(r2, c), rooms' = [rooms EXCEPT ![nb_rooms] = r2]
  PROVE  /\ RoomArrayInv' /\ rooms'[nb_rooms] = r2 /\ RoomsOrderly(rooms', nb_rooms + 1)
         /\ SeatAdded(rooms, nb_rooms, rooms', nb_rooms + 1, nb_rooms, 0)
         /\ SeatsStay(rooms, nb_rooms, rooms') /\ ~Held(rooms, nb_rooms, nb_rooms, 0)
         /\ \A k \in 0 .. nb_rooms - 1 : rooms'[k] = rooms[k]
<1>1. /\ nb_rooms \in Nat /\ MAX_ROOMS \in Nat /\ nb_rooms <= MAX_ROOMS - 1
      /\ \A k \in 0 .. nb_rooms - 1 : k \in RoomSlots
  BY LiveSlots
<1>2. nb_rooms' \in 0 .. MAX_ROOMS
  BY <1>1
<1>3. IsRoom(r2)
  BY DEF OpenedBy
<1>4. /\ RoomArrayInv' /\ rooms'[nb_rooms] = r2
      /\ \A k \in RoomSlots : k # nb_rooms => rooms'[k] = rooms[k]
  BY <1>2, <1>3, RoomWritten
<1>5. \A k \in 0 .. nb_rooms - 1 : rooms'[k] = rooms[k] /\ k # nb_rooms
  BY <1>1, <1>4
<1>6. \A k \in 0 .. nb_rooms : k = nb_rooms \/ k \in 0 .. nb_rooms - 1
  BY <1>1
<1>7. NewCode \in Codes /\ \A k \in 0 .. nb_rooms - 1 : rooms[k].id # NewCode
  BY <1>1, SomeCodeFree
<1>8. LiveRoom(r2)
  <2>1. r2.id \in Codes /\ r2.nb_players = 1 /\ r2.nb_spectators = 0 /\ r2.turn = 0
    BY <1>7 DEF OpenedBy
  <2>2. r2.is_started = FALSE
    BY DEF OpenedBy
  <2>3. r2.is_started \in BOOLEAN
    BY <2>2
  <2>4. ~r2.is_started
    BY <2>2
  <2>5. r2.nb_players \in {1, 2} /\ r2.nb_players # 2 /\ r2.turn \in {0, 1}
    BY <2>1
  <2>6. QED
    BY <2>1, <2>3, <2>4, <2>5 DEF LiveRoom
<1>9. RoomsOrderly(rooms', nb_rooms + 1)
  <2>1. \A k \in 0 .. nb_rooms : LiveRoom(rooms'[k])
    BY <1>4, <1>5, <1>6, <1>8 DEF OrderInv, Orderly, RoomsOrderly
  <2>2. rooms'[nb_rooms].id = NewCode /\ \A k \in 0 .. nb_rooms - 1 : rooms'[k].id = rooms[k].id
    BY <1>4, <1>5 DEF OpenedBy
  <2>3. \A k, l \in 0 .. nb_rooms : rooms'[k].id = rooms'[l].id => k = l
    BY <1>6, <1>7, <2>2 DEF OrderInv, Orderly, RoomsOrderly
  <2>4. (nb_rooms + 1) - 1 = nb_rooms /\ nb_rooms + 1 \in Nat
    BY <1>1
  <2>5. QED
    BY <2>1, <2>3, <2>4 DEF RoomsOrderly
<1>10. SeatAdded(rooms, nb_rooms, rooms', nb_rooms + 1, nb_rooms, 0)
  <2>1. SUFFICES ASSUME NEW k, NEW l
                 PROVE  Held(rooms', nb_rooms + 1, k, l) <=>
                          Held(rooms, nb_rooms, k, l) \/ (k = nb_rooms /\ l = 0)
    BY DEF SeatAdded
  <2>2. CASE k \in 0 .. nb_rooms - 1
    <3>1. rooms'[k] = rooms[k] /\ k # nb_rooms /\ k \in 0 .. (nb_rooms + 1) - 1
      BY <1>1, <1>5, <2>2
    <3>2. QED
      BY <2>2, <3>1 DEF Held
  <2>3. CASE k = nb_rooms
    <3>1. k \in 0 .. (nb_rooms + 1) - 1 /\ k \notin 0 .. nb_rooms - 1
      BY <1>1, <2>3
    <3>2. rooms'[k].nb_players = 1
      BY <1>4, <2>3 DEF OpenedBy
    <3>3. QED
      BY <2>3, <3>1, <3>2 DEF Held
  <2>4. CASE k \notin 0 .. nb_rooms
    <3>1. k \notin 0 .. (nb_rooms + 1) - 1 /\ k \notin 0 .. nb_rooms - 1 /\ k # nb_rooms
      BY <1>1, <2>4
    <3>2. QED
      BY <3>1 DEF Held
  <2>5. QED
    BY <1>6, <2>2, <2>3, <2>4
<1>11. SeatsStay(rooms, nb_rooms, rooms')
  BY <1>5 DEF SeatsStay, Held
<1>12. ~Held(rooms, nb_rooms, nb_rooms, 0)
  BY <1>1 DEF Held
<1>13. QED
  BY <1>4, <1>5, <1>9, <1>10, <1>11, <1>12

LEMMA CreateRoomHolds ==
  ASSUME TalkInv, SocketsInv', UNCHANGED clientVars, NEW c, HandleCreateRoom(c), status' = "up"
  PROVE  Holding'
<1>1. status = "up" /\ \E p, m, v : Reader(c, p, m, v) /\ m.type = "CREATE_ROOM"
  BY Reading DEF HandleCreateRoom
<1>2. PICK p, m, v : Reader(c, p, m, v) /\ m.type = "CREATE_ROOM"
  BY <1>1
<1>3. /\ IsRequest(m) /\ WaitsIn(m, "WAITING_CREATE_ROOM_RESPONSE")
      /\ \A x : Allowed(m, x) => x = "FREE"
  BY <1>2, Creating
<1> DEFINE r == [type |-> "ROOM_CREATION_SUCCESSFUL", room_id |-> NewCode]
           a == "WAITING_CREATE_ROOM_RESPONSE"
           t == "IN_ROOM"
<1>4. /\ p \in Proc /\ c \in Connected /\ c \in ClientSlots /\ fd[p] = clients[c].sock
      /\ fd[p] # 0 /\ View(p, v) /\ v = "FREE" /\ names[p] = clients[c].name
  BY <1>2, <1>3 DEF Reader
<1>5. /\ Orderly(rooms, nb_rooms, fd, names, places) /\ Distinct(fd, names)
      /\ RoomArrayInv /\ Tracked /\ SocketsInv /\ OrderInv
  BY <1>1, Ordered DEF TalkInv, LiveInv
<1>6. names[p] # Unnamed /\ places[p] = 0
  BY <1>4, ViewFree DEF View
<1>7. PICK r2 : OpenedBy(r2, c) /\ rooms' = [rooms EXCEPT ![nb_rooms] = r2]
  BY <1>5, RoomOpened
<1>8. nb_rooms \in RoomSlots
  BY <1>5, RoomOpened
<1>9. /\ nb_rooms' = nb_rooms + 1 /\ nb_clients' = nb_clients /\ fd' = fd
      /\ clients' = [clients EXCEPT ![c].room_id = NewCode]
  BY DEF HandleCreateRoom
<1>10. Emit(p, <<To(clients[c].sock, r)>>)
  BY <1>2 DEF HandleCreateRoom, Reader
<1>11. /\ RoomArrayInv' /\ rooms'[nb_rooms] = r2 /\ RoomsOrderly(rooms', nb_rooms + 1)
       /\ SeatAdded(rooms, nb_rooms, rooms', nb_rooms + 1, nb_rooms, 0)
       /\ SeatsStay(rooms, nb_rooms, rooms') /\ ~Held(rooms, nb_rooms, nb_rooms, 0)
       /\ \A k \in 0 .. nb_rooms - 1 : rooms'[k] = rooms[k]
  BY <1>5, <1>7, <1>8, <1>9, OpenedOrderly
<1>12. /\ clients'[c].room_id = NewCode /\ clients'[c].sock = clients[c].sock
       /\ clients'[c].name = clients[c].name
       /\ \A d \in ClientSlots : d # c => clients'[d] = clients[d]
  BY <1>4, <1>5, <1>9, RoomIdWritten DEF SocketsInv
<1>13. /\ names'[p] = names[p] /\ places'[p] = r2.id
       /\ \A q \in Proc : q # p => names'[q] = names[q] /\ places'[q] = places[q]
  BY <1>4, <1>5, <1>7, <1>9, <1>12, SlotWritten, ConnectedSlots DEF SocketsInv, OpenedBy
<1>14. names' = names
  BY <1>13, SameNames2
<1>15. rooms'[nb_rooms].players[0].id = fd[p] /\ rooms'[nb_rooms].players[0].name = names[p]
  BY <1>4, <1>7, <1>11 DEF OpenedBy, SeatedIn
<1>16. PICK n2 : n2 = nb_rooms + 1
  OBVIOUS
<1>16a. SitsThere(rooms, nb_rooms, fd, names, places, p, rooms', n2, places', nb_rooms, 0)
  <2>1. places'[p] = rooms'[nb_rooms].id
    BY <1>11, <1>13
  <2>2. RoomsOrderly(rooms', n2) /\ SeatAdded(rooms, nb_rooms, rooms', n2, nb_rooms, 0)
    BY <1>11, <1>16
  <2>3. SeatsStay(rooms, nb_rooms, rooms') /\ ~Held(rooms, nb_rooms, nb_rooms, 0)
    BY <1>11
  <2>4. Sits(rooms, nb_rooms, fd, names, places, p, rooms', n2, places', nb_rooms, 0)
    BY <1>4, <1>6, <1>13, <1>15, <2>1, <2>2, <2>3 DEF Sits
  <2>5. QED
    BY <1>4, <1>5, <2>4, OrderlySeated
<1>17. /\ OrderInv' /\ \A q \in Proc : q # p =>
            \A x : View(q, x)' => Keeps(rooms, nb_rooms, fd, names, places, rooms', q, x)
       /\ \A x : View(p, x)' => x = SeatView(rooms'[nb_rooms], 0)
  BY <1>9, <1>14, <1>16, <1>16a DEF OrderInv, View, SitsThere
<1>18. SeatView(rooms'[nb_rooms], 0) = t
  BY <1>7, <1>11 DEF SeatView, OpenedBy
<1>19. ASSUME NEW q \in Proc, q # p, NEW x, View(q, x)' PROVE View(q, x)
  <2>1. \A k, l : HasSeat(q, k, l) => SeatView(rooms'[k], l) = SeatView(rooms[k], l)
    BY <1>11 DEF HasSeat, Held
  <2>2. QED
    BY <1>5, <1>17, <1>19, <2>1, KeepsSame
<1>20. Moves(a, r, t) /\ AtRest(t, t) /\ a \in States /\ t \in States
  BY RequestTypes DEF Moves, AtRest, Seated, Playing
<1> HIDE DEF r, t, a
<1>21. WaitsIn(m, a)
  BY <1>3 DEF a
<1>22. /\ Heeds(p, t) /\ Wired'
       /\ \A q \in Proc : q # p => \A x : TalkOf(q, x) => Heeds(q, x)
  BY <1>1, <1>2, <1>3, <1>5, <1>10, <1>20, <1>21, Replying
<1>23. \A x : View(p, x)' => Heeds(p, x)
  BY <1>17, <1>18, <1>22
<1>24. \A q \in Proc : q # p => \A x : View(q, x)' => Heeds(q, x)
  BY <1>5, <1>19, <1>22 DEF Tracked
<1>25. Tracked'
  BY <1>4, <1>23, <1>24, Tracking
<1>26. QED
  BY <1>11, <1>17, <1>22, <1>25 DEF Holding

(***************************************************************************)
(* A second player joins a room, which starts the game.                    *)
(***************************************************************************)
Startable(r) == r.nb_players = 1 /\ r.is_started = FALSE /\ r.turn = 0 /\ r.nb_spectators = 0

(* The room r once the client in slot c has joined it.                     *)
JoinedBy(r, r2, c) ==
  /\ IsRoom(r2) /\ r2.id = r.id /\ r2.nb_players = 2 /\ r2.nb_spectators = 0
  /\ r2.is_started = TRUE /\ r2.turn = 0
  /\ SeatedIn(r2, 1, c) /\ r2.players[0] = r.players[0]
  /\ \A k \in Seats : k # 1 => r2.players[k] = r.players[k]

LEMMA NotFull ==
  ASSUME NEW r, LiveRoom(r), NEW spectate, ~spectate, ~Full(r, spectate)
  PROVE  Startable(r)
<1>1. r.nb_players = 1
  BY DEF Full, LiveRoom
<1>2. ~r.is_started /\ r.is_started \in BOOLEAN
  BY <1>1 DEF LiveRoom
<1>3. r.is_started = FALSE
  BY <1>2
<1>4. QED
  BY <1>1, <1>2, <1>3 DEF LiveRoom, Startable

StartedFrom(r, r2) ==
  /\ IsRoom(r2) /\ r2.is_started = TRUE /\ r2.players = r.players /\ r2.id = r.id
  /\ r2.nb_players = r.nb_players /\ r2.nb_spectators = r.nb_spectators /\ r2.turn = r.turn

LEMMA StartedSet ==
  ASSUME NEW r, IsRoom(r), NEW r2, r2 = [r EXCEPT !.is_started = TRUE]
  PROVE  StartedFrom(r, r2)
<1>1. r2 = [id |-> r.id, nb_players |-> r.nb_players, nb_spectators |-> r.nb_spectators,
            players |-> r.players, is_started |-> TRUE, turn |-> r.turn]
  BY DEF IsRoom
<1>2. QED
  BY <1>1 DEF IsRoom, StartedFrom

WithJoiner(r, r1, c) ==
  /\ r1.nb_players = 2 /\ r1.is_started = FALSE
  /\ r1.players[0] = r.players[0] /\ SeatedIn(r1, 1, c)

LEMMA RoomJoined ==
  ASSUME NEW r, IsRoom(r), Startable(r), NEW c, NEW spectate, ~spectate,
         NEW r1, r1 = WithPlayer(r, c, spectate), NEW r2, r2 = [r1 EXCEPT !.is_started = TRUE]
  PROVE  WithJoiner(r, r1, c) /\ JoinedBy(r, r2, c)
<1>1. r1 = WithPlayer(r, c, FALSE)
  BY DEF WithPlayer
<1>2. r.nb_players \in {0, 1}
  BY DEF Startable
<1>3. MorePlayers(r, r1, c)
  BY <1>1, <1>2, PlayerAdded
<1>4. /\ r1.nb_players = 2 /\ r1.is_started = FALSE /\ r1.turn = 0 /\ r1.nb_spectators = 0
      /\ SeatedIn(r1, 1, c) /\ r1.players[0] = r.players[0]
      /\ \A k \in Seats : k # 1 => r1.players[k] = r.players[k]
  BY <1>3, PlayersHaveSeats DEF Startable, MorePlayers
<1>5. JoinedBy(r, r2, c)
  <2>1. StartedFrom(r1, r2)
    BY <1>3, StartedSet DEF MorePlayers
  <2>2. QED
    BY <1>3, <1>4, <2>1 DEF JoinedBy, SeatedIn, StartedFrom, MorePlayers
<1>6. QED
  BY <1>4, <1>5 DEF WithJoiner

(* What is written: to who joins, then to both players.                    *)
Starts(out, room, sock, jrs) ==
  /\ Len(out) = 3 /\ out[1] = To(sock, jrs)
  /\ out[2] = To(room.players[0].id, [type |-> "GAME_START", pos |-> 0])
  /\ out[3] = To(sock, [type |-> "GAME_START", pos |-> 1])

LEMMA OneThenTwo ==
  ASSUME NEW S, NEW g \in Seq(S), Len(g) = 1, NEW f \in Seq(S), Len(f) = 2
  PROVE  /\ Len(g \o f) = 3 /\ (g \o f)[1] = g[1]
         /\ (g \o f)[2] = f[1] /\ (g \o f)[3] = f[2]
<1>1. PICK h : h = g \o f
  OBVIOUS
<1>2. Len(h) = Len(g) + Len(f)
  BY <1>1, Joining
<1>3. \A k \in 1 .. Len(g) : h[k] = g[k]
  BY <1>1, JoinLeft
<1>4. \A k \in 1 .. Len(g) + Len(f) : ~(k <= Len(g)) => h[k] = f[k - Len(g)]
  BY <1>1, JoinRight
<1>5. Len(h) = 3
  BY <1>2
<1>6. h[1] = g[1]
  BY <1>3
<1>7. h[2] = f[1]
  BY <1>4
<1>8. h[3] = f[2]
  BY <1>4
<1>9. QED
  BY <1>1, <1>5, <1>6, <1>7, <1>8

LEMMA StartWritten ==
  ASSUME NEW room, NEW c, room.nb_players = 2, SeatedIn(room, 1, c), NEW jrs, NEW out,
         out = <<To(clients[c].sock, jrs)>> \o
               [k \in 1 .. 2 |-> To(room.players[k - 1].id, [type |-> "GAME_START", pos |-> k - 1])]
  PROVE  Starts(out, room, clients[c].sock, jrs)
<1> DEFINE M(j) == [type |-> "GAME_START", pos |-> j]
           f == [k \in 1 .. 2 |-> To(room.players[k - 1].id, M(k - 1))]
           e == To(clients[c].sock, jrs)
<1>2. out = <<e>> \o f
  OBVIOUS
<1> HIDE DEF M
<1>3. f[1] = To(room.players[0].id, M(0)) /\ f[2] = To(room.players[1].id, M(1))
  <2>1. 1 - 1 = 0 /\ 2 - 1 = 1 /\ 1 \in 1 .. 2 /\ 2 \in 1 .. 2
    OBVIOUS
  <2>2. QED
    BY <2>1
<1>4. f = [k \in 1 .. 2 |-> f[k]]
  OBVIOUS
<1>5. e = To(clients[c].sock, jrs)
  OBVIOUS
<1> HIDE DEF f, e
<1>6. f \in [1 .. 2 -> {f[1], f[2], e}]
  <2>1. \A k \in 1 .. 2 : k = 1 \/ k = 2
    OBVIOUS
  <2>2. QED
    BY <1>4, <2>1
<1>7. PICK S : f \in [1 .. 2 -> S] /\ e \in S
  BY <1>6
<1>8. Len(<<e>> \o f) = 3 /\ (<<e>> \o f)[1] = e /\ (<<e>> \o f)[2] = f[1] /\ (<<e>> \o f)[3] = f[2]
  <2>1. f \in Seq(S) /\ Len(f) = 2
    BY <1>7, RangeIsSequence
  <2>2. PICK g : g = <<e>>
    OBVIOUS
  <2>3. g \in Seq(S) /\ Len(g) = 1 /\ g[1] = e
    BY <1>7, <2>2
  <2>4. Len(g \o f) = 3 /\ (g \o f)[1] = g[1] /\ (g \o f)[2] = f[1] /\ (g \o f)[3] = f[2]
    BY <2>1, <2>3, OneThenTwo
  <2>5. QED
    BY <2>2, <2>3, <2>4
<1>9. Len(out) = 3 /\ out[1] = e /\ out[2] = f[1] /\ out[3] = f[2]
  BY <1>2, <1>8
<1>10. out[2] = To(room.players[0].id, M(0)) /\ out[3] = To(clients[c].sock, M(1))
  BY <1>3, <1>9 DEF SeatedIn
<1>11. QED
  BY <1>5, <1>9, <1>10 DEF Starts, M

GameStarts(room) ==
  LET GameStart(j) == [type |-> "GAME_START", pos |-> j]
  IN  ToSeats(room, 0, room.nb_players - 1, GameStart)

LEMMA GameStartsIs ==
  ASSUME NEW room, room.nb_players = 2
  PROVE  GameStarts(room) =
           [k \in 1 .. 2 |-> To(room.players[k - 1].id, [type |-> "GAME_START", pos |-> k - 1])]
BY DEF GameStarts, ToSeats

(* The array of rooms, and what is written, when a second player joins.    *)
Joining2(c, i, r2, out, jrs) ==
  /\ JoinedBy(rooms[i], r2, c) /\ rooms' = [rooms EXCEPT ![i] = r2]
  /\ clients' = [clients EXCEPT ![c].room_id = rooms[i].id]
  /\ Emit(Process(c), out) /\ Starts(out, rooms[i], clients[c].sock, jrs)
  /\ jrs.type = "JOIN_ROOM_SUCCESSFUL"

LEMMA JoinRoomWrites ==
  ASSUME RoomArrayInv, OrderInv, NEW c, HandleJoinRoom(c), ~Message(c).spectate
  PROVE  \E i \in 0 .. nb_rooms - 1 : \E r2, out, jrs :
           Startable(rooms[i]) /\ Joining2(c, i, r2, out, jrs)
<1>1. PICK i : i = RoomIndex(Message(c).room_id)
  OBVIOUS
<1>2. i \in 0 .. nb_rooms - 1
  BY <1>1, FoundIs DEF HandleJoinRoom, OrderInv, Orderly
<1>3. PICK s : s = Message(c).spectate
  OBVIOUS
<1>4. ~s /\ ~Full(rooms[i], s)
  BY <1>1, <1>3 DEF HandleJoinRoom
<1>5. LiveRoom(rooms[i]) /\ IsRoom(rooms[i])
  BY <1>2, LiveSlots DEF OrderInv, Orderly, RoomsOrderly, RoomArrayInv
<1>6. Startable(rooms[i])
  BY <1>4, <1>5, NotFull
<1>7. PICK r1 : r1 = WithPlayer(rooms[i], c, s)
  OBVIOUS
<1>8. PICK r2 : r2 = [r1 EXCEPT !.is_started = TRUE]
  OBVIOUS
<1>9. WithJoiner(rooms[i], r1, c) /\ JoinedBy(rooms[i], r2, c)
  BY <1>4, <1>5, <1>6, <1>7, <1>8, RoomJoined
<1> DEFINE starts == r1.nb_players >= 2 /\ ~r1.is_started
<1>11. starts = TRUE /\ (r1.is_started \/ starts) = TRUE
  BY <1>9 DEF WithJoiner
<1>12. rooms' = [rooms EXCEPT ![i] = [r1 EXCEPT !.is_started = r1.is_started \/ starts]]
  BY <1>1, <1>3, <1>7 DEF HandleJoinRoom
<1>13. rooms' = [rooms EXCEPT ![i] = r2]
  BY <1>8, <1>11, <1>12
<1>14. clients' = [clients EXCEPT ![c].room_id = rooms[i].id]
  BY <1>1 DEF HandleJoinRoom
<1>15. PICK jrs : jrs = JoinRoomSuccessful(r1, clients)
  OBVIOUS
<1>16. jrs.type = "JOIN_ROOM_SUCCESSFUL"
  BY <1>15 DEF JoinRoomSuccessful
<1>17. Emit(Process(c), <<To(clients[c].sock, jrs)>> \o (IF starts THEN GameStarts(r1) ELSE <<>>))
  BY <1>1, <1>3, <1>7, <1>15 DEF HandleJoinRoom, GameStarts
<1>18. Emit(Process(c), <<To(clients[c].sock, jrs)>> \o GameStarts(r1))
  BY <1>11, <1>17
<1>19. PICK out : out = <<To(clients[c].sock, jrs)>> \o GameStarts(r1)
  OBVIOUS
<1>20. out = <<To(clients[c].sock, jrs)>> \o
         [k \in 1 .. 2 |-> To(r1.players[k - 1].id, [type |-> "GAME_START", pos |-> k - 1])]
  BY <1>9, <1>19, GameStartsIs DEF WithJoiner
<1>21. Starts(out, r1, clients[c].sock, jrs)
  BY <1>9, <1>20, StartWritten DEF WithJoiner
<1>22. Starts(out, rooms[i], clients[c].sock, jrs)
  BY <1>9, <1>21 DEF Starts, WithJoiner
<1>23. Joining2(c, i, r2, out, jrs)
  BY <1>9, <1>13, <1>14, <1>16, <1>18, <1>19, <1>22 DEF Joining2
<1>24. QED
  BY <1>2, <1>6, <1>23

(* What joining does to the array.                                         *)
LEMMA JoinedOrderly ==
  ASSUME RoomArrayInv, OrderInv, NEW i \in 0 .. nb_rooms - 1, nb_rooms' = nb_rooms,
         Startable(rooms[i]), NEW c, NEW r2, JoinedBy(rooms[i], r2, c),
         rooms' = [rooms EXCEPT ![i] = r2]
  PROVE  /\ RoomArrayInv' /\ rooms'[i] = r2 /\ RoomsOrderly(rooms', nb_rooms)
         /\ SeatAdded(rooms, nb_rooms, rooms', nb_rooms, i, 1)
         /\ SeatsStay(rooms, nb_rooms, rooms') /\ ~Held(rooms, nb_rooms, i, 1)
         /\ \A k \in 0 .. nb_rooms - 1 : k # i => rooms'[k] = rooms[k]
<1>1. \A k \in 0 .. nb_rooms - 1 : k \in RoomSlots
  BY LiveSlots
<1>2. IsRoom(r2) /\ r2.id = rooms[i].id
  BY DEF JoinedBy
<1>3. /\ RoomArrayInv' /\ rooms'[i] = r2 /\ \A k \in RoomSlots : k # i => rooms'[k] = rooms[k]
  BY <1>1, <1>2, RoomWritten DEF RoomArrayInv
<1>4. \A k \in 0 .. nb_rooms - 1 : k # i => rooms'[k] = rooms[k]
  BY <1>1, <1>3
<1>5. LiveRoom(r2)
  <2>1. r2.id \in Codes
    BY <1>2 DEF OrderInv, Orderly, RoomsOrderly, LiveRoom
  <2>2. r2.nb_players = 2 /\ r2.nb_spectators = 0 /\ r2.turn = 0 /\ r2.is_started = TRUE
    BY DEF JoinedBy
  <2>3. r2.is_started \in BOOLEAN /\ r2.is_started
    BY <2>2
  <2>4. r2.nb_players \in {1, 2} /\ r2.turn \in {0, 1}
    BY <2>2
  <2>5. QED
    BY <2>1, <2>2, <2>3, <2>4 DEF LiveRoom
<1>6. RoomsOrderly(rooms', nb_rooms)
  <2>1. \A k \in 0 .. nb_rooms - 1 : LiveRoom(rooms'[k]) /\ rooms'[k].id = rooms[k].id
    BY <1>2, <1>3, <1>4, <1>5 DEF OrderInv, Orderly, RoomsOrderly
  <2>2. QED
    BY <2>1 DEF OrderInv, Orderly, RoomsOrderly
<1>7. rooms[i].nb_players = 1 /\ rooms'[i].nb_players = 2
  BY <1>3 DEF Startable, JoinedBy
<1>8. SeatAdded(rooms, nb_rooms, rooms', nb_rooms, i, 1)
  <2>1. SUFFICES ASSUME NEW k, NEW l
                 PROVE  Held(rooms', nb_rooms, k, l) <=>
                          Held(rooms, nb_rooms, k, l) \/ (k = i /\ l = 1)
    BY DEF SeatAdded
  <2>2. CASE k \in 0 .. nb_rooms - 1 /\ k # i
    BY <1>4, <2>2 DEF Held
  <2>3. CASE k = i
    BY <1>7, <2>3 DEF Held
  <2>4. CASE k \notin 0 .. nb_rooms - 1
    BY <2>4 DEF Held
  <2>5. QED
    BY <2>2, <2>3, <2>4
<1>9. SeatsStay(rooms, nb_rooms, rooms')
  <2>1. SUFFICES ASSUME NEW k, NEW l, Held(rooms, nb_rooms, k, l)
                 PROVE  /\ rooms'[k].players[l].id = rooms[k].players[l].id
                        /\ rooms'[k].players[l].name = rooms[k].players[l].name
                        /\ rooms'[k].id = rooms[k].id
    BY DEF SeatsStay
  <2>2. CASE k = i
    <3>1. l = 0
      BY <1>7, <2>1, <2>2 DEF Held
    <3>2. QED
      BY <1>2, <1>3, <2>2, <3>1 DEF JoinedBy
  <2>3. CASE k # i
    BY <1>4, <2>1, <2>3 DEF Held
  <2>4. QED
    BY <2>2, <2>3
<1>10. ~Held(rooms, nb_rooms, i, 1)
  BY <1>7 DEF Held
<1>11. QED
  BY <1>3, <1>4, <1>6, <1>8, <1>9, <1>10

(* Who is told what.                                                       *)
TellsStart(out, i, p, q, a, b, d) ==
  /\ q = p => MessagesTo(q, out) = <<a>> \o <<d>>
  /\ q # p /\ HasSeat(q, i, 0) => MessagesTo(q, out) = <<b>>
  /\ q # p /\ ~HasSeat(q, i, 0) => MessagesTo(q, out) = <<>>

LEMMA StartTold ==
  ASSUME Orderly(rooms, nb_rooms, fd, names, places), Distinct(fd, names),
         NEW i \in 0 .. nb_rooms - 1, Startable(rooms[i]),
         NEW p \in Proc, fd[p] # 0, places[p] = 0, NEW q \in Proc, NEW out, NEW a, NEW b, NEW d,
         Len(out) = 3, out[1] = To(fd[p], a), out[2] = To(rooms[i].players[0].id, b),
         out[3] = To(fd[p], d)
  PROVE  TellsStart(out, i, p, q, a, b, d)
<1>1. MessagesTo(q, out) = (MessageTo(q, out[1]) \o MessageTo(q, out[2])) \o MessageTo(q, out[3])
  BY ThreeMessages
<1>2. HasSeat(q, i, 0) <=> rooms[i].players[0].id = fd[q]
  BY DEF HasSeat, Held, Startable
<1>3. CASE q = p
  <2>1. ~HasSeat(q, i, 0)
    BY <1>3, Seating DEF HasSeat
  <2>2. MessageTo(q, out[1]) = <<a>> /\ MessageTo(q, out[3]) = <<d>>
    BY <1>3, Addressed
  <2>3. MessageTo(q, out[2]) = <<>>
    BY <1>2, <2>1, Addressed
  <2>4. MessagesTo(q, out) = <<a>> \o <<d>>
    BY <1>1, <2>2, <2>3, JoinNothing
  <2>5. QED
    BY <1>3, <2>4 DEF TellsStart
<1>4. CASE q # p
  <2>1. fd[q] = 0 \/ fd[q] # fd[p]
    BY <1>4 DEF Distinct
  <2>2. MessageTo(q, out[1]) = <<>> /\ MessageTo(q, out[3]) = <<>>
    BY <2>1, Addressed
  <2>3. CASE HasSeat(q, i, 0)
    <3>1. fd[q] # 0
      BY <2>3, Seating DEF HasSeat
    <3>2. MessageTo(q, out[2]) = <<b>>
      BY <1>2, <2>3, <3>1, Addressed
    <3>3. (<<>> \o <<b>>) \o <<>> = <<b>>
      BY JoinNothing
    <3>4. MessagesTo(q, out) = <<b>>
      BY <1>1, <2>2, <3>2, <3>3
    <3>5. QED
      BY <1>4, <2>3, <3>4 DEF TellsStart
  <2>4. CASE ~HasSeat(q, i, 0)
    <3>1. MessageTo(q, out[2]) = <<>>
      BY <1>2, <2>4, Addressed
    <3>2. (<<>> \o <<>>) \o <<>> = <<>>
      OBVIOUS
    <3>3. MessagesTo(q, out) = <<>>
      BY <1>1, <2>2, <3>1, <3>2
    <3>4. QED
      BY <1>4, <2>4, <3>3 DEF TellsStart
  <2>5. QED
    BY <2>3, <2>4
<1>5. QED
  BY <1>3, <1>4

LEMMA JoinRoomHolds ==
  ASSUME TalkInv, SocketsInv', UNCHANGED clientVars, NEW c, HandleJoinRoom(c), status' = "up"
  PROVE  Holding'
<1>1. status = "up" /\ \E p, m, v : Reader(c, p, m, v) /\ m.type = "JOIN_ROOM"
  BY Reading DEF HandleJoinRoom
<1>2. PICK p, m, v : Reader(c, p, m, v) /\ m.type = "JOIN_ROOM"
  BY <1>1
<1>3. /\ IsRequest(m) /\ WaitsIn(m, "WAITING_JOIN_ROOM_RESPONSE")
      /\ \A x : Allowed(m, x) => x = "FREE" /\ ~m.spectate
  BY <1>2, JoiningRoom
<1> DEFINE first == [type |-> "GAME_START", pos |-> 0]
           second == [type |-> "GAME_START", pos |-> 1]
           ask == "WAITING_JOIN_ROOM_RESPONSE"
           t == "IN_ROOM"
           mine == "WAITING_PLAY_INPUT"
           yours == "IN_GAME"
<1>4. /\ p \in Proc /\ c \in Connected /\ c \in ClientSlots /\ fd[p] = clients[c].sock
      /\ fd[p] # 0 /\ View(p, v) /\ v = "FREE" /\ names[p] = clients[c].name
      /\ p = Process(c) /\ ~Message(c).spectate
  BY <1>2, <1>3 DEF Reader
<1>5. /\ Orderly(rooms, nb_rooms, fd, names, places) /\ Distinct(fd, names)
      /\ RoomArrayInv /\ Tracked /\ SocketsInv /\ OrderInv
  BY <1>1, Ordered DEF TalkInv, LiveInv
<1>6. names[p] # Unnamed /\ places[p] = 0
  BY <1>4, ViewFree DEF View
<1>a. PICK i \in 0 .. nb_rooms - 1 : \E r2, out, jrs :
        Startable(rooms[i]) /\ Joining2(c, i, r2, out, jrs)
  BY <1>4, <1>5, JoinRoomWrites
<1>7. PICK r2, out, jrs :
        i \in 0 .. nb_rooms - 1 /\ Startable(rooms[i]) /\ Joining2(c, i, r2, out, jrs)
  BY <1>a
<1>8. /\ JoinedBy(rooms[i], r2, c) /\ rooms' = [rooms EXCEPT ![i] = r2]
      /\ clients' = [clients EXCEPT ![c].room_id = rooms[i].id]
      /\ Emit(p, out) /\ jrs.type = "JOIN_ROOM_SUCCESSFUL"
  BY <1>4, <1>7 DEF Joining2
<1>9. /\ Len(out) = 3 /\ out[1] = To(fd[p], jrs) /\ out[2] = To(rooms[i].players[0].id, first)
      /\ out[3] = To(fd[p], second)
  BY <1>4, <1>7 DEF Joining2, Starts
<1>10. nb_rooms' = nb_rooms /\ nb_clients' = nb_clients /\ fd' = fd
  BY DEF HandleJoinRoom
<1>11. /\ RoomArrayInv' /\ rooms'[i] = r2 /\ RoomsOrderly(rooms', nb_rooms)
       /\ SeatAdded(rooms, nb_rooms, rooms', nb_rooms, i, 1)
       /\ SeatsStay(rooms, nb_rooms, rooms') /\ ~Held(rooms, nb_rooms, i, 1)
       /\ \A k \in 0 .. nb_rooms - 1 : k # i => rooms'[k] = rooms[k]
  BY <1>5, <1>7, <1>8, <1>10, JoinedOrderly
<1>12. /\ clients'[c].room_id = rooms[i].id /\ clients'[c].sock = clients[c].sock
       /\ clients'[c].name = clients[c].name
       /\ \A k \in ClientSlots : k # c => clients'[k] = clients[k]
  BY <1>4, <1>5, <1>8, RoomIdWritten DEF SocketsInv
<1>13. /\ names'[p] = names[p] /\ places'[p] = rooms'[i].id
       /\ \A q \in Proc : q # p => names'[q] = names[q] /\ places'[q] = places[q]
  BY <1>4, <1>5, <1>8, <1>10, <1>11, <1>12, SlotWritten, ConnectedSlots DEF SocketsInv, JoinedBy
<1>14. names' = names
  BY <1>13, SameNames2
<1>15. rooms'[i].players[1].id = fd[p] /\ rooms'[i].players[1].name = names[p]
  BY <1>4, <1>8, <1>11 DEF JoinedBy, SeatedIn
<1>16. SitsThere(rooms, nb_rooms, fd, names, places, p, rooms', nb_rooms, places', i, 1)
  <2>1. places'[p] = rooms'[i].id /\ ~Held(rooms, nb_rooms, i, 1)
    BY <1>11, <1>13
  <2>2. /\ RoomsOrderly(rooms', nb_rooms) /\ SeatsStay(rooms, nb_rooms, rooms')
        /\ SeatAdded(rooms, nb_rooms, rooms', nb_rooms, i, 1)
    BY <1>11
  <2>3. Sits(rooms, nb_rooms, fd, names, places, p, rooms', nb_rooms, places', i, 1)
    BY <1>4, <1>6, <1>13, <1>15, <2>1, <2>2 DEF Sits
  <2>4. QED
    BY <1>4, <1>5, <2>3, OrderlySeated
<1>17. /\ OrderInv' /\ \A q \in Proc : q # p =>
            \A x : View(q, x)' => Keeps(rooms, nb_rooms, fd, names, places, rooms', q, x)
       /\ \A x : View(p, x)' => x = SeatView(rooms'[i], 1)
  BY <1>10, <1>14, <1>16 DEF OrderInv, View, SitsThere
<1>18. /\ SeatView(rooms'[i], 1) = yours /\ SeatView(rooms'[i], 0) = mine
       /\ SeatView(rooms[i], 0) = t
  BY <1>7, <1>8, <1>11 DEF SeatView, JoinedBy, Startable
<1>19. Wired' /\ \A q \in Proc : Told(q, p, MessagesTo(q, out))
  BY <1>1, <1>8, Delivered DEF Wired
<1>20. /\ Moves(ask, jrs, t) /\ Moves(t, second, yours) /\ AtRest(yours, yours) /\ Tells(t, first, mine)
       /\ ask \in States /\ t \in States /\ yours \in States /\ t \in Seated
  BY <1>8, RequestTypes DEF Moves, AtRest, Seated, Playing, Tells
<1> HIDE DEF first, second, t, mine, yours
<1>21. \A q \in Proc : TellsStart(out, i, p, q, jrs, first, second)
  BY <1>4, <1>5, <1>6, <1>7, <1>9, StartTold
<1>22. ASSUME NEW x, View(p, x)' PROVE Heeds(p, x)
  <2>1. x = yours
    BY <1>17, <1>18, <1>22
  <2>2. Told(p, p, <<jrs>> \o <<second>>)
    BY <1>4, <1>19, <1>21 DEF TellsStart
  <2>3. PICK ms : ms = <<jrs>> \o <<second>>
    OBVIOUS
  <2>4. Leads(ask, <<jrs>>, t) /\ Leads(t, <<second>>, yours)
    BY <1>20, LeadsStraight
  <2>5. Leads(ask, ms, yours)
    BY <2>3, <2>4, LeadsOn
  <2>6. Told(p, p, ms)
    BY <2>2, <2>3
  <2>7. QED
    BY <1>2, <1>3, <1>20, <2>1, <2>5, <2>6, Answering
<1>23. ASSUME NEW q \in Proc, q # p, NEW x, View(q, x)' PROVE Heeds(q, x)
  <2>1. Keeps(rooms, nb_rooms, fd, names, places, rooms', q, x)
    BY <1>17, <1>23
  <2>2. TellsStart(out, i, p, q, jrs, first, second) /\ Told(q, p, MessagesTo(q, out))
    BY <1>19, <1>21
  <2>3. rooms[i].nb_players = 1
    BY <1>7 DEF Startable
  <2>4. \A l : HasSeat(q, i, l) => l = 0
    BY <2>3 DEF HasSeat, Held
  <2>5. CASE HasSeat(q, i, 0)
    <3>1. Told(q, p, <<first>>)
      BY <1>23, <2>2, <2>5 DEF TellsStart
    <3>2. View(q, t) /\ \A y : View(q, y) => y = t
      BY <1>5, <1>18, <2>5, HeldView
    <3>3. ~(View(q, x) /\ (x = "NEW" \/ x = "FREE"))
      <4>1. "NEW" \notin Seated /\ "FREE" \notin Seated
        BY DEF Seated, Playing
      <4>2. QED
        BY <1>20, <3>2, <4>1
    <3>4. PICK k, l : HasSeat(q, k, l) /\ x = SeatView(rooms'[k], l)
      BY <2>1, <3>3 DEF Keeps, View, HasSeat
    <3>5. k = i /\ l = 0
      BY <1>5, <2>5, <3>4, HeldView
    <3>6. x = mine
      BY <1>18, <3>4, <3>5
    <3>7. TalkOf(q, t)
      BY <1>5, <3>2 DEF Tracked
    <3>8. QED
      BY <1>4, <1>20, <1>23, <3>1, <3>6, <3>7, Telling
  <2>6. CASE ~HasSeat(q, i, 0)
    <3>1. Told(q, p, <<>>)
      BY <1>23, <2>2, <2>6 DEF TellsStart
    <3>2. \A k, l : HasSeat(q, k, l) => SeatView(rooms'[k], l) = SeatView(rooms[k], l)
      BY <1>11, <2>4, <2>6 DEF HasSeat, Held
    <3>3. View(q, x)
      BY <1>5, <2>1, <3>2, KeepsSame
    <3>4. QED
      BY <1>4, <1>5, <1>23, <3>1, <3>3, Spared DEF Tracked
  <2>7. QED
    BY <2>5, <2>6
<1>24. Tracked'
  BY <1>4, <1>22, <1>23, Tracking
<1>25. QED
  BY <1>11, <1>17, <1>19, <1>24 DEF Holding

(***************************************************************************)
(* Somebody comes back.                                                    *)
(***************************************************************************)
LEMMA SeatFound ==
  ASSUME OrderInv, NEW name, KeptSeats(name) # {}
  PROVE  \E i, j : /\ FirstSeat(name)[1] = i /\ FirstSeat(name)[2] = j
                   /\ Held(rooms, nb_rooms, i, j) /\ rooms[i].players[j].name = name
<1>1. ASSUME NEW s \in KeptSeats(name)
      PROVE  /\ Held(rooms, nb_rooms, s[1], s[2]) /\ rooms[s[1]].players[s[2]].name = name
             /\ s = <<s[1], s[2]>> /\ s[1] \in LiveRooms /\ s[2] \in {0, 1}
  <2>1. /\ s = <<s[1], s[2]>> /\ s[1] \in LiveRooms /\ s[2] \in {0, 1}
        /\ s[2] \in PlayerSeats(rooms[s[1]]) /\ rooms[s[1]].players[s[2]].name = name
    BY <1>1 DEF KeptSeats
  <2>2. LiveRoom(rooms[s[1]])
    BY <2>1 DEF OrderInv, Orderly, RoomsOrderly, LiveRooms
  <2>3. s[2] < rooms[s[1]].nb_players
    BY <2>1, <2>2 DEF PlayerSeats, LiveRoom
  <2>4. QED
    BY <2>1, <2>3 DEF Held, LiveRooms
<1>2. PICK s : s \in KeptSeats(name)
  OBVIOUS
<1>3. \A t \in KeptSeats(name) : t[1] = s[1] /\ t[2] = s[2]
  BY <1>1, <1>2 DEF OrderInv, Orderly, NamesOrderly, SeatsDiffer
<1>4. s[2] <= s[2]
  BY <1>1, <1>2
<1>5. \A t \in KeptSeats(name) : s[1] < t[1] \/ (s[1] = t[1] /\ s[2] <= t[2])
  BY <1>3, <1>4
<1>6. FirstSeat(name) \in KeptSeats(name)
  BY <1>2, <1>5 DEF FirstSeat
<1>7. QED
  BY <1>1, <1>6

(* The seat gets a socket.                                                 *)
Rewritten(i, j, x) ==
  /\ RoomArrayInv' /\ RoomsOrderly(rooms', nb_rooms)
  /\ SameNames(rooms, nb_rooms, rooms') /\ SameTurns(rooms, nb_rooms, rooms')
  /\ rooms'[i].players[j].id = x
  /\ \A k, l : Held(rooms, nb_rooms, k, l) /\ ~(k = i /\ l = j) =>
       rooms'[k].players[l].id = rooms[k].players[l].id

LEMMA SeatRewritten ==
  ASSUME RoomArrayInv, OrderInv, NEW i, NEW j, Held(rooms, nb_rooms, i, j), NEW x,
         rooms' = [rooms EXCEPT ![i].players[j].id = x], nb_rooms' = nb_rooms
  PROVE  Rewritten(i, j, x)
<1>1. /\ i \in 0 .. nb_rooms - 1 /\ j \in Seats /\ i \in RoomSlots
      /\ LiveRoom(rooms[i]) /\ IsRoom(rooms[i])
  BY LiveSlots, PlayersHaveSeats DEF Held, OrderInv, Orderly, RoomsOrderly, RoomArrayInv
<1>2. PICK r : r = rooms[i]
  OBVIOUS
<1>3. PICK r2 : r2 = [r EXCEPT !.players[j].id = x]
  OBVIOUS
<1>4. /\ IsRoom(r2) /\ r2.turn = r.turn /\ SameRoomBut(r, r2)
      /\ r2.players[j].id = x /\ r2.players[j].name = r.players[j].name
      /\ \A k \in Seats : k # j => r2.players[k] = r.players[k]
  <2>1. Reseated(r, r2, j, x)
    BY <1>1, <1>2, <1>3, SeatIdSet
  <2>2. QED
    BY <2>1 DEF Reseated
<1>5. rooms' = [rooms EXCEPT ![i] = r2]
  BY <1>2, <1>3
<1>6. /\ RoomArrayInv' /\ rooms'[i] = r2 /\ \A k \in RoomSlots : k # i => rooms'[k] = rooms[k]
  BY <1>1, <1>4, <1>5, RoomWritten DEF RoomArrayInv
<1>7. \A k \in 0 .. nb_rooms - 1 : k # i => rooms'[k] = rooms[k]
  BY <1>6, LiveSlots
<1>8. LiveRoom(r2)
  BY <1>1, <1>2, <1>4 DEF LiveRoom, SameRoomBut
<1>9. \A k \in 0 .. nb_rooms - 1 : /\ rooms'[k].id = rooms[k].id /\ LiveRoom(rooms'[k])
                                  /\ rooms'[k].nb_players = rooms[k].nb_players
                                  /\ rooms'[k].is_started = rooms[k].is_started
                                  /\ rooms'[k].turn = rooms[k].turn
  BY <1>2, <1>4, <1>6, <1>7, <1>8 DEF OrderInv, Orderly, RoomsOrderly, SameRoomBut
<1>10. RoomsOrderly(rooms', nb_rooms) /\ SameTurns(rooms, nb_rooms, rooms')
  BY <1>9 DEF OrderInv, Orderly, RoomsOrderly, SameTurns
<1>11. ASSUME NEW k, NEW l, Held(rooms, nb_rooms, k, l), ~(k = i /\ l = j)
       PROVE  rooms'[k].players[l] = rooms[k].players[l]
  <2>1. CASE k = i
    <3>1. l \in Seats /\ l # j
      BY <1>11, <2>1, PlayersHaveSeats DEF Held
    <3>2. QED
      BY <1>2, <1>4, <1>6, <2>1, <3>1
  <2>2. CASE k # i
    BY <1>7, <1>11, <2>2 DEF Held
  <2>3. QED
    BY <2>1, <2>2
<1>12. \A k, l : Held(rooms, nb_rooms, k, l) => rooms'[k].players[l].name = rooms[k].players[l].name
  BY <1>2, <1>4, <1>6, <1>11
<1>13. SameNames(rooms, nb_rooms, rooms')
  BY <1>9, <1>12 DEF SameNames, Held
<1>14. rooms'[i].players[j].id = x
  BY <1>4, <1>6
<1>15. \A k, l : Held(rooms, nb_rooms, k, l) /\ ~(k = i /\ l = j) =>
         rooms'[k].players[l].id = rooms[k].players[l].id
  BY <1>11
<1>16. QED
  BY <1>6, <1>10, <1>13, <1>14, <1>15 DEF Rewritten

(* What somebody who comes back to seat j of room r is answered.           *)
Welcome(r, j, cs) ==
  IF ~r.is_started THEN JoinRoomSuccessful(r, cs)
  ELSE IF r.turn = j THEN [type |-> "PLAYED"]
  ELSE [type |-> "GAME_START", pos |-> 1]

LEMMA Welcomed ==
  ASSUME NEW r, NEW j, NEW cs, NEW m, m = Welcome(r, j, cs)
  PROVE  Moves("WAITING_CONNECTION", m, SeatView(r, j))
<1>1. CASE ~r.is_started
  <2>1. m.type = "JOIN_ROOM_SUCCESSFUL"
    BY <1>1 DEF Welcome, JoinRoomSuccessful
  <2>2. QED
    BY <1>1, <2>1 DEF Moves, SeatView
<1>2. CASE r.is_started /\ r.turn = j
  <2>1. m.type = "PLAYED"
    BY <1>2 DEF Welcome
  <2>2. QED
    BY <1>2, <2>1 DEF Moves, SeatView
<1>3. CASE r.is_started /\ r.turn # j
  <2>1. m.type = "GAME_START"
    BY <1>3 DEF Welcome
  <2>2. QED
    BY <1>3, <2>1 DEF Moves, SeatView
<1>4. QED
  BY <1>1, <1>2, <1>3

LEMMA RejoinWrites ==
  ASSUME ArrayInv, OrderInv, NEW c \in ClientSlots, Rejoin(c)
  PROVE  \E i, j, r : /\ Held(rooms, nb_rooms, i, j)
                     /\ rooms[i].players[j].name = Message(c).name
                     /\ rooms' = [rooms EXCEPT ![i].players[j].id = clients[c].sock]
                     /\ clients'[c].room_id = rooms[i].id
                     /\ r = Welcome(rooms[i], j, clients)
                     /\ Emit(Process(c), <<To(clients[c].sock, r)>>)
<1>1. PICK i, j : /\ FirstSeat(Message(c).name)[1] = i /\ FirstSeat(Message(c).name)[2] = j
                  /\ Held(rooms, nb_rooms, i, j)
                  /\ rooms[i].players[j].name = Message(c).name
  BY SeatFound DEF Rejoin
<1>2. PICK r : r = Welcome(rooms[i], j, clients)
  OBVIOUS
<1>3. /\ rooms' = [rooms EXCEPT ![i].players[j].id = clients[c].sock]
      /\ clients' = [clients EXCEPT ![c].name = Message(c).name, ![c].room_id = rooms[i].id]
      /\ Emit(Process(c), <<To(clients[c].sock, r)>>)
  BY <1>1, <1>2 DEF Rejoin, Welcome
<1>4. PICK a, x, y : a = clients[c] /\ x = Message(c).name /\ y = rooms[i].id
  OBVIOUS
<1>5. [clients EXCEPT ![c].name = x][c] = [a EXCEPT !.name = x]
  BY <1>4 DEF ArrayInv
<1>6. clients'[c] = [[a EXCEPT !.name = x] EXCEPT !.room_id = y]
  BY <1>3, <1>4, <1>5 DEF ArrayInv
<1>7. IsClient(a)
  BY <1>4 DEF ArrayInv
<1>8. clients'[c].room_id = y
  BY <1>6, <1>7 DEF IsClient
<1>9. QED
  BY <1>1, <1>2, <1>3, <1>4, <1>8

LEMMA RejoinHolds ==
  ASSUME TalkInv, SocketsInv', UNCHANGED clientVars, NEW c, Rejoin(c), status' = "up"
  PROVE  Holding'
<1>1. status = "up" /\ \E p, m, v : Reader(c, p, m, v) /\ m.type = "CONNECT"
  BY Reading DEF Rejoin
<1>2. PICK p, m, v : Reader(c, p, m, v) /\ m.type = "CONNECT"
  BY <1>1
<1>3. /\ IsRequest(m) /\ WaitsIn(m, "WAITING_CONNECTION")
      /\ \A x : Allowed(m, x) => x = "NEW" /\ m.name \in AllNames
  BY <1>2, Connecting
<1> DEFINE a == "WAITING_CONNECTION"
<1>4. /\ p \in Proc /\ c \in Connected /\ c \in ClientSlots /\ fd[p] = clients[c].sock
      /\ fd[p] # 0 /\ View(p, v) /\ v = "NEW" /\ names[p] = clients[c].name
      /\ m = Message(c) /\ p = Process(c)
  BY <1>2, <1>3 DEF Reader
<1>5. /\ Orderly(rooms, nb_rooms, fd, names, places) /\ Distinct(fd, names)
      /\ RoomArrayInv /\ Tracked /\ SocketsInv /\ OrderInv
  BY <1>1, Ordered DEF TalkInv, LiveInv
<1>6. names[p] = Unnamed
  BY <1>4, <1>5, ViewNew DEF View
<1>7. PICK i, j, r : /\ Held(rooms, nb_rooms, i, j)
                     /\ rooms[i].players[j].name = m.name
                     /\ rooms' = [rooms EXCEPT ![i].players[j].id = fd[p]]
                     /\ clients'[c].room_id = rooms[i].id
                     /\ r = Welcome(rooms[i], j, clients)
                     /\ Emit(p, <<To(clients[c].sock, r)>>)
  BY <1>4, <1>5, RejoinWrites DEF SocketsInv
<1>8. nb_rooms' = nb_rooms /\ fd' = fd /\ nb_clients' = nb_clients
  BY DEF Rejoin
<1>9. /\ clients'[c].name = m.name /\ clients'[c].sock = clients[c].sock
      /\ \A d \in ClientSlots : d # c => clients'[d] = clients[d]
      /\ ~NameInUse(m.name)
  BY <1>4, <1>5, NameGiven DEF SocketsInv
<1>10. /\ names'[p] = m.name /\ places'[p] = rooms[i].id
       /\ \A q \in Proc : q # p => names'[q] = names[q] /\ places'[q] = places[q]
  BY <1>4, <1>5, <1>7, <1>8, <1>9, SlotWritten, ConnectedSlots DEF SocketsInv
<1>11. \A q \in Proc : names[q] # m.name
  BY <1>1, <1>4, <1>6, <1>9, NotInUse
<1>12. PICK s : s = fd[p]
  OBVIOUS
<1>13. Rewritten(i, j, s)
  <2>1. rooms' = [rooms EXCEPT ![i].players[j].id = s]
    BY <1>7, <1>12
  <2>2. QED
    BY <1>5, <1>7, <1>8, <2>1, SeatRewritten
<1>13a. Returns(rooms, nb_rooms, fd, names, places, p, rooms', names', places', i, j)
  BY <1>4, <1>6, <1>7, <1>10, <1>11, <1>12, <1>13 DEF Returns, Rewritten
<1>14. Returned(rooms, nb_rooms, fd, names, places, p, rooms', names', places', i, j)
  BY <1>4, <1>5, <1>13a, OrderlyRejoin
<1>15. PICK w : w = SeatView(rooms[i], j)
  OBVIOUS
<1>16. /\ OrderInv' /\ \A q \in Proc : q # p => \A x : View(q, x)' => View(q, x)
       /\ \A x : View(p, x)' => x = w
  BY <1>8, <1>14, <1>15 DEF OrderInv, View, Returned
<1>17. Moves(a, r, w)
  BY <1>7, <1>15, Welcomed
<1>18. w \in Seated /\ a \in States
  BY <1>15, SeatViews, RequestTypes
<1>19. AtRest(w, w) /\ w \in States
  BY <1>18, RequestTypes DEF AtRest, Seated, Playing
<1> HIDE DEF a
<1>20. WaitsIn(m, a)
  BY <1>3 DEF a
<1>21. /\ Heeds(p, w) /\ Wired'
       /\ \A q \in Proc : q # p => \A x : TalkOf(q, x) => Heeds(q, x)
  BY <1>1, <1>2, <1>3, <1>5, <1>7, <1>17, <1>18, <1>19, <1>20, Replying
<1>22. \A x : View(p, x)' => Heeds(p, x)
  BY <1>16, <1>21
<1>23. \A q \in Proc : q # p => \A x : View(q, x)' => Heeds(q, x)
  BY <1>5, <1>16, <1>21 DEF Tracked
<1>24. Tracked'
  BY <1>4, <1>22, <1>23, Tracking
<1>25. QED
  BY <1>13, <1>16, <1>21, <1>24 DEF Holding, Rewritten

(***************************************************************************)
(* Somebody disconnects.                                                   *)
(***************************************************************************)
(* The seats of p are vacated, and nothing else changes.                   *)
Vacated(p) ==
  /\ RoomArrayInv' /\ RoomsOrderly(rooms', nb_rooms)
  /\ SameNames(rooms, nb_rooms, rooms') /\ SameTurns(rooms, nb_rooms, rooms')
  /\ \A k, l : Held(rooms, nb_rooms, k, l) =>
       /\ rooms[k].players[l].id = fd[p] => rooms'[k].players[l].id = -1
       /\ rooms[k].players[l].id # fd[p] =>
            rooms'[k].players[l].id = rooms[k].players[l].id

LEMMA HeldSeatsOf ==
  ASSUME Orderly(rooms, nb_rooms, fd, names, places), Distinct(fd, names),
         NEW p \in Proc, NEW i, NEW j, HasSeat(p, i, j)
  PROVE  HeldPlayerSeats(rooms[i], fd[p]) = {j} /\ Min(HeldPlayerSeats(rooms[i], fd[p])) = j
<1>1. LiveRoom(rooms[i]) /\ j \in {0, 1} /\ j < rooms[i].nb_players
  BY DEF HasSeat, Held, Orderly, RoomsOrderly
<1>2. PlayerSeats(rooms[i]) \subseteq {0, 1} /\ \A l \in PlayerSeats(rooms[i]) : l < rooms[i].nb_players
  BY <1>1 DEF PlayerSeats, LiveRoom
<1>3. j \in PlayerSeats(rooms[i])
  BY <1>1 DEF PlayerSeats, LiveRoom
<1>4. \A l \in HeldPlayerSeats(rooms[i], fd[p]) : HasSeat(p, i, l)
  BY <1>2 DEF HeldPlayerSeats, HasSeat, Held
<1>5. \A l \in HeldPlayerSeats(rooms[i], fd[p]) : l = j
  BY <1>4, HeldView
<1>6. j \in HeldPlayerSeats(rooms[i], fd[p])
  BY <1>3 DEF HeldPlayerSeats, HasSeat
<1>7. HeldPlayerSeats(rooms[i], fd[p]) = {j}
  BY <1>5, <1>6
<1>8. {j} \in SUBSET Nat
  BY <1>1
<1>9. Min({j}) = j
  BY <1>8, MinOfNaturals
<1>10. QED
  BY <1>7, <1>9

(* What disconnect_user writes: nothing but -1 in the seat of who is gone.  *)
LEMMA DisconnectWrites ==
  ASSUME TalkInv, status = "up", NEW c \in Connected, Disconnect(c),
         NEW p \in Proc, fd[p] = clients[c].sock, fd[p] # 0, places[p] = clients[c].room_id
  PROVE  \/ rooms' = rooms /\ ~\E i, j : HasSeat(p, i, j)
         \/ \E i, j : HasSeat(p, i, j) /\ rooms' = [rooms EXCEPT ![i].players[j].id = -1]
<1>1. Orderly(rooms, nb_rooms, fd, names, places) /\ Distinct(fd, names)
  BY Ordered
<1>2. CASE \E i, j : HasSeat(p, i, j)
  <2>1. PICK i, j : HasSeat(p, i, j)
    BY <1>2
  <2>2. clients[c].room_id = rooms[i].id
    BY <1>1, <2>1, Seating DEF HasSeat
  <2>3. RoomFound(rooms[i].id) /\ RoomIndex(rooms[i].id) = i
    BY <1>1, <2>1, IndexIs DEF HasSeat, Held, Orderly
  <2>4. HeldPlayerSeats(rooms[i], fd[p]) = {j} /\ Min(HeldPlayerSeats(rooms[i], fd[p])) = j
    BY <1>1, <2>1, HeldSeatsOf
  <2>5. rooms' = [rooms EXCEPT ![i].players[j].id = -1]
    BY <2>2, <2>3, <2>4 DEF Disconnect, DisconnectPlayer
  <2>6. QED
    BY <2>1, <2>5
<1>3. CASE ~\E i, j : HasSeat(p, i, j)
  <2>1. places[p] = 0
    BY <1>1, <1>3 DEF Orderly, PlacesOrderly, HasSeat
  <2>2. ~RoomFound(clients[c].room_id)
    BY <1>1, <2>1, CodesNotZero DEF RoomFound, LiveRooms, Orderly, RoomsOrderly, LiveRoom
  <2>3. rooms' = rooms
    BY <2>2 DEF Disconnect
  <2>4. QED
    BY <1>3, <2>3
<1>4. QED
  BY <1>2, <1>3

LEMMA DisconnectRooms ==
  ASSUME TalkInv, status = "up", NEW c \in Connected, Disconnect(c),
         NEW p \in Proc, fd[p] = clients[c].sock, fd[p] # 0, places[p] = clients[c].room_id
  PROVE  Vacated(p)
<1>1. /\ Orderly(rooms, nb_rooms, fd, names, places) /\ Distinct(fd, names)
      /\ RoomArrayInv /\ OrderInv
  BY Ordered DEF TalkInv, LiveInv
<1>2. nb_rooms' = nb_rooms
  BY DEF Disconnect
<1>3. CASE \E i, j : HasSeat(p, i, j)
  <2>1. PICK i, j : HasSeat(p, i, j) /\ rooms' = [rooms EXCEPT ![i].players[j].id = -1]
    BY <1>3, DisconnectWrites
  <2>2. PICK x : x = -1
    OBVIOUS
  <2>3. Rewritten(i, j, x)
    <3>1. rooms' = [rooms EXCEPT ![i].players[j].id = x]
      BY <2>1, <2>2
    <3>2. QED
      BY <1>1, <1>2, <2>1, <3>1, SeatRewritten DEF HasSeat
  <2>4. \A k, l : Held(rooms, nb_rooms, k, l) /\ rooms[k].players[l].id = fd[p] => k = i /\ l = j
    BY <1>1, <2>1, HeldView DEF HasSeat
  <2>5. rooms[i].players[j].id = fd[p]
    BY <2>1 DEF HasSeat
  <2>6. QED
    BY <2>2, <2>3, <2>4, <2>5 DEF Rewritten, Vacated
<1>4. CASE ~\E i, j : HasSeat(p, i, j)
  <2>1. rooms' = rooms
    BY <1>4, DisconnectWrites
  <2>2. RoomArrayInv' /\ RoomsOrderly(rooms', nb_rooms)
    BY <1>1, <1>2, <2>1 DEF RoomArrayInv, Orderly
  <2>3. SameNames(rooms, nb_rooms, rooms') /\ SameTurns(rooms, nb_rooms, rooms')
    BY <2>1 DEF SameNames, SameTurns
  <2>4. \A k, l : Held(rooms, nb_rooms, k, l) => rooms[k].players[l].id # fd[p]
    BY <1>4 DEF HasSeat
  <2>5. QED
    BY <2>1, <2>2, <2>3, <2>4 DEF Vacated
<1>5. QED
  BY <1>3, <1>4

(* What the leaving of p needs, and what it brings.                        *)
Goes(rs, n, f, nm, pl, p, rs2, f2, nm2, pl2) ==
  /\ RoomsOrderly(rs2, n) /\ SameNames(rs, n, rs2) /\ SameTurns(rs, n, rs2)
  /\ f[p] # 0 /\ f2[p] = 0 /\ nm2[p] = Unnamed /\ pl2[p] = 0
  /\ \A q \in Proc : q # p => f2[q] = f[q] /\ nm2[q] = nm[q] /\ pl2[q] = pl[q]
  /\ \A k, l : Held(rs, n, k, l) =>
       /\ rs[k].players[l].id = f[p] => rs2[k].players[l].id = -1
       /\ rs[k].players[l].id # f[p] => rs2[k].players[l].id = rs[k].players[l].id
HasGone(rs, n, f, nm, pl, p, rs2, f2, nm2, pl2) ==
  /\ Orderly(rs2, n, f2, nm2, pl2)
  /\ \A q \in Proc : q # p =>
       \A v : HasView(rs2, n, f2, nm2, pl2, q, v) => HasView(rs, n, f, nm, pl, q, v)

LEMMA LeaverGoes ==
  ASSUME NEW rs, NEW n, NEW f, NEW nm, NEW pl, Orderly(rs, n, f, nm, pl), Distinct(f, nm),
         NEW p \in Proc, NEW rs2, NEW f2, NEW nm2, NEW pl2,
         Goes(rs, n, f, nm, pl, p, rs2, f2, nm2, pl2)
  PROVE  HasGone(rs, n, f, nm, pl, p, rs2, f2, nm2, pl2)
BY OrderlyLeft DEF Goes, HasGone

LEMMA DisconnectHolds ==
  ASSUME TalkInv, SocketsInv', UNCHANGED clientVars, NEW c \in ClientSlots, Disconnect(c)
  PROVE  Holding'
<1>1. PICK type : Reads(c, type) /\ type \in {"FIN", "RST"}
  BY DEF Disconnect, FIN, RST
<1>2. status = "up" /\ \E p, m, v : Reader(c, p, m, v) /\ m.type = type
  BY <1>1, Reading
<1>3. PICK p, m, v : Reader(c, p, m, v) /\ m.type = type
  BY <1>2
<1>4. IsEnd(m)
  BY <1>1, <1>3 DEF IsEnd
<1>5. /\ p \in Proc /\ c \in Connected /\ fd[p] = clients[c].sock /\ fd[p] # 0
      /\ places[p] = clients[c].room_id /\ m = Head(up[p]) /\ up[p] # <<>> /\ TalkOf(p, v)
  BY <1>3 DEF Reader
<1>6. /\ Orderly(rooms, nb_rooms, fd, names, places) /\ Distinct(fd, names)
      /\ RoomArrayInv /\ Tracked /\ SocketsInv /\ OrderInv /\ WireInv
  BY <1>2, Ordered DEF TalkInv, LiveInv
<1>7. Vacated(p)
  BY <1>2, <1>5, DisconnectRooms
<1>8. /\ fd'[p] = 0 /\ names'[p] = Unnamed /\ places'[p] = 0
      /\ \A q \in Proc : q # p => /\ fd'[q] = fd[q]
                                 /\ names'[q] = names[q] /\ places'[q] = places[q]
  BY <1>5, <1>6, SlotRemoved
<1>9. up' = up /\ down' = down /\ state' = state /\ nb_rooms' = nb_rooms
  BY DEF Disconnect, wires, clientVars
<1>10. Goes(rooms, nb_rooms, fd, names, places, p, rooms', fd', names', places')
  BY <1>5, <1>7, <1>8 DEF Goes, Vacated
<1>11. HasGone(rooms, nb_rooms, fd, names, places, p, rooms', fd', names', places')
  BY <1>5, <1>6, <1>10, LeaverGoes
<1>12. OrderInv' /\ \A q \in Proc : q # p => \A x : View(q, x)' => View(q, x)
  BY <1>9, <1>11 DEF HasGone, OrderInv, View
<1>13. ASSUME NEW x PROVE Heeds(p, x)
  <2>1. Agrees(state[p], up[p], down[p], x)
    BY <1>4, <1>5, AgreesGone DEF TalkOf
  <2>2. QED
    BY <1>9, <2>1 DEF Heeds
<1>14. ASSUME NEW q \in Proc, q # p, NEW x, View(q, x)' PROVE Heeds(q, x)
  <2>1. TalkOf(q, x)
    BY <1>6, <1>12, <1>14 DEF Tracked
  <2>2. QED
    BY <1>9, <2>1 DEF Heeds, TalkOf
<1>15. Tracked'
  BY <1>5, <1>13, <1>14, Tracking
<1>16. Wired'
  BY <1>6, <1>9 DEF WireInv, Wired
<1>17. QED
  BY <1>7, <1>12, <1>15, <1>16 DEF Holding, Vacated

(***************************************************************************)
(* The steps together.                                                     *)
(***************************************************************************)
LEMMA ClientHolds ==
  ASSUME TalkInv, status = "up", UNCHANGED <<clients, nb_clients, rooms, nb_rooms, fd>>,
         NEW p \in Proc, StepOf(p)
  PROVE  Holding'
<1>1. RoomArrayInv' /\ OrderInv' /\ \A q \in Proc : \A x : View(q, x)' => View(q, x)
  BY NothingMoves, SlotsKept
<1>2. Tracked
  BY DEF TalkInv, LiveInv
<1>3. \A x : View(p, x)' => Heeds(p, x)
  BY <1>1, <1>2 DEF Tracked, StepOf, Heeds
<1>4. \A q \in Proc : q # p => \A x : View(q, x)' => Heeds(q, x)
  BY <1>1, <1>2 DEF Tracked, StepOf, Apart, Heeds, TalkOf
<1>5. Tracked'
  BY <1>3, <1>4, Tracking
<1>6. Wired'
  BY DEF StepOf, Wired
<1>7. QED
  BY <1>1, <1>5, <1>6 DEF Holding

(* What the programs of the users do.                                      *)
LEMMA ClientsHold ==
  ASSUME OnlyGames, TalkInv, status = "up", NEW p \in Proc,
         Connect(p) \/ User(p) \/ ClientReceives(p) \/ Network(p)
  PROVE  Holding'
<1>1. WireInv /\ OrderInv /\ Tracked
  BY DEF TalkInv, LiveInv
<1>2. \E v : TalkOf(p, v)
  <2>1. \E v : View(p, v)
    BY <1>1, ViewExists DEF OrderInv, View
  <2>2. QED
    BY <1>1, <2>1 DEF Tracked
<1>3. StepOf(p) /\ UNCHANGED <<clients, nb_clients, rooms, nb_rooms, fd>>
  <2>1. CASE Connect(p)
    BY <1>1, <2>1, StartStep DEF Connect
  <2>2. CASE User(p)
    BY <1>1, <1>2, <2>2, UserStep DEF User, serverVars
  <2>3. CASE ClientReceives(p)
    BY <1>1, <2>3, ReceiveStep DEF ClientReceives, serverVars
  <2>4. CASE Network(p)
    BY <1>1, <2>4, ResetStep DEF Network, clientVars, serverVars
  <2>5. QED
    BY <2>1, <2>2, <2>3, <2>4
<1>4. QED
  BY <1>3, ClientHolds

(* What cannot be asked for is not handled.                                *)
LEMMA NeverHandled ==
  ASSUME OnlyGames, TalkInv, NEW c
  PROVE  ~HandleLeave(c) /\ ~EndingPlay(c) /\ ~PlayNowhere(c)
<1>1. ~Reads(c, "LEAVE_ROOM")
  <2>1. SUFFICES ASSUME Reads(c, "LEAVE_ROOM") PROVE FALSE
    OBVIOUS
  <2>2. PICK p, m, v : Reader(c, p, m, v) /\ m.type = "LEAVE_ROOM"
    BY <2>1, Reading
  <2>3. QED
    BY <2>2, Leaving DEF Reader
<1>2. ~HandleLeave(c)
  BY <1>1 DEF HandleLeave, LeaveAsPlayer, LeaveAsSpectator
<1>3. ~EndingPlay(c)
  BY DEF EndingPlay, OnlyGames
<1>4. ~PlayNowhere(c)
  <2>1. SUFFICES ASSUME Reads(c, "PLAY"), ~RoomFound(clients[c].room_id) PROVE FALSE
    BY DEF PlayNowhere
  <2>2. status = "up" /\ \E p, m, v : Reader(c, p, m, v) /\ m.type = "PLAY"
    BY <2>1, Reading
  <2>3. PICK p, m, v : Reader(c, p, m, v) /\ m.type = "PLAY"
    BY <2>2
  <2>4. v \in Seated
    BY <2>3, PlayingMove DEF Reader, Seated, Playing
  <2>5. QED
    BY <2>1, <2>2, <2>3, <2>4, SeatOfReader
<1>5. QED
  BY <1>2, <1>3, <1>4

(* What the server does and goes on.                                       *)
LEMMA ServerHolds ==
  ASSUME OnlyGames, TalkInv, SocketsInv', Serve, status' = "up"
  PROVE  Holding'
<1>1. UNCHANGED clientVars /\ ServerStep
  BY DEF Serve
<1>2. ~AcceptOutOfBounds
  BY DEF AcceptOutOfBounds
<1>3. CASE Accept
  BY <1>1, <1>3, AcceptHolds
<1>4. ASSUME NEW c \in ClientSlots, HandleConnect(c) PROVE Holding'
  BY <1>1, <1>4, RefuseConnectionHolds, AcceptConnectionHolds, RejoinHolds DEF HandleConnect
<1>5. ASSUME NEW c \in ClientSlots, HandleCreateRoom(c) \/ CreateOutOfBounds(c) PROVE Holding'
  <2>1. ~CreateOutOfBounds(c)
    BY DEF CreateOutOfBounds
  <2>2. QED
    BY <1>1, <1>5, <2>1, CreateRoomHolds
<1>6. ASSUME NEW c \in ClientSlots, HandleJoinRoom(c) \/ RefuseJoinRoom(c) PROVE Holding'
  BY <1>1, <1>6, JoinRoomHolds, RefuseJoinRoomHolds
<1>7. ASSUME NEW c \in ClientSlots, HandlePlay(c) \/ HandleLeave(c) PROVE Holding'
  <2>1. ~HandleLeave(c) /\ ~EndingPlay(c) /\ ~PlayNowhere(c)
    BY NeverHandled
  <2>2. RejectPlay(c) \/ ValidPlay(c)
    BY <1>7, <2>1 DEF HandlePlay
  <2>3. QED
    BY <1>1, <2>2, RejectPlayHolds, ValidPlayHolds
<1>8. ASSUME NEW c \in ClientSlots, HandleSendMessage(c) \/ HandleSetBiography(c) PROVE Holding'
  BY <1>1, <1>8, SendMessageHolds, SetBiographyHolds
<1>9. ASSUME NEW c \in ClientSlots, Disconnect(c) PROVE Holding'
  BY <1>1, <1>9, DisconnectHolds
<1>10. QED
  BY <1>1, <1>2, <1>3, <1>4, <1>5, <1>6, <1>7, <1>8, <1>9 DEF ServerStep

(* Who is up stays up unless the step says otherwise.                      *)
LEMMA StatusStays == [Next]_vars /\ status' = "up" => status = "up"
<1> SUFFICES ASSUME [Next]_vars, status' = "up" PROVE status = "up"
  OBVIOUS
<1>1. CASE Serve
  <2>1. Accept \/ AcceptOutOfBounds => status = "up"
    BY DEF Accept, AcceptOutOfBounds
  <2>2. ASSUME NEW c, NEW type, Reads(c, type) PROVE status = "up"
    BY <2>2 DEF Reads
  <2>3. ASSUME NEW c, HandleConnect(c) \/ HandleCreateRoom(c) \/ CreateOutOfBounds(c)
        PROVE  \E type : Reads(c, type)
    BY <2>3 DEF HandleConnect, RefuseConnection, AcceptConnection, Rejoin, HandleCreateRoom,
       CreateOutOfBounds
  <2>4. ASSUME NEW c, HandleJoinRoom(c) \/ RefuseJoinRoom(c) \/ HandlePlay(c)
        PROVE  \E type : Reads(c, type)
    BY <2>4 DEF HandleJoinRoom, RefuseJoinRoom, HandlePlay, RejectPlay, ValidPlay, EndingPlay,
       PlayNowhere
  <2>5. ASSUME NEW c, \/ HandleLeave(c) \/ HandleSendMessage(c) \/ HandleSetBiography(c)
                     \/ Disconnect(c)
        PROVE  \E type : Reads(c, type)
    BY <2>5 DEF HandleLeave, LeaveAsPlayer, LeaveAsSpectator, HandleSendMessage,
       HandleSetBiography, Disconnect
  <2>6. QED
    BY <1>1, <2>1, <2>2, <2>3, <2>4, <2>5 DEF Serve, ServerStep
<1>2. CASE ~Serve
  BY <1>2 DEF Next, Stop, Shutdown, Connect, User, ClientReceives, Lost, Network, serverVars, vars
<1>3. QED
  BY <1>1, <1>2

LEMMA NextTalk == OnlyGames /\ TalkInv /\ [Next]_vars => TalkInv'
<1> SUFFICES ASSUME OnlyGames, TalkInv, [Next]_vars PROVE TalkInv'
  OBVIOUS
<1>1. SocketsInv' /\ UniqueNames'
  BY NextSockets, NextNames DEF TalkInv, SocketsInv
<1>2. ASSUME status' = "up", Next PROVE Holding'
  <2>1. status = "up"
    BY <1>2, StatusStays
  <2>2. CASE Serve
    BY <1>1, <1>2, <2>2, ServerHolds
  <2>3. ASSUME NEW p \in Proc, Connect(p) \/ User(p) \/ ClientReceives(p) \/ Network(p)
        PROVE  Holding'
    BY <2>1, <2>3, ClientsHold
  <2>4. ~Stop /\ \A p \in Proc : ~Lost(p)
    BY <1>2, <2>1 DEF Stop, Shutdown, Lost
  <2>5. QED
    BY <1>2, <2>2, <2>3, <2>4 DEF Next
<1>3. ASSUME status' = "up", Next PROVE WireInv' /\ RoomArrayInv' /\ OrderInv' /\ Tracked'
  BY <1>1, <1>2, <1>3 DEF Holding, Wired, WireInv, SocketsInv
<1>4. CASE Next
  BY <1>1, <1>3, <1>4 DEF TalkInv, LiveInv
<1>5. CASE UNCHANGED vars
  <2>1. /\ UNCHANGED <<up, down, state, inputs, rooms, nb_rooms, status>>
        /\ UNCHANGED <<clients, nb_clients, fd>>
    BY <1>5 DEF vars, wires, clientVars, serverVars
  <2>2. names' = names /\ places' = places
    BY <2>1, SlotsKept
  <2>3. LiveInv'
    BY <2>1, <2>2 DEF TalkInv, LiveInv, WireInv, ClientTypeOK, RoomArrayInv, OrderInv, Tracked,
       View, TalkOf
  <2>4. QED
    BY <1>1, <2>3 DEF TalkInv
<1>6. QED
  BY <1>4, <1>5

LEMMA InitTalk == Init => TalkInv
<1> SUFFICES ASSUME Init PROVE TalkInv
  OBVIOUS
<1>1. SocketsInv /\ Connected = {}
  BY InitSockets, InitArray
<1>2. UniqueNames
  BY <1>1 DEF UniqueNames
<1>3. /\ up = [p \in Proc |-> <<>>] /\ down = [p \in Proc |-> <<>>]
      /\ state = [p \in Proc |-> "NOT_STARTED"] /\ fd = [p \in Proc |-> 0]
      /\ rooms = [i \in RoomSlots |-> NoRoom] /\ nb_rooms = 0
  BY DEF Init, ServerInit, ClientInit
<1>4. WireInv
  <2>1. up = [p \in Proc |-> up[p]] /\ down = [p \in Proc |-> down[p]]
    BY <1>3
  <2>2. QED
    BY <1>1, <2>1 DEF WireInv, SocketsInv
<1>5. RoomArrayInv
  <2>1. IsSeat(NoSeat)
    <3> DEFINE empty == ""
    <3>1. NoSeat = [id |-> 0, name |-> empty, client_index |-> 0]
      BY DEF NoSeat
    <3> HIDE DEF empty
    <3>2. QED
      BY <3>1 DEF IsSeat
  <2>2. IsRoom(NoRoom)
    <3>1. \A k \in Seats : NoRoom.players[k] = NoSeat
      BY DEF NoRoom
    <3>2. NoRoom.players = [k \in Seats |-> NoRoom.players[k]]
      BY DEF NoRoom
    <3>3. NoRoom = [id |-> NoRoom.id, nb_players |-> NoRoom.nb_players,
                    nb_spectators |-> NoRoom.nb_spectators, players |-> NoRoom.players,
                    is_started |-> NoRoom.is_started, turn |-> NoRoom.turn]
      BY DEF NoRoom
    <3>4. QED
      BY <2>1, <3>1, <3>2, <3>3 DEF IsRoom
  <2>3. rooms = [i \in RoomSlots |-> rooms[i]] /\ \A i \in RoomSlots : rooms[i] = NoRoom
    BY <1>3
  <2>4. nb_rooms \in 0 .. MAX_ROOMS
    BY <1>3, ServerAssumption
  <2>5. QED
    BY <2>2, <2>3, <2>4 DEF RoomArrayInv
<1>6. \A p \in Proc : names[p] = Unnamed /\ places[p] = 0
  BY <1>3 DEF names, places
<1>7. \A i, j : ~Held(rooms, nb_rooms, i, j)
  BY <1>3 DEF Held
<1>8. OrderInv
  <2>1. RoomsOrderly(rooms, nb_rooms)
    BY <1>3 DEF RoomsOrderly
  <2>2. NamesOrderly(rooms, nb_rooms)
    BY <1>7 DEF NamesOrderly, SeatsDiffer, SeatsNamed
  <2>3. SeatsOrderly(rooms, nb_rooms, fd, names, places)
    BY <1>7 DEF SeatsOrderly
  <2>4. PlacesOrderly(rooms, nb_rooms, fd, names, places)
    BY <1>6, <1>7 DEF PlacesOrderly
  <2>5. QED
    BY <2>1, <2>2, <2>3, <2>4 DEF OrderInv, Orderly
<1>9. Tracked
  <2>1. ASSUME NEW p \in Proc, NEW v, View(p, v) PROVE TalkOf(p, v)
    <3>1. v = "NEW"
      BY <1>6, <1>7, <2>1 DEF View, HasView
    <3>2. up[p] = <<>> /\ down[p] = <<>> /\ state[p] = "NOT_STARTED"
      BY <1>3
    <3> DEFINE none == <<>>
    <3>3. none \in Seq({}) /\ Len(none) = 0
      OBVIOUS
    <3> HIDE DEF none
    <3>4. Sent(state[p], none, v)
      BY <3>3 DEF Sent, IsSequence
    <3>5. state[p] \in States /\ state[p] \notin Running
      BY <3>2 DEF States, Running, WaitingReply, WaitingInput, InRoom
    <3>6. up[p] = none
      BY <3>2 DEF none
    <3>7. Agrees(state[p], up[p], down[p], v)
      BY <3>1, <3>2, <3>4, <3>5, <3>6 DEF Agrees
    <3>8. QED
      BY <3>7 DEF TalkOf
  <2>2. QED
    BY <2>1 DEF Tracked
<1>10. QED
  BY <1>1, <1>2, <1>4, <1>5, <1>8, <1>9 DEF TalkInv, LiveInv

LEMMA TalkAlways == OnlyGames => (Spec => []TalkInv)
<1>1. OnlyGames /\ Init => TalkInv
  BY InitTalk
<1>2. OnlyGames /\ TalkInv /\ [Next]_vars => TalkInv'
  BY NextTalk
<1>3. ASSUME OnlyGames PROVE Spec => []TalkInv
  <2>1. Init => TalkInv
    BY <1>1, <1>3
  <2>2. TalkInv /\ [Next]_vars => TalkInv'
    BY <1>2, <1>3
  <2>3. QED
    BY <2>1, <2>2, PTL DEF Spec
<1>4. QED
  BY <1>3

(***************************************************************************)
(* What follows while nothing ends a game.                                 *)
(***************************************************************************)
LEMMA MovesInTurn == TalkInv => PlayInTurn
<1> SUFFICES ASSUME TalkInv, status = "up", NEW c \in Connected, Reads(c, "PLAY"),
                    RoomFound(clients[c].room_id), NEW r, r = rooms[RoomIndex(clients[c].room_id)]
             PROVE  r.is_started /\ PlayerSide(r, clients[c].sock) = r.turn
  BY DEF PlayInTurn
<1>1. \E p, m, v : Reader(c, p, m, v) /\ m.type = "PLAY"
  BY Reading
<1>2. PICK p, m, v : Reader(c, p, m, v) /\ m.type = "PLAY"
  BY <1>1
<1>3. v = "WAITING_PLAY_INPUT"
  BY <1>2, PlayingMove DEF Reader
<1>4. v \in Seated
  BY <1>3 DEF Seated, Playing
<1>5. PICK i, j : /\ HasSeat(p, i, j) /\ v = SeatView(rooms[i], j)
                  /\ RoomIndex(clients[c].room_id) = i /\ LiveRoom(rooms[i])
  BY <1>2, <1>4, SeatOfReader
<1>6. r.is_started /\ r.turn = j
  BY <1>3, <1>5, Mover
<1>7. PlayerSide(r, clients[c].sock) = j
  BY <1>2, <1>5, Ordered, SideIs DEF Reader
<1>8. QED
  BY <1>6, <1>7

(* No message moves a client to another state than its own.                *)
LEMMA NowhereLed ==
  ASSUME NEW s, NEW t, Leads(s, <<>>, t) PROVE t = s
<1> DEFINE none == <<>>
<1>1. Len(none) = 0
  OBVIOUS
<1>2. Leads(s, none, t)
  OBVIOUS
<1> HIDE DEF none
<1>3. QED
  BY <1>1, <1>2 DEF Leads, Path

(* A client nothing is on its way to or from is where the server has it.   *)
LEMMA Resting ==
  ASSUME TalkInv, NEW p \in Proc, Quiet(p)
  PROVE  \E v : View(p, v) /\ AtRest(v, state[p])
<1>1. /\ status = "up" /\ state[p] \in Running /\ up[p] = <<>> /\ down[p] = <<>>
      /\ OrderInv /\ Tracked
  BY DEF Quiet, TalkInv, LiveInv
<1>2. PICK v : View(p, v)
  BY <1>1, ViewExists DEF OrderInv, View
<1>3. Agrees(state[p], up[p], down[p], v)
  BY <1>1, <1>2 DEF Tracked, TalkOf
<1>4. PICK t : Leads(state[p], down[p], t) /\ Fits(t, up[p], v)
  BY <1>1, <1>3 DEF Agrees
<1>5. t = state[p]
  BY <1>1, <1>4, NowhereLed
<1> DEFINE none == <<>>
<1>6. Len(none) = 0 /\ up[p] = none
  BY <1>1
<1> HIDE DEF none
<1>7. NothingAsked(up[p])
  BY <1>6 DEF NothingAsked
<1>8. QED
  BY <1>2, <1>4, <1>5, <1>7 DEF Fits

LEMMA NobodyWaits == TalkInv => NobodyForgotten
<1> SUFFICES ASSUME TalkInv, NEW p \in Proc, Quiet(p), state[p] \in WaitingReply PROVE FALSE
  BY DEF NobodyForgotten
<1>1. PICK v : AtRest(v, state[p])
  BY Resting
<1>2. QED
  BY <1>1 DEF AtRest, WaitingReply, Seated, Playing

(* A seat, as Held and as SeatsOf say it.                                  *)
LEMMA SeatIn ==
  ASSUME RoomsOrderly(rooms, nb_rooms), NEW p \in Proc
  PROVE  /\ \A i, j : HasSeat(p, i, j) => <<i, j>> \in SeatsOf(p)
         /\ \A s \in SeatsOf(p) : HasSeat(p, s[1], s[2])
<1>1. \A i \in LiveRooms : rooms[i].nb_players \in {1, 2}
  BY DEF RoomsOrderly, LiveRoom, LiveRooms
<1>2. ASSUME NEW i, NEW j, HasSeat(p, i, j) PROVE <<i, j>> \in SeatsOf(p)
  <2>1. i \in LiveRooms /\ j \in {0, 1} /\ j < rooms[i].nb_players /\ rooms[i].players[j].id = fd[p]
    BY <1>2 DEF HasSeat, Held, LiveRooms
  <2>2. j \in PlayerSeats(rooms[i])
    BY <1>1, <2>1 DEF PlayerSeats
  <2>3. QED
    BY <2>1, <2>2 DEF SeatsOf
<1>3. ASSUME NEW s \in SeatsOf(p) PROVE HasSeat(p, s[1], s[2])
  <2>1. /\ s[1] \in LiveRooms /\ s[2] \in {0, 1} /\ s[2] \in PlayerSeats(rooms[s[1]])
        /\ rooms[s[1]].players[s[2]].id = fd[p]
    BY <1>3 DEF SeatsOf
  <2>2. s[2] < rooms[s[1]].nb_players
    BY <1>1, <2>1 DEF PlayerSeats
  <2>3. QED
    BY <2>1, <2>2 DEF HasSeat, Held, LiveRooms
<1>4. QED
  BY <1>2, <1>3

LEMMA StatesAgree == TalkInv => Agreement
<1> SUFFICES ASSUME TalkInv, NEW p \in Proc, Quiet(p)
             PROVE  /\ state[p] = "IN_ROOM" => \E s \in SeatsOf(p) : ~rooms[s[1]].is_started
                    /\ state[p] = "IN_GAME" =>
                         \E s \in SeatsOf(p) : rooms[s[1]].is_started /\ rooms[s[1]].turn # s[2]
                    /\ state[p] = "WAITING_PLAY_INPUT" =>
                         \E s \in SeatsOf(p) : rooms[s[1]].is_started /\ rooms[s[1]].turn = s[2]
                    /\ state[p] = "CONNECTED" => SeatsOf(p) = {}
  BY DEF Agreement
<1>1. PICK v : View(p, v) /\ AtRest(v, state[p])
  BY Resting
<1>2. Orderly(rooms, nb_rooms, fd, names, places) /\ Distinct(fd, names)
  BY Ordered DEF Quiet
<1>3. /\ \A i, j : HasSeat(p, i, j) => <<i, j>> \in SeatsOf(p)
      /\ \A s \in SeatsOf(p) : HasSeat(p, s[1], s[2])
  BY <1>2, SeatIn DEF Orderly
<1>4. CASE state[p] \in Seated
  <2>1. v \in Seated /\ v = state[p]
    BY <1>1, <1>4 DEF AtRest, Seated, Playing
  <2>2. PICK i, j : HasSeat(p, i, j) /\ v = SeatView(rooms[i], j)
    BY <1>1, <2>1, ViewSeated DEF View, HasSeat
  <2>3a. PICK s : s = <<i, j>>
    OBVIOUS
  <2>3. s \in SeatsOf(p) /\ s[1] = i /\ s[2] = j
    BY <1>3, <2>2, <2>3a
  <2>4. /\ v = "IN_ROOM" => ~rooms[i].is_started
        /\ v = "IN_GAME" => rooms[i].is_started /\ rooms[i].turn # j
        /\ v = "WAITING_PLAY_INPUT" => rooms[i].is_started /\ rooms[i].turn = j
    BY <2>2 DEF SeatView
  <2>5. state[p] # "CONNECTED"
    BY <1>4 DEF Seated, Playing
  <2>6. QED
    BY <2>1, <2>3, <2>4, <2>5
<1>5. CASE state[p] = "CONNECTED"
  <2>1. v = "FREE"
    BY <1>1, <1>5 DEF AtRest, Seated, Playing
  <2>2. places[p] = 0
    BY <1>1, <2>1, ViewFree DEF View
  <2>3. \A i, j : ~HasSeat(p, i, j)
    BY <1>2, <2>2, Seating DEF HasSeat
  <2>4. SeatsOf(p) = {}
    BY <1>3, <2>3
  <2>5. QED
    BY <1>5, <2>4
<1>6. QED
  BY <1>4, <1>5 DEF Seated, Playing

LEMMA SeatsAreTheirs == TalkInv => SeatsLive
<1> SUFFICES ASSUME TalkInv, status = "up", NEW i \in LiveRooms, NEW j \in PlayerSeats(rooms[i]),
                    rooms[i].players[j].id # -1
             PROVE  \E c \in Connected : /\ clients[c].sock = rooms[i].players[j].id
                                         /\ clients[c].name = rooms[i].players[j].name
                                         /\ clients[c].room_id = rooms[i].id
  BY DEF SeatsLive
<1>1. Orderly(rooms, nb_rooms, fd, names, places) /\ KnownInv
  BY Ordered, Known DEF TalkInv
<1>2. Held(rooms, nb_rooms, i, j)
  <2>1. rooms[i].nb_players \in {1, 2}
    BY <1>1 DEF Orderly, RoomsOrderly, LiveRoom, LiveRooms
  <2>2. j \in {0, 1} /\ j < rooms[i].nb_players
    BY <2>1 DEF PlayerSeats
  <2>3. QED
    BY <2>2 DEF Held, LiveRooms
<1>3. PICK p \in Proc : /\ fd[p] = rooms[i].players[j].id /\ fd[p] # 0
                        /\ names[p] = rooms[i].players[j].name /\ places[p] = rooms[i].id
  BY <1>1, <1>2 DEF Orderly, SeatsOrderly
<1>4. PICK c \in Connected : clients[c].sock = fd[p]
  BY <1>1, <1>3 DEF KnownInv
<1>5. names[p] = clients[c].name /\ places[p] = clients[c].room_id
  BY <1>1, <1>4 DEF KnownInv
<1>6. QED
  BY <1>3, <1>4, <1>5

(* handle_play does not look at the turn, and need not: while nobody       *)
(* leaves a room, observes a game or ends one, a move that is read is that *)
(* of the player whose turn it is, however often players are disconnected, *)
(* come back, or are refused a move.                                       *)
THEOREM MovesComeInTurn == OnlyGames => (Spec => []PlayInTurn)
BY MovesInTurn, TalkAlways, PTL

(* In the same circumstances no client waits for an answer that is neither *)
(* being asked for nor on its way.                                         *)
THEOREM AnswersAreOnTheirWay == OnlyGames => (Spec => []NobodyForgotten)
BY NobodyWaits, TalkAlways, PTL

(* In the same circumstances, whenever nothing is in transit, the state of *)
(* the client's program and the server's arrays tell the same story.       *)
THEOREM ProgramsAgree == OnlyGames => (Spec => []Agreement)
BY StatesAgree, TalkAlways, PTL

(* In the same circumstances the socket in a player's seat is -1 or that   *)
(* of the connected client of that name and room.                          *)
THEOREM SeatsAreLive == OnlyGames => (Spec => []SeatsLive)
BY SeatsAreTheirs, TalkAlways, PTL

(***************************************************************************)
(* The rooms behave as the abstract lobby says.                            *)
(***************************************************************************)
RoomOf(r) == [id      |-> r.id,
              players |-> [k \in 1 .. r.nb_players |-> r.players[k - 1].name],
              turn    |-> r.turn]

LEMMA OpenIs == /\ OpenRooms = {RoomOf(rooms[i]) : i \in 0 .. nb_rooms - 1}
                /\ OpenRooms' = {RoomOf(rooms'[i]) : i \in 0 .. nb_rooms' - 1}
BY DEF OpenRooms, RoomOf, LiveRooms

LEMMA RoomOfId == \A r : RoomOf(r).id = r.id /\ RoomOf(r).turn = r.turn
BY DEF RoomOf

(* One room becomes another.                                               *)
LEMMA RoomReplaced ==
  ASSUME RoomsOrderly(rooms, nb_rooms), NEW i \in 0 .. nb_rooms - 1, nb_rooms' = nb_rooms,
         \A k \in 0 .. nb_rooms - 1 : k # i => RoomOf(rooms'[k]) = RoomOf(rooms[k])
  PROVE  OpenRooms' = (OpenRooms \ {RoomOf(rooms[i])}) \cup {RoomOf(rooms'[i])}
<1>1. \A k \in 0 .. nb_rooms - 1 : RoomOf(rooms[k]) = RoomOf(rooms[i]) => k = i
  <2>1. SUFFICES ASSUME NEW k \in 0 .. nb_rooms - 1, RoomOf(rooms[k]) = RoomOf(rooms[i])
                 PROVE  k = i
    OBVIOUS
  <2>2. rooms[k].id = rooms[i].id
    BY <2>1, RoomOfId
  <2>3. QED
    BY <2>2 DEF RoomsOrderly
<1>2. ASSUME NEW x PROVE x \in OpenRooms' <=>
        x \in (OpenRooms \ {RoomOf(rooms[i])}) \cup {RoomOf(rooms'[i])}
  BY <1>1, OpenIs
<1>3. QED
  BY <1>2

(* No room's players or turn change.                                       *)
LEMMA RoomsKept ==
  ASSUME nb_rooms' = nb_rooms,
         \A k \in 0 .. nb_rooms - 1 : RoomOf(rooms'[k]) = RoomOf(rooms[k])
  PROVE  OpenRooms' = OpenRooms
BY OpenIs

(* One room more.                                                          *)
LEMMA RoomAppended ==
  ASSUME nb_rooms \in Nat, nb_rooms' = nb_rooms + 1,
         \A k \in 0 .. nb_rooms - 1 : rooms'[k] = rooms[k]
  PROVE  OpenRooms' = OpenRooms \cup {RoomOf(rooms'[nb_rooms])}
<1>1. \A k \in 0 .. nb_rooms' - 1 : k = nb_rooms \/ k \in 0 .. nb_rooms - 1
  OBVIOUS
<1>2. nb_rooms \in 0 .. nb_rooms' - 1 /\ \A k \in 0 .. nb_rooms - 1 : k \in 0 .. nb_rooms' - 1
  OBVIOUS
<1>3. QED
  BY <1>1, <1>2, OpenIs

LEMMA SameRoom ==
  ASSUME NEW r, LiveRoom(r), NEW r2, r2.id = r.id, r2.nb_players = r.nb_players, r2.turn = r.turn,
         \A j \in {0, 1} : j < r.nb_players => r2.players[j].name = r.players[j].name
  PROVE  RoomOf(r2) = RoomOf(r)
<1>1. r.nb_players \in {1, 2}
  BY DEF LiveRoom
<1>2. \A k \in 1 .. r.nb_players : k - 1 \in {0, 1} /\ k - 1 < r.nb_players
  BY <1>1
<1>3. \A k \in 1 .. r.nb_players : r2.players[k - 1].name = r.players[k - 1].name
  BY <1>2
<1>4. QED
  BY <1>3 DEF RoomOf

(* Whoever holds which seat, the names in them stay.                       *)
LEMMA SameRooms ==
  ASSUME RoomsOrderly(rooms, nb_rooms), RoomsOrderly(rooms', nb_rooms), nb_rooms' = nb_rooms,
         SameNames(rooms, nb_rooms, rooms'), NEW k \in 0 .. nb_rooms - 1,
         rooms'[k].turn = rooms[k].turn
  PROVE  RoomOf(rooms'[k]) = RoomOf(rooms[k])
<1>1. LiveRoom(rooms[k]) /\ LiveRoom(rooms'[k])
  BY DEF RoomsOrderly
<1>2. Held(rooms, nb_rooms, k, 0)
  BY <1>1 DEF Held, LiveRoom
<1>3. Held(rooms', nb_rooms, k, 1) <=> Held(rooms, nb_rooms, k, 1)
  BY DEF SameNames
<1>4. rooms'[k].nb_players = rooms[k].nb_players
  BY <1>1, <1>3 DEF Held, LiveRoom
<1>5. rooms'[k].id = rooms[k].id
  BY <1>2 DEF SameNames
<1>6. \A j \in {0, 1} : j < rooms[k].nb_players => rooms'[k].players[j].name = rooms[k].players[j].name
  BY DEF SameNames, Held
<1>7. QED
  BY <1>1, <1>4, <1>5, <1>6, SameRoom

LEMMA LobbyInitially == Init => AbstractLobby!LobbyInit
<1> SUFFICES ASSUME Init PROVE OpenRooms = {}
  BY DEF AbstractLobby!LobbyInit
<1>1. nb_rooms = 0
  BY DEF Init, ServerInit
<1>2. QED
  BY <1>1, OpenIs

(* Who is in no room is the player of none.                                *)
LEMMA NobodysPlayer ==
  ASSUME Orderly(rooms, nb_rooms, fd, names, places), NEW p \in Proc,
         names[p] # Unnamed, places[p] = 0
  PROVE  AbstractLobby!Free(names[p])
<1> SUFFICES ASSUME NEW r \in OpenRooms, NEW k \in 1 .. Len(r.players), r.players[k] = names[p]
             PROVE  FALSE
  BY DEF AbstractLobby!Free, AbstractLobby!InRoom
<1>1. PICK i \in 0 .. nb_rooms - 1 : r = RoomOf(rooms[i])
  BY OpenIs
<1>2. rooms[i].nb_players \in {1, 2}
  BY DEF Orderly, RoomsOrderly, LiveRoom
<1>3. PICK n : n = rooms[i].nb_players
  OBVIOUS
<1>4. r.players = [l \in 1 .. n |-> rooms[i].players[l - 1].name] /\ n \in Nat
  BY <1>1, <1>2, <1>3 DEF RoomOf
<1>5. Len(r.players) = n
  BY <1>4
<1>6. k \in 1 .. n /\ r.players[k] = rooms[i].players[k - 1].name
  BY <1>4, <1>5
<1>7. Held(rooms, nb_rooms, i, k - 1)
  BY <1>2, <1>3, <1>6 DEF Held
<1>8. QED
  BY <1>6, <1>7 DEF Orderly, PlacesOrderly

(* A room is opened.                                                       *)
LEMMA LobbyCreates ==
  ASSUME TalkInv, status = "up", NEW c, HandleCreateRoom(c)
  PROVE  \E name \in AllNames, id \in Codes : AbstractLobby!Create(name, id)
<1>1. PICK p, m, v : Reader(c, p, m, v) /\ m.type = "CREATE_ROOM"
  BY Reading DEF HandleCreateRoom
<1>2. /\ Orderly(rooms, nb_rooms, fd, names, places) /\ RoomArrayInv /\ SocketsInv /\ OrderInv
  BY Ordered DEF OrderInv
<1>3. p \in Proc /\ names[p] = clients[c].name /\ View(p, v) /\ v = "FREE"
  BY <1>1, Creating DEF Reader
<1>4. names[p] # Unnamed /\ places[p] = 0
  BY <1>3, ViewFree DEF View
<1>5. AbstractLobby!Free(names[p]) /\ names[p] \in AllNames
  BY <1>2, <1>3, <1>4, NobodysPlayer DEF Orderly, PlacesOrderly
<1>6. PICK r2 : OpenedBy(r2, c) /\ rooms' = [rooms EXCEPT ![nb_rooms] = r2]
  BY <1>2, RoomOpened
<1>7. nb_rooms \in RoomSlots /\ nb_rooms' = nb_rooms + 1 /\ nb_rooms \in Nat
  BY <1>2, RoomOpened, LiveSlots DEF HandleCreateRoom
<1>8. rooms'[nb_rooms] = r2 /\ \A k \in 0 .. nb_rooms - 1 : rooms'[k] = rooms[k]
  BY <1>2, <1>6, <1>7, OpenedOrderly
<1>9. OpenRooms' = OpenRooms \cup {RoomOf(r2)}
  BY <1>7, <1>8, RoomAppended
<1>10. NewCode \in Codes /\ \A k \in 0 .. nb_rooms - 1 : rooms[k].id # NewCode
  BY <1>2, <1>7, SomeCodeFree, LiveSlots
<1>11. \A r \in OpenRooms : r.id # NewCode
  BY <1>10, OpenIs, RoomOfId
<1>12. RoomOf(r2) = AbstractLobby!Room(NewCode, <<names[p]>>, 0)
  <2>1. r2.id = NewCode /\ r2.nb_players = 1 /\ r2.turn = 0 /\ r2.players[0].name = names[p]
    BY <1>3, <1>6 DEF OpenedBy, SeatedIn
  <2>2. [k \in 1 .. 1 |-> r2.players[k - 1].name] = <<names[p]>>
    BY <2>1
  <2>3. QED
    BY <2>1, <2>2 DEF RoomOf, AbstractLobby!Room
<1>13. AbstractLobby!Create(names[p], NewCode)
  BY <1>5, <1>9, <1>11, <1>12 DEF AbstractLobby!Create
<1>14. QED
  BY <1>5, <1>10, <1>13

(* A second player enters.                                                 *)
LEMMA LobbyJoins ==
  ASSUME TalkInv, status = "up", NEW c, HandleJoinRoom(c)
  PROVE  \E r \in OpenRooms : \E name \in AllNames : AbstractLobby!Join(name, r)
<1>1. PICK p, m, v : Reader(c, p, m, v) /\ m.type = "JOIN_ROOM"
  BY Reading DEF HandleJoinRoom
<1>2. /\ Orderly(rooms, nb_rooms, fd, names, places) /\ RoomArrayInv /\ OrderInv
  BY Ordered DEF OrderInv
<1>3. /\ p \in Proc /\ names[p] = clients[c].name /\ View(p, v) /\ v = "FREE"
      /\ ~Message(c).spectate
  BY <1>1, JoiningRoom DEF Reader
<1>4. names[p] # Unnamed /\ places[p] = 0
  BY <1>3, ViewFree DEF View
<1>5. AbstractLobby!Free(names[p]) /\ names[p] \in AllNames
  BY <1>2, <1>3, <1>4, NobodysPlayer DEF Orderly, PlacesOrderly
<1>6. PICK i \in 0 .. nb_rooms - 1 : \E r2, out, jrs :
        Startable(rooms[i]) /\ Joining2(c, i, r2, out, jrs)
  BY <1>2, <1>3, JoinRoomWrites
<1>7. PICK r2 : /\ Startable(rooms[i]) /\ JoinedBy(rooms[i], r2, c)
                /\ rooms' = [rooms EXCEPT ![i] = r2]
  BY <1>6 DEF Joining2
<1>8. nb_rooms' = nb_rooms /\ i \in RoomSlots /\ IsRoom(r2)
  BY <1>2, <1>7, LiveSlots DEF HandleJoinRoom, JoinedBy
<1>9. rooms'[i] = r2 /\ \A k \in 0 .. nb_rooms - 1 : k # i => rooms'[k] = rooms[k]
  BY <1>2, <1>7, <1>8, RoomWritten, LiveSlots DEF RoomArrayInv
<1>10. OpenRooms' = (OpenRooms \ {RoomOf(rooms[i])}) \cup {RoomOf(r2)}
  BY <1>2, <1>8, <1>9, RoomReplaced DEF Orderly
<1>11. PICK r : r = RoomOf(rooms[i])
  OBVIOUS
<1>12. /\ r \in OpenRooms /\ r.id = rooms[i].id
       /\ r.players = [k \in 1 .. 1 |-> rooms[i].players[0].name]
  <2>1. rooms[i].nb_players = 1
    BY <1>7 DEF Startable
  <2>2. [k \in 1 .. 1 |-> rooms[i].players[k - 1].name] = [k \in 1 .. 1 |-> rooms[i].players[0].name]
    OBVIOUS
  <2>3. QED
    BY <1>11, <2>1, <2>2, OpenIs DEF RoomOf
<1>13. /\ r2.id = r.id /\ r2.turn = 0 /\ r2.nb_players = 2
       /\ r2.players[0].name = rooms[i].players[0].name /\ r2.players[1].name = names[p]
  BY <1>3, <1>7, <1>12 DEF JoinedBy, SeatedIn
<1>14. [k \in 1 .. 2 |-> r2.players[k - 1].name] = Append(r.players, names[p]) /\ Len(r.players) = 1
  <2>1. PICK a, b : a = r2.players[0].name /\ b = r2.players[1].name
    OBVIOUS
  <2>2. r.players = <<a>> /\ names[p] = b
    BY <1>12, <1>13, <2>1
  <2>3. [k \in 1 .. 2 |-> r2.players[k - 1].name] = <<a, b>>
    BY <2>1
  <2>4. QED
    BY <2>2, <2>3
<1>15. RoomOf(r2) = AbstractLobby!Room(r.id, Append(r.players, names[p]), 0)
  BY <1>13, <1>14 DEF RoomOf, AbstractLobby!Room
<1>16. AbstractLobby!Join(names[p], r)
  BY <1>5, <1>10, <1>11, <1>12, <1>14, <1>15 DEF AbstractLobby!Join
<1>17. QED
  BY <1>5, <1>12, <1>16

(* A move.                                                                 *)
LEMMA LobbyMoves ==
  ASSUME TalkInv, status = "up", NEW c, ValidPlay(c)
  PROVE  \E r \in OpenRooms : AbstractLobby!Move(r)
<1>1. PICK p, m, v : Reader(c, p, m, v) /\ m.type = "PLAY"
  BY Reading DEF ValidPlay
<1>2. Orderly(rooms, nb_rooms, fd, names, places) /\ RoomArrayInv
  BY Ordered
<1>3. v = "WAITING_PLAY_INPUT"
  BY <1>1, PlayingMove DEF Reader
<1>4. v \in Seated
  BY <1>3 DEF Seated, Playing
<1>5. PICK i, j : /\ v = SeatView(rooms[i], j) /\ RoomIndex(clients[c].room_id) = i
                  /\ i \in 0 .. nb_rooms - 1 /\ LiveRoom(rooms[i])
  BY <1>1, <1>4, SeatOfReader
<1>6. rooms[i].is_started /\ rooms[i].nb_players = 2
  BY <1>3, <1>5, Mover
<1>7. rooms' = [rooms EXCEPT ![i].turn = 1 - @] /\ nb_rooms' = nb_rooms
  BY <1>5 DEF ValidPlay
<1>8. /\ RoomsOrderly(rooms', nb_rooms) /\ SameNames(rooms, nb_rooms, rooms')
      /\ rooms'[i].turn = 1 - rooms[i].turn
      /\ \A k \in 0 .. nb_rooms - 1 : k # i => rooms'[k] = rooms[k]
  BY <1>2, <1>5, <1>6, <1>7, RoomTurned DEF Turned
<1>9. OpenRooms' = (OpenRooms \ {RoomOf(rooms[i])}) \cup {RoomOf(rooms'[i])}
  BY <1>2, <1>5, <1>7, <1>8, RoomReplaced DEF Orderly
<1>10. PICK r : r = RoomOf(rooms[i])
  OBVIOUS
<1>11. r \in OpenRooms
  BY <1>5, <1>10, OpenIs
<1>12. Len(r.players) = 2
  BY <1>6, <1>10 DEF RoomOf
<1>13. RoomOf(rooms'[i]) = AbstractLobby!Room(r.id, r.players, 1 - r.turn)
  <2>1. LiveRoom(rooms'[i]) /\ Held(rooms, nb_rooms, i, 0) /\ Held(rooms, nb_rooms, i, 1)
    BY <1>5, <1>6, <1>8 DEF RoomsOrderly, Held
  <2>2. Held(rooms', nb_rooms, i, 1) /\ rooms'[i].id = rooms[i].id
    BY <2>1, <1>8 DEF SameNames
  <2>3. rooms'[i].nb_players = 2
    BY <2>1, <2>2 DEF LiveRoom, Held
  <2>4. /\ rooms'[i].players[0].name = rooms[i].players[0].name
        /\ rooms'[i].players[1].name = rooms[i].players[1].name
    BY <1>8, <2>1 DEF SameNames
  <2>5. [k \in 1 .. 2 |-> rooms'[i].players[k - 1].name]
          = [k \in 1 .. 2 |-> rooms[i].players[k - 1].name]
    BY <2>4
  <2>6. QED
    BY <1>6, <1>8, <1>10, <2>2, <2>3, <2>5 DEF RoomOf, AbstractLobby!Room
<1>14. AbstractLobby!Move(r)
  BY <1>9, <1>10, <1>11, <1>12, <1>13 DEF AbstractLobby!Move
<1>15. QED
  BY <1>11, <1>14

(* Coming back to a seat, and being disconnected from it, do not show.     *)
LEMMA LobbyRejoin ==
  ASSUME TalkInv, status = "up", NEW c, Rejoin(c) PROVE OpenRooms' = OpenRooms
<1>1. PICK p, m, v : Reader(c, p, m, v) /\ m.type = "CONNECT"
  BY Reading DEF Rejoin
<1>2. /\ Orderly(rooms, nb_rooms, fd, names, places) /\ RoomArrayInv /\ OrderInv /\ SocketsInv
  BY Ordered DEF OrderInv
<1>3. c \in ClientSlots
  BY <1>1 DEF Reader
<1>4. PICK i, j, r : /\ Held(rooms, nb_rooms, i, j)
                     /\ rooms[i].players[j].name = Message(c).name
                     /\ rooms' = [rooms EXCEPT ![i].players[j].id = clients[c].sock]
                     /\ clients'[c].room_id = rooms[i].id
                     /\ r = Welcome(rooms[i], j, clients)
                     /\ Emit(Process(c), <<To(clients[c].sock, r)>>)
  BY <1>2, <1>3, RejoinWrites DEF SocketsInv
<1>5. nb_rooms' = nb_rooms
  BY DEF Rejoin
<1>6. PICK x : x = clients[c].sock
  OBVIOUS
<1>7. Rewritten(i, j, x)
  <2>1. rooms' = [rooms EXCEPT ![i].players[j].id = x]
    BY <1>4, <1>6
  <2>2. QED
    BY <1>2, <1>4, <1>5, <2>1, SeatRewritten
<1>8. \A k \in 0 .. nb_rooms - 1 : RoomOf(rooms'[k]) = RoomOf(rooms[k])
  BY <1>2, <1>5, <1>7, SameRooms DEF Orderly, Rewritten, SameTurns
<1>9. QED
  BY <1>5, <1>8, RoomsKept

LEMMA LobbyDisconnect ==
  ASSUME TalkInv, status = "up", NEW c, Disconnect(c) PROVE OpenRooms' = OpenRooms
<1>1. PICK type : Reads(c, type)
  BY DEF Disconnect
<1>2. PICK p, m, v : Reader(c, p, m, v)
  BY <1>1, Reading
<1>3. Orderly(rooms, nb_rooms, fd, names, places) /\ nb_rooms' = nb_rooms
  BY Ordered DEF Disconnect
<1>4. Vacated(p)
  BY <1>2, DisconnectRooms DEF Reader
<1>5. \A k \in 0 .. nb_rooms - 1 : RoomOf(rooms'[k]) = RoomOf(rooms[k])
  BY <1>3, <1>4, SameRooms DEF Orderly, Vacated, SameTurns
<1>6. QED
  BY <1>3, <1>5, RoomsKept

LEMMA LobbyHandles ==
  ASSUME OnlyGames, TalkInv, NEW c \in ClientSlots,
         \/ HandleConnect(c) \/ HandleCreateRoom(c) \/ CreateOutOfBounds(c)
         \/ HandleJoinRoom(c) \/ RefuseJoinRoom(c)
         \/ HandlePlay(c) \/ HandleLeave(c)
         \/ HandleSendMessage(c) \/ HandleSetBiography(c)
         \/ Disconnect(c)
  PROVE  [AbstractLobby!LobbyNext]_OpenRooms
<1>1. CASE UNCHANGED <<rooms, nb_rooms>>
  BY <1>1 DEF OpenRooms, LiveRooms
<1>2. CASE HandleCreateRoom(c)
  <2>1. status = "up"
    BY <1>2 DEF HandleCreateRoom, Reads
  <2>2. \E name \in AllNames, id \in Codes : AbstractLobby!Create(name, id)
    BY <1>2, <2>1, LobbyCreates
  <2>3. QED
    BY <2>2 DEF AbstractLobby!LobbyNext, AllNames
<1>3. CASE HandleJoinRoom(c)
  <2>1. status = "up"
    BY <1>3 DEF HandleJoinRoom, Reads
  <2>2. \E r \in OpenRooms : \E name \in AllNames : AbstractLobby!Join(name, r)
    BY <1>3, <2>1, LobbyJoins
  <2>3. QED
    BY <2>2 DEF AbstractLobby!LobbyNext, AllNames
<1>4. CASE ValidPlay(c)
  <2>1. status = "up"
    BY <1>4 DEF ValidPlay, Reads
  <2>2. \E r \in OpenRooms : AbstractLobby!Move(r)
    BY <1>4, <2>1, LobbyMoves
  <2>3. QED
    BY <2>2 DEF AbstractLobby!LobbyNext
<1>5. CASE Rejoin(c)
  BY <1>5, LobbyRejoin DEF Rejoin, Reads
<1>6. CASE Disconnect(c)
  BY <1>6, LobbyDisconnect DEF Disconnect, Reads
<1>7. ~HandleLeave(c) /\ ~EndingPlay(c) /\ ~PlayNowhere(c)
  BY NeverHandled
<1>8. \/ UNCHANGED <<rooms, nb_rooms>> \/ HandleCreateRoom(c) \/ HandleJoinRoom(c)
      \/ ValidPlay(c) \/ Rejoin(c) \/ Disconnect(c)
  BY <1>7 DEF HandleConnect, RefuseConnection, AcceptConnection, CreateOutOfBounds, RefuseJoinRoom,
     HandlePlay, RejectPlay, HandleSendMessage, HandleSetBiography
<1>9. QED
  BY <1>1, <1>2, <1>3, <1>4, <1>5, <1>6, <1>8

LEMMA LobbyStep == OnlyGames /\ TalkInv /\ [Next]_vars => [AbstractLobby!LobbyNext]_OpenRooms
<1> SUFFICES ASSUME OnlyGames, TalkInv, [Next]_vars PROVE [AbstractLobby!LobbyNext]_OpenRooms
  OBVIOUS
<1>1. CASE UNCHANGED <<rooms, nb_rooms>>
  BY <1>1 DEF OpenRooms, LiveRooms
<1>2. CASE Serve
  <2>1. Accept \/ AcceptOutOfBounds => UNCHANGED <<rooms, nb_rooms>>
    BY DEF Accept, AcceptOutOfBounds
  <2>2. QED
    BY <1>1, <1>2, <2>1, LobbyHandles DEF Serve, ServerStep
<1>3. CASE ~Serve
  <2>1. UNCHANGED <<rooms, nb_rooms>>
    BY <1>3 DEF Next, Stop, Shutdown, Connect, User, ClientReceives, Lost, Network, serverVars, vars
  <2>2. QED
    BY <1>1, <2>1
<1>4. QED
  BY <1>2, <1>3

(* While nobody leaves a room, observes a game or ends one, the server's   *)
(* arrays implement the abstract lobby: rooms are opened under new codes by*)
(* people who play in none, joined once, and their turns alternate, while  *)
(* disconnections and returns change nothing.                              *)
THEOREM ArraysImplementLobby == OnlyGames => (Spec => ImplementsLobby)
<1>1. OnlyGames /\ TalkInv /\ [Next]_vars => [AbstractLobby!LobbyNext]_OpenRooms
  BY LobbyStep
<1>2. ASSUME OnlyGames PROVE Spec => ImplementsLobby
  <2>1. TalkInv /\ [Next]_vars => [AbstractLobby!LobbyNext]_OpenRooms
    BY <1>1, <1>2
  <2>2. Spec => []TalkInv
    BY <1>2, TalkAlways
  <2>3. QED
    BY <2>1, <2>2, LobbyInitially, PTL DEF Spec, ImplementsLobby, AbstractLobby!LobbySpec
<1>3. QED
  BY <1>2

(***************************************************************************)
(* The arrays do not overflow if there is room for everybody.              *)
(***************************************************************************)
RoomForAll == /\ IsFiniteSet(Proc) /\ Cardinality(Proc) <= MAX_CLIENTS
              /\ IsFiniteSet(AllNames) /\ Cardinality(AllNames) <= MAX_ROOMS

LEMMA Numbered == \A n \in Nat : /\ IsFiniteSet(0 .. n) /\ Cardinality(0 .. n) = n + 1
<1> SUFFICES ASSUME NEW n \in Nat PROVE IsFiniteSet(0 .. n) /\ Cardinality(0 .. n) = n + 1
  OBVIOUS
<1>1. 0 \in Int /\ n \in Int /\ ~(0 > n) /\ n - 0 + 1 = n + 1
  OBVIOUS
<1>2. QED
  BY <1>1, FS_Interval

(* Who asks for a room has a name that is in no room, and each room has a  *)
(* name of its own in it.                                                  *)
LEMMA RoomForRoom ==
  ASSUME RoomForAll, TalkInv, NEW c, Reads(c, "CREATE_ROOM") PROVE nb_rooms \in RoomSlots
<1>1. status = "up" /\ \E p, m, v : Reader(c, p, m, v) /\ m.type = "CREATE_ROOM"
  BY Reading
<1>2. PICK p, m, v : Reader(c, p, m, v) /\ m.type = "CREATE_ROOM"
  BY <1>1
<1>3. Orderly(rooms, nb_rooms, fd, names, places) /\ RoomArrayInv
  BY <1>1, Ordered
<1>4. p \in Proc /\ View(p, v) /\ v = "FREE"
  BY <1>2, Creating DEF Reader
<1>5. names[p] # Unnamed /\ places[p] = 0
  BY <1>4, ViewFree DEF View
<1>6. /\ nb_rooms \in Nat /\ MAX_ROOMS \in Nat /\ nb_rooms <= MAX_ROOMS
      /\ RoomSlots = 0 .. MAX_ROOMS - 1
  BY <1>3, LiveSlots
<1> DEFINE f == [k \in 0 .. nb_rooms |-> IF k = nb_rooms THEN names[p] ELSE rooms[k].players[0].name]
<1>7. \A k \in 0 .. nb_rooms - 1 : Held(rooms, nb_rooms, k, 0)
  BY <1>3 DEF Held, Orderly, RoomsOrderly, LiveRoom
<1>8. \A k \in 0 .. nb_rooms : k = nb_rooms \/ k \in 0 .. nb_rooms - 1
  BY <1>6
<1>9. \A k \in 0 .. nb_rooms : f[k] \in AllNames
  <2>1. names[p] \in AllNames
    BY <1>3, <1>4, <1>5 DEF Orderly, PlacesOrderly
  <2>2. \A k \in 0 .. nb_rooms - 1 : rooms[k].players[0].name \in AllNames
    BY <1>3, <1>7 DEF Orderly, NamesOrderly, SeatsNamed
  <2>3. QED
    BY <1>8, <2>1, <2>2
<1>10. \A k, l \in 0 .. nb_rooms : f[k] = f[l] => k = l
  <2>1. \A k \in 0 .. nb_rooms - 1 : rooms[k].players[0].name # names[p]
    BY <1>3, <1>4, <1>5, <1>7 DEF Orderly, PlacesOrderly
  <2>2. \A k, l \in 0 .. nb_rooms - 1 :
          rooms[k].players[0].name = rooms[l].players[0].name => k = l
    BY <1>3, <1>7 DEF Orderly, NamesOrderly, SeatsDiffer
  <2>3. QED
    BY <1>8, <2>1, <2>2
<1>11. f \in [0 .. nb_rooms -> AllNames]
  BY <1>9
<1> HIDE DEF f
<1>12. nb_rooms # MAX_ROOMS
  <2>1. SUFFICES ASSUME nb_rooms = MAX_ROOMS PROVE FALSE
    OBVIOUS
  <2>2. IsFiniteSet(0 .. nb_rooms) /\ Cardinality(0 .. nb_rooms) = nb_rooms + 1
    BY <1>6, Numbered
  <2>3. IsFiniteSet(AllNames) /\ Cardinality(AllNames) <= MAX_ROOMS /\ Cardinality(AllNames) \in Nat
    BY FS_CardinalityType DEF RoomForAll
  <2>4. Cardinality(AllNames) < Cardinality(0 .. nb_rooms)
    BY <1>6, <2>1, <2>2, <2>3
  <2>5. PICK k, l \in 0 .. nb_rooms : k # l /\ f[k] = f[l]
    BY <1>11, <2>2, <2>3, <2>4, FS_PigeonHole
  <2>6. QED
    BY <1>10, <2>5
<1>13. QED
  BY <1>6, <1>12

(* Who waits to be accepted is not yet connected.                          *)
LEMMA RoomForClient ==
  ASSUME RoomForAll, SocketsInv, backlog # <<>> PROVE nb_clients < MAX_CLIENTS
<1>1. /\ MAX_CLIENTS \in Nat /\ nb_clients \in Nat /\ nb_clients <= MAX_CLIENTS
      /\ Connected = 0 .. nb_clients - 1
  BY Counters DEF SocketsInv
<1>2. backlog \in Seq(Proc) /\ \A k \in 1 .. Len(backlog) : fd[backlog[k]] = 0
  BY DEF SocketsInv, BacklogInv
<1>3. PICK q : q = backlog[1]
  OBVIOUS
<1>4. q \in Proc /\ fd[q] = 0
  <2>1. 1 \in 1 .. Len(backlog)
    BY <1>2
  <2>2. QED
    BY <1>2, <1>3, <2>1
<1> DEFINE f == [k \in 0 .. nb_clients |-> IF k = nb_clients THEN q ELSE Process(k)]
<1>5. \A k \in Connected : /\ Process(k) \in Proc /\ fd[Process(k)] = clients[k].sock
                           /\ clients[k].sock # 0
  BY ProcessOfSlot DEF SocketsInv, SlotsInv
<1>6. \A k \in 0 .. nb_clients : k = nb_clients \/ k \in Connected
  BY <1>1
<1>7. \A k \in 0 .. nb_clients : f[k] \in Proc
  BY <1>4, <1>5, <1>6
<1>8. \A k, l \in 0 .. nb_clients : f[k] = f[l] => k = l
  <2>1. \A k \in Connected : Process(k) # q
    BY <1>4, <1>5
  <2>2. \A k, l \in Connected : Process(k) = Process(l) => k = l
    BY <1>5 DEF SocketsInv, SlotsInv
  <2>3. QED
    BY <1>6, <2>1, <2>2
<1>9. f \in [0 .. nb_clients -> Proc]
  BY <1>7
<1> HIDE DEF f
<1>10. nb_clients # MAX_CLIENTS
  <2>1. SUFFICES ASSUME nb_clients = MAX_CLIENTS PROVE FALSE
    OBVIOUS
  <2>2. IsFiniteSet(0 .. nb_clients) /\ Cardinality(0 .. nb_clients) = nb_clients + 1
    BY <1>1, Numbered
  <2>3. IsFiniteSet(Proc) /\ Cardinality(Proc) <= MAX_CLIENTS /\ Cardinality(Proc) \in Nat
    BY FS_CardinalityType DEF RoomForAll
  <2>4. Cardinality(Proc) < Cardinality(0 .. nb_clients)
    BY <1>1, <2>1, <2>2, <2>3
  <2>5. PICK k, l \in 0 .. nb_clients : k # l /\ f[k] = f[l]
    BY <1>9, <2>2, <2>3, <2>4, FS_PigeonHole
  <2>6. QED
    BY <1>8, <2>5
<1>11. QED
  BY <1>1, <1>10

LEMMA EmitsStatus ==
  ASSUME NEW p, NEW out, Emit(p, out) PROVE status' = status \/ status' = "exited"
BY DEF Emit

LEMMA NextBounds ==
  ASSUME OnlyGames, RoomForAll, TalkInv, RoomsInBounds, [Next]_vars PROVE RoomsInBounds'
<1>1. status # "corrupt" /\ nb_rooms \in 0 .. MAX_ROOMS /\ MAX_ROOMS \in Nat
  BY ServerAssumption DEF RoomsInBounds
<1>2. CASE Serve
  <2>1. ~AcceptOutOfBounds
    <3>1. SocketsInv /\ nb_clients \in Nat /\ MAX_CLIENTS \in Nat
      BY Counters DEF TalkInv, SocketsInv
    <3>2. backlog # <<>> => nb_clients < MAX_CLIENTS
      BY <3>1, RoomForClient
    <3>3. QED
      BY <3>1, <3>2 DEF AcceptOutOfBounds
  <2>2. \A c \in ClientSlots : ~CreateOutOfBounds(c)
    BY RoomForRoom DEF CreateOutOfBounds
  <2>3. CASE Accept
    BY <1>1, <2>3 DEF Accept, RoomsInBounds
  <2>4. ASSUME NEW c \in ClientSlots, HandleCreateRoom(c) PROVE RoomsInBounds'
    <3>1. nb_rooms' = nb_rooms + 1 /\ nb_rooms \in RoomSlots
      BY <2>4 DEF HandleCreateRoom
    <3>2. status' = status \/ status' = "exited"
      BY <2>4, EmitsStatus DEF HandleCreateRoom
    <3>3. QED
      BY <1>1, <3>1, <3>2 DEF RoomsInBounds, RoomSlots
  <2>5. ASSUME NEW c \in ClientSlots,
               \/ HandleConnect(c) \/ HandleJoinRoom(c) \/ RefuseJoinRoom(c)
               \/ RejectPlay(c) \/ ValidPlay(c) \/ HandleSendMessage(c) \/ HandleSetBiography(c)
               \/ Disconnect(c)
        PROVE  RoomsInBounds'
    <3>1. nb_rooms' = nb_rooms
      BY <2>5 DEF HandleConnect, RefuseConnection, AcceptConnection, Rejoin, HandleJoinRoom,
         RefuseJoinRoom, RejectPlay, ValidPlay, HandleSendMessage, HandleSetBiography, Disconnect
    <3>2. status' = status \/ status' = "exited"
      BY <2>5, EmitsStatus DEF HandleConnect, RefuseConnection, AcceptConnection, Rejoin,
         HandleJoinRoom, RefuseJoinRoom, RejectPlay, ValidPlay, HandleSendMessage,
         HandleSetBiography, Disconnect
    <3>3. QED
      BY <1>1, <3>1, <3>2 DEF RoomsInBounds
  <2>6. \A c \in ClientSlots : ~HandleLeave(c) /\ ~EndingPlay(c) /\ ~PlayNowhere(c)
    BY NeverHandled
  <2>7. QED
    BY <1>2, <2>1, <2>2, <2>3, <2>4, <2>5, <2>6 DEF Serve, ServerStep, HandlePlay
<1>3. CASE ~Serve
  <2>1. nb_rooms' = nb_rooms /\ (status' = status \/ status' = "exited")
    BY <1>3 DEF Next, Stop, Shutdown, Connect, User, ClientReceives, Lost, Network, serverVars, vars
  <2>2. QED
    BY <1>1, <2>1 DEF RoomsInBounds
<1>4. QED
  BY <1>2, <1>3

(* The code compares neither nb_clients nor nb_rooms with the size of the  *)
(* array.  If no more programs are started than the one has slots, nor more*)
(* names used than the other has, and nobody leaves a room, observes a game*)
(* or ends one, it does not write beyond either: a name has one seat, kept *)
(* while its owner is away, so that there are no more rooms than names.    *)
THEOREM ArraysSuffice == OnlyGames /\ RoomForAll => (Spec => []RoomsInBounds)
<1>1. Init => RoomsInBounds
  BY ServerAssumption DEF Init, ServerInit, RoomsInBounds
<1>2. ASSUME OnlyGames, RoomForAll PROVE Spec => []RoomsInBounds
  <2>1. TalkInv /\ RoomsInBounds /\ [Next]_vars => RoomsInBounds'
    BY <1>2, NextBounds
  <2>2. Spec => []TalkInv
    BY <1>2, TalkAlways
  <2>3. QED
    BY <1>1, <2>1, <2>2, PTL DEF Spec
<1>3. QED
  BY <1>2


(***************************************************************************)
(* Where a message goes.                                                   *)
(***************************************************************************)
(* A process that has sent something gets nothing read by this step.       *)
Unread(p) == \/ up'[p] = up[p] \/ \E m : up'[p] = Append(up[p], m)
             \/ \E x : up'[p] = [up[p] EXCEPT ![Len(up[p])] = x]

LEMMA UnreadStays ==
  ASSUME NEW p, IsSequence(up[p]), up[p] # <<>>, Unread(p) PROVE up'[p] # Tail(up[p])
<1>0. PICK S : up[p] \in Seq(S)
  BY DEF IsSequence
<1>1. up[p] \in Seq(S) /\ Len(up[p]) \in Nat \ {0}
  BY <1>0, LengthIsNat
<1>2. Len(Tail(up[p])) = Len(up[p]) - 1
  BY <1>1
<1>3. CASE up'[p] = up[p]
  <2>1. Len(up[p]) # Len(Tail(up[p]))
    BY <1>1, <1>2
  <2>2. QED
    BY <1>3, <2>1
<1>4. CASE \E m : up'[p] = Append(up[p], m)
  <2>1. PICK m : up'[p] = Append(up[p], m)
    BY <1>4
  <2>2. up[p] \in Seq(S \cup {m})
    BY <1>1
  <2>3. Len(Append(up[p], m)) = Len(up[p]) + 1
    BY <2>2
  <2>4. QED
    BY <1>1, <1>2, <2>1, <2>3
<1>5. CASE \E x : up'[p] = [up[p] EXCEPT ![Len(up[p])] = x]
  <2>1. PICK x : up'[p] = [up[p] EXCEPT ![Len(up[p])] = x]
    BY <1>5
  <2>2. up[p] \in Seq(S \cup {x}) /\ x \in S \cup {x} /\ Len(up[p]) \in 1 .. Len(up[p])
    BY <1>1
  <2>3. Len([up[p] EXCEPT ![Len(up[p])] = x]) = Len(up[p])
    BY <2>2
  <2>4. QED
    BY <1>1, <1>2, <2>1, <2>3
<1>6. QED
  BY <1>3, <1>4, <1>5 DEF Unread

(* Typing, receiving and resets read nothing.                              *)
LEMMA ClientsReadNothing ==
  ASSUME up = [q \in Proc |-> up[q]], NEW p \in Proc, ~Reset(p), NEW q \in Proc,
         Connect(q) \/ User(q) \/ ClientReceives(q) \/ Network(q)
  PROVE  Unread(p)
<1>1. (\E m : up' = [up EXCEPT ![q] = Append(@, m)]) \/ up' = up => Unread(p)
  BY DEF Unread
<1>2. CASE Connect(q)
  BY <1>1, <1>2 DEF Connect, Start, wires
<1>3. CASE User(q)
  <2>1. (\E m : Sends(q, m)) \/ HangUp(q) \/ UNCHANGED wires
    BY <1>3 DEF User, UserInput, EnterName, ChooseCreate, ChooseJoin, ChooseSpectate, ChooseBio,
                EnterRoomToJoin, EnterRoomToSpectate, EnterBio, EnterMove, Leave, EnterMessage, Close
  <2>2. QED
    BY <1>1, <2>1 DEF Sends, HangUp, wires
<1>4. CASE ClientReceives(q)
  <2>1. up' = up
    BY <1>4 DEF ClientReceives, Receive, Handles, HandleConnectionSuccessful,
       HandleConnectionRefused, HandleRoomCreationSuccessful, HandleJoinRoomSuccessful,
       HandleJoinRoomRefused, HandlePlayed, HandleGameStart, HandleGameStopped, HandleMessage,
       HandleInvalidPlay
  <2>2. QED
    BY <1>1, <2>1
<1>5. CASE Network(q)
  BY <1>5 DEF Network, ResetArrives, Unread
<1>6. QED
  BY <1>2, <1>3, <1>4, <1>5

(* What is written while a message of somebody else's is handled reads     *)
(* nothing either.                                                         *)
LEMMA EmitReadsNothing ==
  ASSUME NEW reader, NEW out, Emit(reader, out), NEW p \in Proc, p # reader
  PROVE  Unread(p)
<1>1. \E o : Deliver(reader, o)
  BY DEF Emit
<1>2. PICK o : Deliver(reader, o)
  BY <1>1
<1>3. up'[p] = Provoked(up[p], MessagesTo(p, o))
  BY <1>2 DEF Deliver
<1>4. QED
  BY <1>3 DEF Provoked, Unread

(* Who has ended has said so, and is sent nothing more.                    *)
EndedInv == status = "up" => \A p \in Proc : state[p] = "EXITED" =>
              /\ EndsGone(up[p]) /\ down[p] = <<>>

LEMMA LastKept ==
  ASSUME NEW u, IsSequence(u), EndsGone(u), ~IsEnd(Head(u)) PROVE EndsGone(Tail(u))
<1>0. PICK S : u \in Seq(S)
  BY DEF IsSequence
<1>1. u \in Seq(S) /\ Len(u) \in Nat \ {0}
  BY <1>0, LengthIsNat DEF EndsGone
<1>2. u[Len(u)] \in {FIN, RST} /\ IsEnd(u[Len(u)])
  BY DEF EndsGone, IsEnd, FIN, RST
<1>3. Len(u) # 1
  BY <1>1, <1>2
<1>3a. Len(u) - 1 \in Nat \ {0} /\ Len(u) - 1 \in 1 .. Len(u) - 1
  <2>1. PICK n : n = Len(u)
    OBVIOUS
  <2>2. n \in Nat /\ n # 0 /\ n # 1
    BY <1>1, <1>3, <2>1
  <2>3. n - 1 \in Nat /\ n - 1 # 0 /\ n - 1 \in 1 .. n - 1
    BY <2>2
  <2>4. QED
    BY <2>1, <2>3
<1>4. Len(Tail(u)) = Len(u) - 1
  BY <1>1
<1>5. Tail(u)[Len(u) - 1] = u[Len(u)]
  BY <1>1, <1>3
<1>6. Tail(u) # <<>>
  <2>1. Len(Tail(u)) # 0
    BY <1>3a, <1>4
  <2>2. IsSequence(Tail(u))
    BY <1>1 DEF IsSequence
  <2>3. QED
    BY <2>1, <2>2, LengthIsNat
<1>7. QED
  BY <1>2, <1>3a, <1>4, <1>5, <1>6 DEF EndsGone

LEMMA EndProvoked ==
  ASSUME NEW u, IsSequence(u), EndsGone(u), NEW ms PROVE EndsGone(Provoked(u, ms))
<1> DEFINE w == [u EXCEPT ![Len(u)] = RST]
<1>0. PICK S : u \in Seq(S)
  BY DEF IsSequence
<1>1. CASE Provoked(u, ms) = u
  BY <1>1
<1>2. CASE Provoked(u, ms) = w
  <2>1. u \in Seq(S \cup {RST}) /\ Len(u) \in Nat \ {0}
    BY <1>0, LengthIsNat DEF EndsGone
  <2>2. Len(w) = Len(u) /\ w[Len(u)] = RST
    BY <2>1
  <2>3. w # <<>>
    BY <2>1, <2>2
  <2> HIDE DEF w
  <2>4. QED
    BY <1>2, <2>2, <2>3 DEF EndsGone
<1>3. QED
  BY <1>1, <1>2 DEF Provoked

(* Receiving a message does not end a client.                              *)
LEMMA HandlesRuns ==
  ASSUME ClientTypeOK, NEW p \in Proc, NEW type, NEW Reaction, Handles(p, type, Reaction),
         \A x \in DOMAIN Reaction : Reaction[x] # "EXITED"
  PROVE  state'[p] # "EXITED"
<1>1. state'[p] = IF state[p] \in DOMAIN Reaction THEN Reaction[state[p]] ELSE state[p]
  BY DEF Handles, ClientTypeOK
<1>2. state[p] # "EXITED"
  BY DEF Handles, Running, WaitingReply, WaitingInput, InRoom
<1>3. QED
  BY <1>1, <1>2

LEMMA ReceiveRuns == ASSUME ClientTypeOK, NEW p \in Proc, Receive(p) PROVE state'[p] # "EXITED"
<1>1. CASE HandleConnectionSuccessful(p)
  BY <1>1, HandlesRuns DEF HandleConnectionSuccessful
<1>2. CASE HandleConnectionRefused(p)
  BY <1>2, HandlesRuns DEF HandleConnectionRefused
<1>3. CASE HandleRoomCreationSuccessful(p)
  BY <1>3, HandlesRuns DEF HandleRoomCreationSuccessful
<1>4. CASE HandleJoinRoomSuccessful(p)
  BY <1>4, HandlesRuns DEF HandleJoinRoomSuccessful
<1>5. CASE HandleJoinRoomRefused(p)
  BY <1>5, HandlesRuns DEF HandleJoinRoomRefused
<1>6. CASE HandlePlayed(p)
  BY <1>6, HandlesRuns DEF HandlePlayed
<1>7. CASE HandleGameStart(p)
  BY <1>7, HandlesRuns DEF HandleGameStart
<1>8. CASE HandleGameStopped(p)
  BY <1>8, HandlesRuns DEF HandleGameStopped
<1>9. CASE HandleMessage(p)
  BY <1>9, HandlesRuns DEF HandleMessage
<1>10. CASE HandleInvalidPlay(p)
  BY <1>10, HandlesRuns DEF HandleInvalidPlay
<1>11. QED
  BY <1>1, <1>2, <1>3, <1>4, <1>5, <1>6, <1>7, <1>8, <1>9, <1>10 DEF Receive

(* A client ends by hanging up.                                            *)
LEMMA HungUp ==
  ASSUME WireInv, NEW p \in Proc, IsSequence(up[p]), HangUp(p)
  PROVE  EndsGone(up'[p]) /\ down'[p] = <<>>
<1>0. PICK S : up[p] \in Seq(S)
  BY DEF IsSequence
<1>1. PICK e \in {FIN, RST} : up'[p] = Append(up[p], e)
  BY DEF HangUp, WireInv
<1>2. up[p] \in Seq(S \cup {e}) /\ Len(up[p]) \in Nat
  BY <1>0
<1>3. Len(up'[p]) = Len(up[p]) + 1 /\ up'[p][Len(up[p]) + 1] = e
  BY <1>1, <1>2
<1>4. up'[p] # <<>>
  BY <1>2, <1>3
<1>5. down'[p] = <<>>
  BY DEF HangUp, WireInv
<1>6. QED
  BY <1>1, <1>3, <1>4, <1>5 DEF EndsGone

LEMMA UserEnds ==
  ASSUME WireInv, NEW p \in Proc, UserInput(p), state'[p] = "EXITED" PROVE HangUp(p)
<1>1. \A s : Enters(p, s) => s = "EXITED"
  BY DEF Enters, WireInv, ClientTypeOK
<1>2. state' = state => state[p] = "EXITED"
  OBVIOUS
<1>3. QED
  BY <1>1, <1>2 DEF UserInput, EnterName, ChooseCreate, ChooseJoin, ChooseSpectate, ChooseBio,
     EnterRoomToJoin, EnterRoomToSpectate, EnterBio, EnterMove, Leave, EnterMessage, Close,
     Asks, Types, InRoom

(* Of a step of the server, only its writing and reading touch the wires.  *)
Handling(d, type, out) == /\ Reads(d, type) /\ type \notin {"FIN", "RST"} /\ Emit(Process(d), out)
                          /\ type = "SEND_MESSAGE" => HandleSendMessage(d)

LEMMA ServeWires ==
  ASSUME OnlyGames, TalkInv, Serve, ~UNCHANGED wires PROVE \E d, type, out : Handling(d, type, out)
<1>1. ~Accept /\ ~AcceptOutOfBounds
  BY DEF Accept, AcceptOutOfBounds
<1>2. PICK d \in ClientSlots :
         \/ HandleConnect(d) \/ HandleCreateRoom(d) \/ CreateOutOfBounds(d)
         \/ HandleJoinRoom(d) \/ RefuseJoinRoom(d)
         \/ HandlePlay(d) \/ HandleLeave(d)
         \/ HandleSendMessage(d) \/ HandleSetBiography(d)
         \/ Disconnect(d)
  BY <1>1 DEF Serve, ServerStep
<1>3. ~CreateOutOfBounds(d) /\ ~Disconnect(d) /\ ~HandleLeave(d) /\ ~EndingPlay(d) /\ ~PlayNowhere(d)
  BY NeverHandled DEF CreateOutOfBounds, Disconnect
<1>4. CASE HandleConnect(d)
  <2>1. Reads(d, "CONNECT") /\ \E out : Emit(Process(d), out)
    <3>1. CASE RefuseConnection(d)
      BY <3>1, Zenon DEF RefuseConnection
    <3>2. CASE AcceptConnection(d)
      BY <3>2, Zenon DEF AcceptConnection
    <3>3. CASE Rejoin(d)
      BY <3>3, Zenon DEF Rejoin
    <3>4. QED
      BY <1>4, <3>1, <3>2, <3>3 DEF HandleConnect
  <2>2. QED
    BY <2>1 DEF Handling
<1>5. CASE HandleCreateRoom(d)
  BY <1>5 DEF Handling, HandleCreateRoom
<1>6. CASE HandleJoinRoom(d) \/ RefuseJoinRoom(d)
  <2>1. Reads(d, "JOIN_ROOM") /\ \E out : Emit(Process(d), out)
    <3>1. CASE HandleJoinRoom(d)
      BY <3>1, Zenon DEF HandleJoinRoom
    <3>2. CASE RefuseJoinRoom(d)
      BY <3>2, Zenon DEF RefuseJoinRoom
    <3>3. QED
      BY <1>6, <3>1, <3>2
  <2>2. QED
    BY <2>1 DEF Handling
<1>7. CASE HandlePlay(d)
  BY <1>3, <1>7 DEF Handling, HandlePlay, RejectPlay, ValidPlay
<1>8. CASE HandleSendMessage(d)
  <2>1. \E out : Handling(d, "SEND_MESSAGE", out)
    BY <1>8 DEF Handling, HandleSendMessage
  <2>2. QED
    BY <2>1
<1>9. CASE HandleSetBiography(d)
  BY <1>9 DEF Handling, HandleSetBiography
<1>10. QED
  BY <1>2, <1>3, <1>4, <1>5, <1>6, <1>7, <1>8, <1>9

(* A step that reads a SEND_MESSAGE handles it.                            *)
LEMMA SaysOnly ==
  ASSUME OnlyGames, TalkInv, NEW c \in Connected, Handled(c, "SEND_MESSAGE"), [Next]_vars
  PROVE  HandleSendMessage(c)
<1>1. Reads(c, "SEND_MESSAGE") /\ ~Reset(Process(c)) /\ up'[Process(c)] = Tail(up[Process(c)])
  BY DEF Handled
<1>2. status = "up" /\ \E p, m, v : Reader(c, p, m, v) /\ m.type = "SEND_MESSAGE"
  BY <1>1, Reading
<1>3. PICK p, m, v : Reader(c, p, m, v) /\ m.type = "SEND_MESSAGE"
  BY <1>2
<1>4. p \in Proc /\ p = Process(c) /\ up[p] # <<>> /\ IsSequence(up[p]) /\ fd[p] # 0
  BY <1>3 DEF Reader, TalkOf, Agrees, Sent
<1>5. SocketsInv /\ WireInv
  BY <1>2, Ordered
<1>6. ~Unread(p)
  BY <1>1, <1>4, UnreadStays
<1>7. up' # up
  BY <1>6 DEF Unread
<1>8. \A q \in Proc : ~(Connect(q) \/ User(q) \/ ClientReceives(q) \/ Network(q))
  BY <1>1, <1>4, <1>5, <1>6, ClientsReadNothing DEF WireInv
<1>9. \A q \in Proc : ~Lost(q)
  BY <1>2 DEF Lost
<1>10. ~Stop /\ ~UNCHANGED vars /\ ~UNCHANGED wires
  BY <1>7 DEF Stop, Shutdown, vars, wires
<1>11. Serve
  BY <1>8, <1>9, <1>10 DEF Next
<1>12. PICK d, type, out : Handling(d, type, out)
  BY <1>10, <1>11, ServeWires
<1>13. Process(d) = p /\ d \in Connected
  BY <1>4, <1>6, <1>12, EmitReadsNothing DEF Handling, Reads
<1>14. fd[Process(d)] = clients[d].sock /\ fd[Process(c)] = clients[c].sock
  BY <1>5, <1>13, ProcessOfSlot
<1>15. d = c
  BY <1>4, <1>5, <1>13, <1>14 DEF SocketsInv, SlotsInv
<1>16. type = "SEND_MESSAGE"
  BY <1>1, <1>12, <1>15 DEF Handling, Reads
<1>17. QED
  BY <1>12, <1>15, <1>16 DEF Handling

LEMMA NextEnded ==
  ASSUME OnlyGames, TalkInv, EndedInv, [Next]_vars PROVE EndedInv'
<1> SUFFICES ASSUME status' = "up", NEW p \in Proc, state'[p] = "EXITED"
             PROVE  EndsGone(up'[p]) /\ down'[p] = <<>>
  BY DEF EndedInv
<1>1. status = "up"
  BY StatusStays
<1>2. WireInv /\ SocketsInv /\ Tracked /\ OrderInv
  BY <1>1 DEF TalkInv, LiveInv
<1>3. IsSequence(up[p])
  <2>1. PICK v : View(p, v)
    BY <1>2, ViewExists DEF OrderInv, View
  <2>2. QED
    BY <1>2, <2>1 DEF Tracked, TalkOf, Agrees, Sent
<1>4. state[p] = "EXITED" => EndsGone(up[p]) /\ down[p] = <<>>
  BY <1>1 DEF EndedInv
<1>5. CASE UNCHANGED <<state, up, down>>
  BY <1>4, <1>5
<1>6. ASSUME NEW q \in Proc, q # p, Apart(q) PROVE EndsGone(up'[p]) /\ down'[p] = <<>>
  BY <1>4, <1>6 DEF Apart
<1>7. CASE \E q \in Proc : Connect(q)
  <2>1. PICK q \in Proc : Connect(q)
    BY <1>7
  <2>2. state' = [state EXCEPT ![q] = "CONNECTING"] /\ UNCHANGED <<up, down>>
    BY <2>1 DEF Connect, Start, wires
  <2>3. state'[q] # "EXITED" /\ Apart(q)
    BY <1>2, <2>2 DEF Apart, WireInv, ClientTypeOK
  <2>4. QED
    BY <1>6, <2>3
<1>8. CASE \E q \in Proc : User(q)
  <2>1. PICK q \in Proc : User(q)
    BY <1>8
  <2>2. UserInput(q)
    BY <2>1 DEF User
  <2>3. CASE q = p
    BY <1>2, <1>3, <2>2, <2>3, UserEnds, HungUp
  <2>4. CASE q # p
    <3>1. \E v : TalkOf(q, v)
      BY <1>2, ViewExists DEF OrderInv, View, Tracked
    <3>2. Apart(q)
      BY <1>2, <2>2, <3>1, UserStep DEF StepOf
    <3>3. QED
      BY <1>6, <2>4, <3>2
  <2>5. QED
    BY <2>3, <2>4
<1>9. CASE \E q \in Proc : ClientReceives(q)
  <2>1. PICK q \in Proc : Receive(q)
    BY <1>9 DEF ClientReceives
  <2>2. q # p
    BY <1>2, <2>1, ReceiveRuns DEF WireInv
  <2>3. Apart(q)
    BY <1>2, <2>1, ReceiveStep DEF StepOf
  <2>4. QED
    BY <1>6, <2>2, <2>3
<1>10. CASE \E q \in Proc : Network(q)
  <2>1. PICK q \in Proc : Network(q)
    BY <1>10
  <2>2. /\ up' = [up EXCEPT ![q] = <<RST>>] /\ down' = down /\ state' = state
    BY <2>1 DEF Network, ResetArrives, clientVars
  <2>3. EndsGone(up[p]) /\ down[p] = <<>>
    BY <1>4, <2>2
  <2>4. up'[p] = up[p] \/ up'[p] = <<RST>>
    BY <1>2, <2>2 DEF WireInv
  <2>5. EndsGone(<<RST>>)
    BY DEF EndsGone
  <2>6. QED
    BY <2>2, <2>3, <2>4, <2>5
<1>11. CASE Serve /\ ~UNCHANGED wires
  <2>1. PICK d, type, out : Handling(d, type, out)
    BY <1>11, ServeWires
  <2>2. PICK ms : Told(p, Process(d), ms)
    BY <1>1, <2>1, Delivered DEF Handling
  <2>3. EndsGone(up[p]) /\ down[p] = <<>>
    BY <1>4, <1>11 DEF Serve, clientVars
  <2>4. down'[p] = <<>>
    BY <2>2, <2>3 DEF Told, Heard
  <2>5. CASE p = Process(d)
    <3>1. ~IsEnd(Head(up[p]))
      BY <2>1, <2>5 DEF Handling, Reads, Message, IsEnd
    <3>2. EndsGone(Tail(up[p])) /\ IsSequence(Tail(up[p]))
      <4>1. up[p] # <<>>
        BY <2>3 DEF EndsGone
      <4>2. QED
        BY <1>3, <2>3, <3>1, <4>1, LastKept DEF IsSequence
    <3>3. up'[p] = Provoked(Tail(up[p]), ms)
      BY <2>2, <2>5 DEF Told
    <3>4. QED
      BY <2>4, <3>2, <3>3, EndProvoked
  <2>6. CASE p # Process(d)
    <3>1. up'[p] = Provoked(up[p], ms)
      BY <2>2, <2>6 DEF Told
    <3>2. QED
      BY <1>3, <2>3, <2>4, <3>1, EndProvoked
  <2>7. QED
    BY <2>5, <2>6
<1>12. CASE Serve /\ UNCHANGED wires
  BY <1>5, <1>12 DEF Serve, clientVars, wires
<1>13. CASE Stop \/ UNCHANGED vars \/ \E q \in Proc : Lost(q)
  BY <1>1, <1>5, <1>13 DEF Stop, Shutdown, Lost, vars, clientVars, wires
<1>14. QED
  BY <1>7, <1>8, <1>9, <1>10, <1>11, <1>12, <1>13 DEF Next

LEMMA InitEnded == Init => EndedInv
BY DEF Init, ClientInit, EndedInv

(* In the room of the sender, besides it.                                  *)
Owed(c, q) == \E d \in Connected \ {c} : /\ clients[d].sock = fd[q] /\ ~Gone(q)
                                         /\ clients[d].room_id = clients[c].room_id

(* Who sits with p in room i.                                              *)
Beside(q, p, i) == q # p /\ \E l : HasSeat(q, i, l)

LEMMA OwedBeside ==
  ASSUME TalkInv, status = "up", NEW c, NEW p, NEW m, NEW v, Reader(c, p, m, v),
         NEW i, \E j : HasSeat(p, i, j), NEW q \in Proc
  PROVE  Owed(c, q) <=> Beside(q, p, i) /\ ~Gone(q)
<1>1. /\ Orderly(rooms, nb_rooms, fd, names, places) /\ Distinct(fd, names) /\ SocketsInv
      /\ p \in Proc /\ c \in Connected /\ fd[p] = clients[c].sock /\ fd[p] # 0
      /\ places[p] = clients[c].room_id
  BY Ordered DEF Reader
<1>2. KnownInv
  BY <1>1, Known
<1>3. places[p] = rooms[i].id /\ places[p] # 0
  BY <1>1, Seating DEF HasSeat
<1>4. \A z \in Proc : \A k, l : HasSeat(z, k, l) => fd[z] # 0 /\ places[z] = rooms[k].id
  BY <1>1, Seating DEF HasSeat
<1>5. ASSUME Beside(q, p, i), ~Gone(q) PROVE Owed(c, q)
  <2>1. q # p /\ fd[q] # 0 /\ places[q] = rooms[i].id
    BY <1>4, <1>5 DEF Beside
  <2>2. PICK d \in Connected : clients[d].sock = fd[q]
    BY <1>2, <2>1 DEF KnownInv
  <2>3. clients[d].room_id = clients[c].room_id
    BY <1>1, <1>2, <1>3, <2>1, <2>2 DEF KnownInv
  <2>4. d # c
    BY <1>1, <2>1, <2>2 DEF Distinct
  <2>5. QED
    BY <1>5, <2>2, <2>3, <2>4 DEF Owed
<1>6. ASSUME Owed(c, q) PROVE Beside(q, p, i) /\ ~Gone(q)
  <2>1. PICK d \in Connected \ {c} : /\ clients[d].sock = fd[q] /\ ~Gone(q)
                                    /\ clients[d].room_id = clients[c].room_id
    BY <1>6 DEF Owed
  <2>2. fd[q] # 0 /\ places[q] = places[p]
    BY <1>1, <1>2, <2>1 DEF KnownInv
  <2>3. q # p
    BY <1>1, <2>1 DEF SocketsInv, SlotsInv
  <2>4. PICK k, l : HasSeat(q, k, l)
    BY <1>1, <1>3, <2>2 DEF Orderly, PlacesOrderly, HasSeat
  <2>5. rooms[k].id = rooms[i].id
    BY <1>3, <1>4, <2>2, <2>4
  <2>6. k \in 0 .. nb_rooms - 1 /\ i \in 0 .. nb_rooms - 1
    BY <2>4 DEF HasSeat, Held
  <2>7. k = i
    BY <1>1, <2>5, <2>6 DEF Orderly, RoomsOrderly
  <2>8. QED
    BY <2>1, <2>3, <2>4, <2>7 DEF Beside
<1>7. QED
  BY <1>5, <1>6

(* What is written of a message when the server gets to write all of it.   *)
LEMMA WrittenToOthers ==
  ASSUME NEW p, NEW out, NEW i, NEW r, NEW q \in Proc, IsSequence(down[q]),
         TellsOthers(out, i, p, q, r), Deliver(p, out)
  PROVE  down'[q] # down[q] <=> Beside(q, p, i) /\ ~Gone(q)
<1>0. PICK S : down[q] \in Seq(S)
  BY DEF IsSequence
<1>1. down'[q] = IF Gone(q) THEN down[q] ELSE down[q] \o MessagesTo(q, out)
  BY DEF Deliver, Written
<1>2. CASE Beside(q, p, i)
  <2>1. MessagesTo(q, out) = <<r>>
    BY <1>2 DEF Beside, TellsOthers
  <2>2. down[q] \in Seq(S \cup {r}) /\ <<r>> \in Seq(S \cup {r})
    BY <1>0
  <2>3. Len(down[q] \o <<r>>) = Len(down[q]) + 1 /\ Len(down[q]) \in Nat
    BY <2>2
  <2>4. down[q] \o <<r>> # down[q]
    BY <2>3
  <2>5. QED
    BY <1>1, <1>2, <2>1, <2>4
<1>3. CASE ~Beside(q, p, i)
  <2>1. MessagesTo(q, out) = <<>>
    BY <1>3 DEF Beside, TellsOthers
  <2>2. down[q] \o <<>> = down[q]
    BY <1>0
  <2>3. QED
    BY <1>1, <1>3, <2>1, <2>2
<1>4. QED
  BY <1>2, <1>3

(* Where an entry goes that breaks: to a seat whose owner is gone.         *)
LEMMA BreaksAtGone ==
  ASSUME Orderly(rooms, nb_rooms, fd, names, places), Distinct(fd, names),
         NEW p \in Proc, fd[p] # 0, NEW i \in 0 .. nb_rooms - 1, NEW r, NEW out,
         ToTheOthers(out, rooms[i], fd[p], r), NEW k \in 1 .. Len(out), ExitsAt(out, k)
  PROVE  \E z \in Proc : z # p /\ HasSeat(z, i, k - 1) /\ Gone(z)
<1>1. rooms[i].nb_players \in {1, 2} /\ Len(out) = rooms[i].nb_players
  BY DEF ToTheOthers, Orderly, RoomsOrderly, LiveRoom
<1>2. k \in {1, 2} /\ k - 1 \in {0, 1} /\ k - 1 < rooms[i].nb_players
  BY <1>1
<1>3. Held(rooms, nb_rooms, i, k - 1)
  BY <1>2 DEF Held
<1>4. PICK x : x = rooms[i].players[k - 1].id
  OBVIOUS
<1>5. out[k] = To(IF x = fd[p] THEN -1 ELSE x, r)
  BY <1>1, <1>4 DEF ToTheOthers, Entry
<1>6. out[k].to = IF x = fd[p] THEN -1 ELSE x
  BY <1>5 DEF To
<1>7. x = -1 \/ \E z \in Proc : fd[z] = x /\ x # 0
  BY <1>3, <1>4 DEF Orderly, SeatsOrderly
<1>8. ~Fatal(out[k].to)
  BY <1>6, <1>7 DEF Fatal, Open
<1>9. PICK z \in Proc : fd[z] = out[k].to /\ Gone(z)
  BY <1>8 DEF ExitsAt, MayBreak
<1>10. fd[z] # -1
  BY DEF Distinct
<1>11. fd[z] = x /\ x # fd[p]
  BY <1>6, <1>9, <1>10
<1>12. QED
  BY <1>3, <1>4, <1>9, <1>11 DEF HasSeat

(* Nobody else is owed anything when the server ends in between.           *)
LEMMA WrittenUntil ==
  ASSUME Orderly(rooms, nb_rooms, fd, names, places), Distinct(fd, names),
         NEW p \in Proc, fd[p] # 0, NEW i \in 0 .. nb_rooms - 1, \E j : HasSeat(p, i, j),
         NEW r, NEW out, ToTheOthers(out, rooms[i], fd[p], r),
         NEW k \in 1 .. Len(out), ExitsAt(out, k), Deliver(p, SubSeq(out, 1, k - 1)),
         NEW q \in Proc, IsSequence(down[q])
  PROVE  down'[q] = down[q] /\ ~(Beside(q, p, i) /\ ~Gone(q))
<1>0. PICK S : out \in Seq(S)
  BY DEF ToTheOthers, IsSequence
<1>1. PICK z \in Proc : z # p /\ HasSeat(z, i, k - 1) /\ Gone(z)
  BY BreaksAtGone
<1>2. PICK j : HasSeat(p, i, j)
  OBVIOUS
<1>3. /\ \A y \in Proc : \A l : HasSeat(y, i, l) => l \in {0, 1}
      /\ \A y, y2 \in Proc : \A l : HasSeat(y, i, l) /\ HasSeat(y2, i, l) => y = y2
  <2>1. \A y \in Proc : \A l : HasSeat(y, i, l) => l \in {0, 1} /\ fd[y] # 0
    BY Seating DEF HasSeat, Held
  <2>2. QED
    BY <2>1 DEF HasSeat, Distinct
<1>4. k \in Nat /\ k - 1 \in {0, 1} /\ j \in {0, 1} /\ j # k - 1
  BY <1>1, <1>2, <1>3
<1>5. \A y \in Proc : Beside(y, p, i) => y = z
  BY <1>1, <1>2, <1>3, <1>4 DEF Beside
<1>6. PICK o : o = SubSeq(out, 1, k - 1)
  OBVIOUS
<1>7. MessagesTo(q, o) = <<>>
  <2>1. CASE k = 1
    <3>1. o = <<>>
      BY <1>0, <1>6, <2>1
    <3>2. QED
      BY <3>1, NoMessages
  <2>2. CASE k = 2
    <3>1. Len(o) = 1 /\ o[1] = out[1]
      BY <1>0, <1>6, <2>2
    <3>2. j = 0 /\ Held(rooms, nb_rooms, i, 0)
      BY <1>2, <1>4, <2>2 DEF HasSeat
    <3>3. out[1] = Entry(rooms[i], 0, fd[p], r)
      <4>1. 1 \in 1 .. rooms[i].nb_players /\ 1 - 1 = 0
        BY DEF Orderly, RoomsOrderly, LiveRoom
      <4>2. QED
        BY <4>1 DEF ToTheOthers
    <3>4. ~(HasSeat(q, i, 0) /\ q # p)
      BY <1>2, <1>3, <3>2
    <3>5. MessageTo(q, Entry(rooms[i], 0, fd[p], r)) =
            IF HasSeat(q, i, 0) /\ q # p THEN <<r>> ELSE <<>>
      BY <3>2, EntryTold
    <3>5a. MessageTo(q, out[1]) = <<>>
      BY <3>3, <3>4, <3>5
    <3>6. QED
      BY <3>1, <3>5a, OneMessage
  <2>3. QED
    BY <1>4, <2>1, <2>2
<1>8. down'[q] = down[q]
  <2>1. down[q] \o <<>> = down[q]
    BY DEF IsSequence
  <2>2. QED
    BY <1>6, <1>7, <2>1 DEF Deliver, Written
<1>9. QED
  BY <1>1, <1>5, <1>8

LEMMA SaidReaches ==
  ASSUME TalkInv, EndedInv, NEW c, HandleSendMessage(c), NEW q \in Proc
  PROVE  down'[q] # down[q] <=> Owed(c, q)
<1>0. PICK p, m, v, i, out, r : SaidBy(c, p, m, v, i, out, r)
  BY SayingWrites
<1>1. /\ Reader(c, p, m, v) /\ status = "up" /\ i \in 0 .. nb_rooms - 1
      /\ \E j : HasSeat(p, i, j)
      /\ Emit(p, out) /\ \A y \in Proc : TellsOthers(out, i, p, y, r)
      /\ ToTheOthers(out, rooms[i], fd[p], r)
  BY <1>0 DEF SaidBy
<1>2. /\ Orderly(rooms, nb_rooms, fd, names, places) /\ Distinct(fd, names) /\ WireInv
      /\ p \in Proc /\ fd[p] # 0
  BY <1>1, Ordered DEF Reader
<1>3. IsSequence(down[q])
  <2>1. PICK x : TalkOf(q, x)
    BY <1>1, <1>2, ViewExists DEF View, TalkInv, LiveInv, Tracked
  <2>2. IsSequence(<<>>)
    BY DEF IsSequence
  <2>3. state[q] = "NOT_STARTED" \/ state[q] = "EXITED" => down[q] = <<>>
    BY <1>1, <2>1 DEF TalkOf, Agrees, EndedInv
  <2>4. state[q] \in Running => IsSequence(down[q])
    BY <2>1 DEF TalkOf, Agrees, Leads
  <2>5. QED
    BY <1>2, <2>2, <2>3, <2>4, RunningStates DEF WireInv, ClientTypeOK
<1>4. Owed(c, q) <=> Beside(q, p, i) /\ ~Gone(q)
  BY <1>1, OwedBeside
<1>5. CASE Deliver(p, out)
  BY <1>1, <1>3, <1>4, <1>5, WrittenToOthers
<1>6. CASE \E k \in 1 .. Len(out) : ExitsAt(out, k) /\ Deliver(p, SubSeq(out, 1, k - 1))
  <2>1. PICK k \in 1 .. Len(out) : ExitsAt(out, k) /\ Deliver(p, SubSeq(out, 1, k - 1))
    BY <1>6
  <2>2. down'[q] = down[q] /\ ~(Beside(q, p, i) /\ ~Gone(q))
    BY <1>1, <1>2, <1>3, <2>1, WrittenUntil
  <2>3. QED
    BY <1>4, <2>2
<1>7. QED
  BY <1>1, <1>5, <1>6 DEF Emit

(* In the same circumstances a message goes to whoever else the server has *)
(* in the room of its sender, to nobody else, and also if writing it makes *)
(* the server end.                                                         *)
THEOREM MessagesArrive == OnlyGames => (Spec => MessagesReachTheRoom)
<1> DEFINE Reach == \A c \in Connected :
             Handled(c, "SEND_MESSAGE") /\ RoomFound(clients[c].room_id) =>
               \A q \in Proc : down'[q] # down[q] <=>
                 \E d \in Connected \ {c} : /\ clients[d].sock = fd[q] /\ ~Gone(q)
                                           /\ clients[d].room_id = clients[c].room_id
<1>1. OnlyGames /\ TalkInv /\ EndedInv /\ [Next]_vars => Reach
  BY SaysOnly, SaidReaches DEF Owed
<1>2. OnlyGames /\ TalkInv /\ EndedInv /\ [Next]_vars => EndedInv'
  BY NextEnded
<1>3. ASSUME OnlyGames PROVE Spec => MessagesReachTheRoom
  <2>1. TalkInv /\ EndedInv /\ [Next]_vars => Reach
    BY <1>1, <1>3
  <2>2. TalkInv /\ EndedInv /\ [Next]_vars => EndedInv'
    BY <1>2, <1>3
  <2>3. Spec => []TalkInv
    BY <1>3, TalkAlways
  <2>4. Init => EndedInv
    BY InitEnded
  <2> HIDE DEF Reach
  <2>5. Spec => [][Reach]_vars
    BY <2>1, <2>2, <2>3, <2>4, PTL DEF Spec
  <2>6. QED
    BY <2>5 DEF MessagesReachTheRoom, Reach
<1>4. QED
  BY <1>3

(***************************************************************************)
(* The types of the arrays.                                                *)
(***************************************************************************)
(* What users answer to "What is your name?" is text, and so is the empty  *)
(* name of who has not answered yet: true of every string in quotes, but   *)
(* the provers know of none that it is in STRING.                          *)
TextNames == AllNames \subseteq STRING /\ Unnamed \in STRING

TypedClient(r) == /\ r.sock \in 0 .. MAX_CLIENTS /\ r.name \in STRING
                  /\ r.room_id \in Codes \cup {0} /\ r.biography \in STRING
TypedSeat(s)   == /\ s.id \in -1 .. MAX_CLIENTS /\ s.name \in STRING
                  /\ s.client_index \in ClientSlots
TypedRoom(r)   == /\ r.id \in Codes \cup {0} /\ r.nb_players \in 0 .. 2
                  /\ r.nb_spectators \in 0 .. MAX_GAME_PLAYERS - 2
                  /\ r.is_started \in BOOLEAN /\ r.turn \in {0, 1}
                  /\ \A k \in Seats : TypedSeat(r.players[k])
TypedClients   == \A c \in ClientSlots : TypedClient(clients[c])
TypedRooms     == RoomArrayInv /\ \A i \in RoomSlots : TypedRoom(rooms[i])
TypedInv       == /\ TypedClients /\ TypedRooms
                  /\ fd \in [Proc -> 0 .. MAX_CLIENTS]
                  /\ status \in {"up", "exited", "corrupt"}

LEMMA TypedIs == TypedInv /\ SocketsInv => TypeOK
<1> SUFFICES ASSUME TypedInv, SocketsInv PROVE TypeOK
  OBVIOUS
<1>1. clients \in [ClientSlots -> [sock : 0 .. MAX_CLIENTS, name : STRING,
                                  room_id : Codes \cup {0}, biography : STRING]]
  <2>1. \A c \in ClientSlots :
          clients[c] \in [sock : 0 .. MAX_CLIENTS, name : STRING,
                          room_id : Codes \cup {0}, biography : STRING]
    BY DEF TypedInv, TypedClients, TypedClient, SocketsInv, ArrayInv, IsClient
  <2>2. QED
    BY <2>1 DEF SocketsInv, ArrayInv
<1>2. ASSUME NEW i \in RoomSlots
      PROVE  rooms[i].players \in [Seats -> [id : -1 .. MAX_CLIENTS, name : STRING,
                                             client_index : ClientSlots]]
  <2>1. IsRoom(rooms[i]) /\ TypedRoom(rooms[i])
    BY DEF TypedInv, TypedRooms, RoomArrayInv
  <2>2. ASSUME NEW k \in Seats
        PROVE  rooms[i].players[k] \in [id : -1 .. MAX_CLIENTS, name : STRING,
                                        client_index : ClientSlots]
    <3>1. PICK s : s = rooms[i].players[k]
      OBVIOUS
    <3>2. IsSeat(s) /\ TypedSeat(s)
      BY <2>1, <3>1 DEF IsRoom, TypedRoom
    <3>3. QED
      BY <3>1, <3>2 DEF IsSeat, TypedSeat
  <2>3. QED
    BY <2>1, <2>2 DEF IsRoom
<1>3. \A i \in RoomSlots : /\ rooms[i].id \in Codes \cup {0} /\ rooms[i].nb_players \in 0 .. 2
                           /\ rooms[i].nb_spectators \in 0 .. MAX_GAME_PLAYERS - 2
                           /\ rooms[i].is_started \in BOOLEAN /\ rooms[i].turn \in {0, 1}
  BY DEF TypedInv, TypedRooms, TypedRoom
<1>4. nb_rooms <= MAX_ROOMS
  BY ServerAssumption DEF TypedInv, TypedRooms, RoomArrayInv
<1>5. ServerTypeOK
  BY <1>1, <1>2, <1>3, <1>4 DEF ServerTypeOK, TypedInv, SocketsInv, ArrayInv
<1>6. QED
  BY <1>5 DEF TypeOK, SocketsInv

LEMMA InitTyped == TextNames /\ Init => TypedInv
<1> SUFFICES ASSUME TextNames, Init PROVE TypedInv
  OBVIOUS
<1>1. TypedClients
  <2>1. clients = [c \in ClientSlots |-> NoClient] /\ NoClient.sock = 0
        /\ NoClient.name = Unnamed /\ NoClient.room_id = 0 /\ NoClient.biography = Unnamed
    BY DEF Init, ServerInit, NoClient, Unnamed
  <2>2. QED
    BY <2>1, ServerAssumption DEF TypedClients, TypedClient, TextNames
<1>2. /\ rooms = [i \in RoomSlots |-> NoRoom] /\ NoRoom.id = 0 /\ NoRoom.nb_players = 0
      /\ NoRoom.nb_spectators = 0 /\ NoRoom.is_started = FALSE /\ NoRoom.turn = 0
      /\ NoRoom.players = [k \in Seats |-> NoSeat]
  BY DEF Init, ServerInit, NoRoom
<1>3. NoSeat.id = 0 /\ NoSeat.name = Unnamed /\ NoSeat.client_index = 0
  BY DEF NoSeat, Unnamed
<1>4. TypedSeat(NoSeat)
  BY <1>3, ServerAssumption DEF TypedSeat, ClientSlots, TextNames
<1>5. TypedRoom(NoRoom)
  <2>1. 0 \in 0 .. MAX_GAME_PLAYERS - 2
    BY ServerAssumption
  <2>2. \A k \in Seats : TypedSeat(NoRoom.players[k])
    BY <1>2, <1>4
  <2>3. NoRoom.is_started \in BOOLEAN
    BY <1>2
  <2>4. NoRoom.nb_players \in 0 .. 2 /\ NoRoom.id \in Codes \cup {0} /\ NoRoom.turn \in {0, 1}
    BY <1>2
  <2>5. NoRoom.nb_spectators \in 0 .. MAX_GAME_PLAYERS - 2
    BY <1>2, <2>1
  <2>6. QED
    BY <2>2, <2>3, <2>4, <2>5 DEF TypedRoom
<1>6. RoomArrayInv
  BY InitTalk DEF TalkInv, LiveInv, Init, ServerInit
<1>7. TypedRooms
  BY <1>2, <1>5, <1>6 DEF TypedRooms
<1>8. fd \in [Proc -> 0 .. MAX_CLIENTS] /\ status = "up"
  BY ServerAssumption DEF Init, ServerInit
<1>9. QED
  BY <1>1, <1>7, <1>8 DEF TypedInv

(* One entry of an array is written.                                       *)
LEMMA ClientTyped ==
  ASSUME TypedClients, NEW c \in ClientSlots, TypedClient(clients'[c]),
         \A d \in ClientSlots : d # c => clients'[d] = clients[d]
  PROVE  TypedClients'
BY DEF TypedClients, TypedClient

LEMMA RoomTyped ==
  ASSUME TypedRooms, NEW i \in RoomSlots, NEW r2, IsRoom(r2), TypedRoom(r2),
         rooms' = [rooms EXCEPT ![i] = r2], nb_rooms' \in 0 .. MAX_ROOMS
  PROVE  TypedRooms'
<1>1. /\ RoomArrayInv' /\ rooms'[i] = r2
      /\ \A k \in RoomSlots : k # i => rooms'[k] = rooms[k]
  BY RoomWritten DEF TypedRooms
<1>2. \A k \in RoomSlots : TypedRoom(rooms'[k])
  BY <1>1 DEF TypedRooms
<1>3. QED
  BY <1>1, <1>2 DEF TypedRooms

LEMMA SeatTyped ==
  ASSUME TypedClients, NEW c \in ClientSlots, NEW r2, NEW j, SeatedIn(r2, j, c)
  PROVE  TypedSeat(r2.players[j])
<1>1. TypedClient(clients[c]) /\ MAX_CLIENTS \in Nat
  BY ServerAssumption DEF TypedClients
<1>2. clients[c].sock \in -1 .. MAX_CLIENTS
  BY <1>1 DEF TypedClient
<1>3. QED
  BY <1>1, <1>2 DEF SeatedIn, TypedSeat, TypedClient

LEMMA SeatIdTyped ==
  ASSUME TypedRooms, NEW i \in RoomSlots, NEW j \in Seats, NEW x \in -1 .. MAX_CLIENTS,
         rooms' = [rooms EXCEPT ![i].players[j].id = x], nb_rooms' = nb_rooms
  PROVE  TypedRooms'
<1>1. PICK r : r = rooms[i]
  OBVIOUS
<1>2. PICK r2 : r2 = [r EXCEPT !.players[j].id = x]
  OBVIOUS
<1>3. IsRoom(r) /\ TypedRoom(r)
  BY <1>1 DEF TypedRooms, RoomArrayInv
<1>4. Reseated(r, r2, j, x)
  BY <1>2, <1>3, SeatIdSet
<1>5. \A k \in Seats : TypedSeat(r2.players[k])
  BY <1>3, <1>4 DEF Reseated, TypedRoom, TypedSeat
<1>6. IsRoom(r2) /\ TypedRoom(r2)
  BY <1>3, <1>4, <1>5 DEF Reseated, TypedRoom, SameRoomBut
<1>7. rooms' = [rooms EXCEPT ![i] = r2]
  BY <1>1, <1>2
<1>8. nb_rooms' \in 0 .. MAX_ROOMS
  BY DEF TypedRooms, RoomArrayInv
<1>9. QED
  BY <1>6, <1>7, <1>8, RoomTyped

LEMMA RoomIdTyped ==
  ASSUME ArrayInv, TypedClients, NEW c \in ClientSlots, NEW x \in Codes \cup {0},
         clients' = [clients EXCEPT ![c].room_id = x]
  PROVE  TypedClients'
<1>1. /\ clients'[c].room_id = x /\ clients'[c].sock = clients[c].sock
      /\ clients'[c].name = clients[c].name
      /\ clients'[c].biography = clients[c].biography
      /\ \A d \in ClientSlots : d # c => clients'[d] = clients[d]
  BY DEF ArrayInv, IsClient
<1>2. TypedClient(clients'[c])
  BY <1>1 DEF TypedClients, TypedClient
<1>3. QED
  BY <1>1, <1>2, ClientTyped

(* The handlers that write in the arrays.                                  *)
Typed == TypedClients /\ TypedRooms

LEMMA AcceptTyped ==
  ASSUME TextNames, SocketsInv, Typed, Accept PROVE Typed'
<1>1. PICK n, csock : n = nb_clients /\ csock = Min({s \in Sockets : ~Open(s)})
  OBVIOUS
<1>2. PICK new : new = [sock |-> csock, name |-> Unnamed, room_id |-> 0, biography |-> Unnamed]
  OBVIOUS
<1>3. clients' = [clients EXCEPT ![n] = new]
  BY <1>1, <1>2 DEF Accept, Unnamed
<1>4. n \in ClientSlots
  BY <1>1, AcceptAppends DEF SocketsInv
<1>5. clients'[n] = new /\ \A d \in ClientSlots : d # n => clients'[d] = clients[d]
  BY <1>3, <1>4 DEF SocketsInv, ArrayInv
<1>6. csock \in 0 .. MAX_CLIENTS
  <2>1. \E s \in 1 .. MAX_CLIENTS : clients'[n].sock = s
    BY <1>1, NewSocket
  <2>2. csock \in 1 .. MAX_CLIENTS
    BY <1>2, <1>5, <2>1
  <2>3. QED
    BY <2>2, ServerAssumption
<1>7. TypedClient(new)
  BY <1>2, <1>6 DEF TypedClient, TextNames
<1>8. TypedClients'
  BY <1>4, <1>5, <1>7, ClientTyped DEF Typed
<1>9. rooms' = rooms /\ nb_rooms' = nb_rooms
  BY DEF Accept
<1>10. QED
  BY <1>8, <1>9 DEF Typed, TypedRooms, RoomArrayInv

LEMMA NameTyped ==
  ASSUME TextNames, TalkInv, NEW c, Reads(c, "CONNECT") PROVE Message(c).name \in STRING
<1>1. \E p, m, v : Reader(c, p, m, v) /\ m.type = "CONNECT"
  BY Reading
<1>2. PICK p, m, v : Reader(c, p, m, v) /\ m.type = "CONNECT"
  BY <1>1
<1>3. m.name \in AllNames
  BY <1>2, Connecting DEF Reader
<1>4. m = Message(c)
  BY <1>2 DEF Reader
<1>5. QED
  BY <1>3, <1>4 DEF TextNames

LEMMA NamedTyped ==
  ASSUME TextNames, TalkInv, Typed, NEW c \in ClientSlots, AcceptConnection(c) PROVE Typed'
<1>1. Message(c).name \in STRING
  BY NameTyped DEF AcceptConnection
<1>2. PICK x : x = Message(c).name
  OBVIOUS
<1>3. clients' = [clients EXCEPT ![c].name = x] /\ rooms' = rooms /\ nb_rooms' = nb_rooms
  BY <1>2 DEF AcceptConnection
<1>4. /\ clients'[c].name = x /\ clients'[c].sock = clients[c].sock
      /\ clients'[c].room_id = clients[c].room_id
      /\ clients'[c].biography = clients[c].biography
      /\ \A d \in ClientSlots : d # c => clients'[d] = clients[d]
  BY <1>3 DEF TalkInv, SocketsInv, ArrayInv, IsClient
<1>5. TypedClient(clients'[c])
  BY <1>1, <1>2, <1>4 DEF Typed, TypedClients, TypedClient
<1>6. TypedClients'
  BY <1>4, <1>5, ClientTyped DEF Typed
<1>7. QED
  BY <1>3, <1>6 DEF Typed, TypedRooms, RoomArrayInv

LEMMA RejoinTyped ==
  ASSUME TextNames, TalkInv, Typed, NEW c \in ClientSlots, Rejoin(c) PROVE Typed'
<1>0. Message(c).name \in STRING /\ status = "up"
  BY NameTyped DEF Rejoin, Reads
<1>1. ArrayInv /\ OrderInv /\ RoomArrayInv
  BY <1>0 DEF TalkInv, LiveInv, SocketsInv
<1>2. PICK i, j : /\ FirstSeat(Message(c).name)[1] = i /\ FirstSeat(Message(c).name)[2] = j
                  /\ Held(rooms, nb_rooms, i, j)
  BY <1>1, SeatFound DEF Rejoin
<1>3. i \in RoomSlots /\ j \in Seats
  BY <1>1, <1>2, LiveSlots, PlayersHaveSeats DEF Held
<1>4. PICK a, x, y, s : a = clients[c] /\ x = Message(c).name /\ y = rooms[i].id /\ s = a.sock
  OBVIOUS
<1>5. /\ rooms' = [rooms EXCEPT ![i].players[j].id = s] /\ nb_rooms' = nb_rooms
      /\ clients' = [clients EXCEPT ![c].name = x, ![c].room_id = y]
  BY <1>2, <1>4 DEF Rejoin
<1>6. IsClient(a) /\ TypedClient(a)
  BY <1>1, <1>4 DEF ArrayInv, Typed, TypedClients
<1>7. clients'[c] = [[a EXCEPT !.name = x] EXCEPT !.room_id = y]
  <2>1. [clients EXCEPT ![c].name = x][c] = [a EXCEPT !.name = x]
    BY <1>1, <1>4 DEF ArrayInv
  <2>2. QED
    BY <1>1, <1>5, <2>1 DEF ArrayInv
<1>8. clients'[c] = [sock |-> a.sock, name |-> x, room_id |-> y, biography |-> a.biography]
  BY <1>6, <1>7 DEF IsClient
<1>9. y \in Codes \cup {0}
  BY <1>3, <1>4 DEF Typed, TypedRooms, TypedRoom
<1>10. TypedClient(clients'[c])
  BY <1>0, <1>4, <1>6, <1>8, <1>9 DEF TypedClient
<1>11. \A d \in ClientSlots : d # c => clients'[d] = clients[d]
  BY <1>1, NameGiven
<1>12. TypedClients'
  BY <1>10, <1>11, ClientTyped DEF Typed
<1>13. s \in -1 .. MAX_CLIENTS
  BY <1>4, <1>6, ServerAssumption DEF TypedClient
<1>14. TypedRooms'
  BY <1>3, <1>5, <1>13, SeatIdTyped DEF Typed
<1>15. QED
  BY <1>12, <1>14 DEF Typed

LEMMA CreateTyped ==
  ASSUME TalkInv, Typed, NEW c \in ClientSlots, HandleCreateRoom(c) PROVE Typed'
<1>1. ArrayInv /\ SocketsInv /\ RoomArrayInv
  BY DEF TalkInv, SocketsInv, Typed, TypedRooms
<1>2. PICK r2 : OpenedBy(r2, c) /\ rooms' = [rooms EXCEPT ![nb_rooms] = r2]
  BY <1>1, RoomOpened
<1>3. nb_rooms \in RoomSlots
  BY <1>1, RoomOpened
<1>4. NewCode \in Codes
  BY <1>1, SomeCodeFree
<1>5. PICK n : n = nb_rooms
  OBVIOUS
<1>6. nb_rooms' \in 0 .. MAX_ROOMS
  <2>1. nb_rooms' = n + 1
    BY <1>5 DEF HandleCreateRoom
  <2>2. QED
    BY <1>3, <1>5, <2>1, ServerAssumption DEF RoomSlots
<1>7. \A k \in Seats : TypedSeat(r2.players[k])
  <2>1. TypedSeat(r2.players[0])
    BY <1>2, SeatTyped DEF OpenedBy, Typed
  <2>2. \A k \in Seats : TypedSeat(rooms[n].players[k])
    BY <1>3, <1>5 DEF Typed, TypedRooms, TypedRoom
  <2>3. \A k \in Seats : k # 0 => r2.players[k] = rooms[n].players[k]
    BY <1>2, <1>5 DEF OpenedBy
  <2>4. QED
    BY <2>1, <2>2, <2>3
<1>8. TypedRoom(r2)
  <2>1. r2.id \in Codes \cup {0}
    BY <1>2, <1>4 DEF OpenedBy
  <2>2. r2.nb_players \in 0 .. 2 /\ r2.turn \in {0, 1}
    BY <1>2 DEF OpenedBy
  <2>3. 0 \in 0 .. MAX_GAME_PLAYERS - 2
    BY ServerAssumption
  <2>4. r2.nb_spectators \in 0 .. MAX_GAME_PLAYERS - 2
    BY <1>2, <2>3 DEF OpenedBy
  <2>5. r2.is_started = FALSE
    BY <1>2 DEF OpenedBy
  <2>6. r2.is_started \in BOOLEAN
    BY <2>5
  <2>7. QED
    BY <1>7, <2>1, <2>2, <2>4, <2>6 DEF TypedRoom
<1>9. TypedRooms'
  <2>1. IsRoom(r2)
    BY <1>2 DEF OpenedBy
  <2>2. n \in RoomSlots /\ rooms' = [rooms EXCEPT ![n] = r2]
    BY <1>2, <1>3, <1>5
  <2>3. QED
    BY <1>6, <1>8, <2>1, <2>2, RoomTyped DEF Typed
<1>10. TypedClients'
  <2>1. PICK x : x = NewCode
    OBVIOUS
  <2>2. x \in Codes \cup {0} /\ clients' = [clients EXCEPT ![c].room_id = x]
    BY <1>4, <2>1 DEF HandleCreateRoom
  <2>3. QED
    BY <1>1, <2>2, RoomIdTyped DEF Typed
<1>11. QED
  BY <1>9, <1>10 DEF Typed

LEMMA JoinTyped ==
  ASSUME TalkInv, Typed, NEW c \in ClientSlots, HandleJoinRoom(c) PROVE Typed'
<1>1. status = "up" /\ \E p, m, v : Reader(c, p, m, v) /\ m.type = "JOIN_ROOM"
  BY Reading DEF HandleJoinRoom
<1>2. PICK p, m, v : Reader(c, p, m, v) /\ m.type = "JOIN_ROOM"
  BY <1>1
<1>3. ~Message(c).spectate
  BY <1>2, JoiningRoom DEF Reader
<1>4. ArrayInv /\ RoomArrayInv /\ OrderInv
  BY <1>1 DEF TalkInv, LiveInv, SocketsInv
<1>5. PICK i \in 0 .. nb_rooms - 1 :
        \E r2, out, jrs : Startable(rooms[i]) /\ Joining2(c, i, r2, out, jrs)
  BY <1>3, <1>4, JoinRoomWrites
<1>6. PICK r2, out, jrs : Joining2(c, i, r2, out, jrs)
  BY <1>5
<1>7. /\ JoinedBy(rooms[i], r2, c) /\ rooms' = [rooms EXCEPT ![i] = r2]
      /\ clients' = [clients EXCEPT ![c].room_id = rooms[i].id]
  BY <1>6 DEF Joining2
<1>8. i \in RoomSlots /\ nb_rooms' = nb_rooms
  BY <1>4, LiveSlots DEF HandleJoinRoom
<1>9. PICK r : r = rooms[i]
  OBVIOUS
<1>10. TypedRoom(r)
  BY <1>8, <1>9 DEF Typed, TypedRooms
<1>11. TypedRoom(r2)
  <2>1. TypedSeat(r2.players[1])
    BY <1>7, SeatTyped DEF JoinedBy, Typed
  <2>2. \A k \in Seats : TypedSeat(r2.players[k])
    BY <1>7, <1>9, <1>10, <2>1 DEF JoinedBy, TypedRoom
  <2>3. r2.id \in Codes \cup {0}
    BY <1>7, <1>9, <1>10 DEF JoinedBy, TypedRoom
  <2>4. r2.nb_players \in 0 .. 2 /\ r2.turn \in {0, 1}
    BY <1>7 DEF JoinedBy
  <2>5. 0 \in 0 .. MAX_GAME_PLAYERS - 2
    BY ServerAssumption
  <2>6. r2.nb_spectators \in 0 .. MAX_GAME_PLAYERS - 2
    BY <1>7, <2>5 DEF JoinedBy
  <2>7. r2.is_started = TRUE
    BY <1>7 DEF JoinedBy
  <2>8. r2.is_started \in BOOLEAN
    BY <2>7
  <2>9. QED
    BY <2>2, <2>3, <2>4, <2>6, <2>8 DEF TypedRoom
<1>12. TypedRooms'
  <2>1. IsRoom(r2)
    BY <1>7 DEF JoinedBy
  <2>2. nb_rooms' \in 0 .. MAX_ROOMS
    BY <1>4, <1>8 DEF RoomArrayInv
  <2>3. QED
    BY <1>7, <1>8, <1>11, <2>1, <2>2, RoomTyped DEF Typed
<1>13. TypedClients'
  <2>1. PICK x : x = r.id
    OBVIOUS
  <2>2. x \in Codes \cup {0} /\ clients' = [clients EXCEPT ![c].room_id = x]
    BY <1>7, <1>9, <1>10, <2>1 DEF TypedRoom
  <2>3. QED
    BY <1>4, <2>2, RoomIdTyped DEF Typed
<1>14. QED
  BY <1>12, <1>13 DEF Typed

LEMMA PlayTyped ==
  ASSUME TalkInv, Typed, NEW c, ValidPlay(c) PROVE Typed'
<1>1. status = "up"
  BY DEF ValidPlay, Reads
<1>2. RoomArrayInv /\ RoomsOrderly(rooms, nb_rooms)
  BY <1>1 DEF TalkInv, LiveInv, OrderInv, Orderly
<1>3. PICK i : i = RoomIndex(clients[c].room_id)
  OBVIOUS
<1>4. i \in RoomSlots
  BY <1>2, <1>3, FoundIs, LiveSlots DEF ValidPlay
<1>5. PICK r : r = rooms[i]
  OBVIOUS
<1>6. PICK x : x = 1 - r.turn
  OBVIOUS
<1>7. PICK r2 : r2 = [r EXCEPT !.turn = x]
  OBVIOUS
<1>8. IsRoom(r) /\ TypedRoom(r)
  BY <1>4, <1>5 DEF Typed, TypedRooms, RoomArrayInv
<1>9. IsRoom(r2) /\ r2.turn = x /\ r2.players = r.players /\ SameRoomBut(r, r2)
  BY <1>7, <1>8, TurnSet
<1>10. x \in {0, 1}
  BY <1>6, <1>8 DEF TypedRoom
<1>11. TypedRoom(r2)
  BY <1>8, <1>9, <1>10 DEF TypedRoom, SameRoomBut
<1>12. rooms' = [rooms EXCEPT ![i] = r2] /\ nb_rooms' = nb_rooms /\ clients' = clients
  BY <1>3, <1>5, <1>6, <1>7 DEF ValidPlay
<1>13. nb_rooms' \in 0 .. MAX_ROOMS
  BY <1>2, <1>12 DEF RoomArrayInv
<1>14. TypedRooms'
  BY <1>4, <1>9, <1>11, <1>12, <1>13, RoomTyped DEF Typed
<1>15. QED
  BY <1>12, <1>14 DEF Typed, TypedClients

LEMMA BiographyTyped ==
  ASSUME ArrayInv, Typed, NEW c \in ClientSlots, HandleSetBiography(c) PROVE Typed'
<1>1. PICK x : x = clients[c].name
  OBVIOUS
<1>2. clients' = [clients EXCEPT ![c].biography = x] /\ rooms' = rooms /\ nb_rooms' = nb_rooms
  BY <1>1 DEF HandleSetBiography
<1>3. /\ clients'[c].biography = x /\ clients'[c].sock = clients[c].sock
      /\ clients'[c].name = clients[c].name /\ clients'[c].room_id = clients[c].room_id
      /\ \A d \in ClientSlots : d # c => clients'[d] = clients[d]
  BY <1>2 DEF ArrayInv, IsClient
<1>4. TypedClient(clients'[c])
  BY <1>1, <1>3 DEF Typed, TypedClients, TypedClient
<1>5. TypedClients'
  BY <1>3, <1>4, ClientTyped DEF Typed
<1>6. QED
  BY <1>2, <1>5 DEF Typed, TypedRooms, RoomArrayInv

LEMMA DisconnectTyped ==
  ASSUME TalkInv, Typed, NEW c \in ClientSlots, Disconnect(c) PROVE Typed'
<1>1. status = "up" /\ c \in Connected /\ nb_rooms' = nb_rooms
  BY DEF Disconnect, Reads
<1>2. /\ Orderly(rooms, nb_rooms, fd, names, places) /\ RoomArrayInv /\ SocketsInv
      /\ ArrayInv
  BY <1>1, Ordered DEF SocketsInv
<1>3. TypedClients'
  <2>1. /\ nb_clients \in Nat /\ nb_clients <= MAX_CLIENTS /\ MAX_CLIENTS \in Nat /\ c \in Nat
    BY <1>2, ServerAssumption DEF ArrayInv, ClientSlots
  <2>2. \A k \in c .. nb_clients - 2 : k + 1 \in ClientSlots
    BY <2>1 DEF ClientSlots
  <2>3. \A k \in ClientSlots : \E l \in ClientSlots : clients'[k] = clients[l]
    BY <2>2 DEF Disconnect, WithoutClient
  <2>4. QED
    BY <2>3 DEF Typed, TypedClients, TypedClient
<1>4. CASE rooms' = rooms
  BY <1>1, <1>3, <1>4 DEF Typed, TypedRooms, RoomArrayInv
<1>5. CASE rooms' # rooms
  <2>1. PICK type : Reads(c, type)
    BY DEF Disconnect
  <2>2. PICK p, m, v : Reader(c, p, m, v)
    BY <2>1, Reading
  <2>3. PICK i, j : HasSeat(p, i, j) /\ rooms' = [rooms EXCEPT ![i].players[j].id = -1]
    BY <1>1, <1>5, <2>2, DisconnectWrites DEF Reader
  <2>4. i \in RoomSlots /\ j \in Seats
    BY <1>2, <2>3, LiveSlots, PlayersHaveSeats DEF HasSeat, Held
  <2>5. PICK x : x = -1
    OBVIOUS
  <2>6. x \in -1 .. MAX_CLIENTS /\ rooms' = [rooms EXCEPT ![i].players[j].id = x]
    BY <2>3, <2>5, ServerAssumption
  <2>7. TypedRooms'
    BY <1>1, <2>4, <2>6, SeatIdTyped DEF Typed
  <2>8. QED
    BY <1>3, <2>7 DEF Typed
<1>6. QED
  BY <1>4, <1>5

(* The rest of the steps.                                                  *)
LEMMA HandlesTyped ==
  ASSUME OnlyGames, TextNames, TalkInv, Typed, Serve PROVE Typed'
<1>1. ArrayInv /\ SocketsInv /\ ServerStep
  BY DEF TalkInv, SocketsInv, Serve
<1>2. CASE UNCHANGED <<clients, rooms, nb_rooms>>
  BY <1>2 DEF Typed, TypedClients, TypedRooms, RoomArrayInv
<1>3. CASE Accept
  BY <1>1, <1>3, AcceptTyped
<1>4. CASE AcceptOutOfBounds
  BY <1>2, <1>4 DEF AcceptOutOfBounds
<1>5. ASSUME NEW c \in ClientSlots, AcceptConnection(c) \/ Rejoin(c) PROVE Typed'
  BY <1>5, NamedTyped, RejoinTyped
<1>6. ASSUME NEW c \in ClientSlots, HandleCreateRoom(c) \/ HandleJoinRoom(c) PROVE Typed'
  BY <1>6, CreateTyped, JoinTyped
<1>7. ASSUME NEW c \in ClientSlots,
             ValidPlay(c) \/ HandleSetBiography(c) \/ Disconnect(c)
      PROVE  Typed'
  BY <1>1, <1>7, PlayTyped, BiographyTyped, DisconnectTyped
<1>8. ASSUME NEW c \in ClientSlots,
             \/ RefuseConnection(c) \/ CreateOutOfBounds(c) \/ RefuseJoinRoom(c)
             \/ RejectPlay(c) \/ HandleSendMessage(c)
      PROVE  UNCHANGED <<clients, rooms, nb_rooms>>
  BY <1>8 DEF RefuseConnection, CreateOutOfBounds, RefuseJoinRoom, RejectPlay, HandleSendMessage
<1>9. \A c \in ClientSlots : ~HandleLeave(c) /\ ~EndingPlay(c) /\ ~PlayNowhere(c)
  BY NeverHandled
<1>10. QED
  BY <1>1, <1>2, <1>3, <1>4, <1>5, <1>6, <1>7, <1>8, <1>9 DEF ServerStep, HandleConnect, HandlePlay

LEMMA StatusTyped ==
  ASSUME OnlyGames, TalkInv, Serve, status \in {"up", "exited", "corrupt"}
  PROVE  status' \in {"up", "exited", "corrupt"}
<1>1. ServerStep
  BY DEF Serve
<1>2. CASE Accept \/ AcceptOutOfBounds
  BY <1>2 DEF Accept, AcceptOutOfBounds
<1>3. ASSUME NEW c \in ClientSlots, CreateOutOfBounds(c) \/ Disconnect(c)
      PROVE  status' \in {"up", "exited", "corrupt"}
  BY <1>3 DEF CreateOutOfBounds, Disconnect
<1>4. ASSUME NEW c \in ClientSlots,
             \/ HandleConnect(c) \/ HandleCreateRoom(c) \/ HandleJoinRoom(c) \/ RefuseJoinRoom(c)
             \/ RejectPlay(c) \/ ValidPlay(c) \/ HandleSendMessage(c) \/ HandleSetBiography(c)
      PROVE  status' \in {"up", "exited", "corrupt"}
  <2>1. status' = status \/ status' = "exited"
    BY <1>4, EmitsStatus DEF HandleConnect, RefuseConnection, AcceptConnection, Rejoin,
       HandleCreateRoom, HandleJoinRoom, RefuseJoinRoom, RejectPlay, ValidPlay,
       HandleSendMessage, HandleSetBiography
  <2>2. QED
    BY <2>1
<1>5. \A c \in ClientSlots : ~HandleLeave(c) /\ ~EndingPlay(c) /\ ~PlayNowhere(c)
  BY NeverHandled
<1>6. QED
  BY <1>1, <1>2, <1>3, <1>4, <1>5 DEF ServerStep, HandlePlay

LEMMA NextTyped ==
  ASSUME OnlyGames, TextNames, TalkInv, SocketsInv', TypedInv, [Next]_vars PROVE TypedInv'
<1>1. fd' \in [Proc -> 0 .. MAX_CLIENTS]
  BY DEF SocketsInv, FdInv
<1>2. CASE Serve
  BY <1>1, <1>2, HandlesTyped, StatusTyped DEF TypedInv, Typed
<1>3. CASE ~Serve
  <2>1. UNCHANGED <<clients, rooms, nb_rooms>> /\ (status' = status \/ status' = "exited")
    BY <1>3 DEF Next, Stop, Shutdown, Connect, User, ClientReceives, Lost, Network, serverVars, vars
  <2>2. QED
    BY <1>1, <2>1 DEF TypedInv, TypedClients, TypedRooms, RoomArrayInv
<1>4. QED
  BY <1>2, <1>3

(* The arrays, the sockets and the states of the programs are of their     *)
(* types, entries no longer in use included, as long as games are only     *)
(* played and names are text: no room has more than two players or a turn  *)
(* of nobody's, although nothing tests either, no seat a socket beyond the *)
(* server's or the slot of no client, whatever handlers write in single    *)
(* fields of entries and the shifting of clients leaves behind.            *)
THEOREM EverythingTyped == OnlyGames /\ TextNames => (Spec => []TypeOK)
<1>1. ASSUME OnlyGames, TextNames PROVE Spec => []TypeOK
  <2>1. Init => TypedInv
    BY <1>1, InitTyped
  <2>2. TalkInv /\ TalkInv' /\ TypedInv /\ [Next]_vars => TypedInv'
    BY <1>1, NextTyped DEF TalkInv
  <2>3. TalkInv /\ TypedInv => TypeOK
    BY TypedIs DEF TalkInv
  <2>4. Spec => []TalkInv
    BY <1>1, TalkAlways
  <2>5. QED
    BY <2>1, <2>2, <2>3, <2>4, PTL DEF Spec
<1>2. QED
  BY <1>1
=============================================================================
