------------------------------- MODULE Server -------------------------------
(***************************************************************************)
(* The server program: one process that serves one event at a time.  An    *)
(* action is one turn of the loop of server/src/server.c: accepting a      *)
(* connection, or reading one message and running its handler of           *)
(* server/src/protocol.c to the end, or noticing that a client is gone.    *)
(* The arrays are kept as the code keeps them, with the entries beyond     *)
(* nb_clients and nb_rooms still holding what was there.                   *)
(***************************************************************************)
EXTENDS Wire, FiniteSetsExt

CONSTANTS Codes,             \* room codes rand() may return
          MAX_CLIENTS, MAX_ROOMS, MAX_GAME_PLAYERS,
          Outcomes           \* what a move may lead to

(* A room code is not 0, the room_id of a client that is in no room, and   *)
(* rand() has more results (32768 at least) than the arrays have slots.    *)
ASSUME ServerAssumption ==
  /\ MAX_CLIENTS \in Nat \ {0}
  /\ MAX_ROOMS \in Nat \ {0} /\ MAX_GAME_PLAYERS \in Nat /\ MAX_GAME_PLAYERS > 2
  /\ Codes \subseteq Nat \ {0} /\ IsFiniteSet(Codes)
  /\ Cardinality(Codes) > MAX_ROOMS + MAX_CLIENTS
  /\ Outcomes \subseteq {"REJECTED", "VALID_PLAY", "WON", "DRAW"}

VARIABLES clients, nb_clients, rooms, nb_rooms,   \* the server's globals
          fd,        \* fd[p]: the socket of p in the server, 0 if not open
          backlog,   \* connections made and not yet accepted
          status     \* "up", "exited", or "corrupt": out of an array's bounds
serverVars == <<clients, nb_clients, rooms, nb_rooms, fd, backlog, status>>

ClientSlots == 0 .. MAX_CLIENTS - 1
RoomSlots   == 0 .. MAX_ROOMS - 1
Seats       == 0 .. MAX_GAME_PLAYERS - 1    \* players 0 and 1, then spectators
Sockets     == 1 .. MAX_CLIENTS

(* Zeroed static memory.  0 is the descriptor of standard input.           *)
NoClient == [sock |-> 0, name |-> "", room_id |-> 0, biography |-> ""]
NoSeat   == [id |-> 0, name |-> "", client_index |-> 0]
NoRoom   == [id |-> 0, nb_players |-> 0, nb_spectators |-> 0,
             players |-> [k \in Seats |-> NoSeat], is_started |-> FALSE, turn |-> 0]

ServerInit ==
  /\ clients = [c \in ClientSlots |-> NoClient] /\ nb_clients = 0
  /\ rooms = [i \in RoomSlots |-> NoRoom] /\ nb_rooms = 0
  /\ fd = [p \in Proc |-> 0] /\ backlog = <<>> /\ status = "up"

Connected == 0 .. nb_clients - 1
LiveRooms == 0 .. nb_rooms - 1

(* The players and the spectators a room's counters say it has.            *)
PlayerSeats(room)    == 0 .. room.nb_players - 1
SpectatorSeats(room) == 2 .. room.nb_spectators + 1

(* The loops `for (i = 0; i < nb_rooms; ++i) if (rooms[i].id == ..) break` *)
(* leave in i the room, or one past the last room if there is none.        *)
RoomFound(room_id) == \E i \in LiveRooms : rooms[i].id = room_id
RoomIndex(room_id) == IF RoomFound(room_id)
                      THEN Min({i \in LiveRooms : rooms[i].id = room_id})
                      ELSE Max({0, nb_rooms})
-----------------------------------------------------------------------------
(***************************************************************************)
(* write_client.  `out` lists the messages a handler writes, each with the *)
(* socket it goes to.  Socket -1 is skipped; a descriptor that is not a    *)
(* connection makes send fail and the server exit; so may writing to a     *)
(* connection that was reset, which otherwise loses the message.           *)
(***************************************************************************)
To(sock, m) == [to |-> sock, msg |-> m]

Open(sock)  == sock # 0 /\ \E p \in Proc : fd[p] = sock
Fatal(sock) == sock # -1 /\ ~Open(sock)

MayBreak(out, k) ==
  \E p \in Proc : /\ fd[p] = out[k].to /\ Gone(p)
                  /\ Reset(p) \/ \E j \in 1 .. k - 1 : out[j].to = out[k].to

ExitsAt(out, k) == /\ \A j \in 1 .. k - 1 : ~Fatal(out[j].to)
                   /\ Fatal(out[k].to) \/ MayBreak(out, k)

MessageTo(p, e)    == IF fd[p] # 0 /\ e.to = fd[p] THEN <<e.msg>> ELSE <<>>
MessagesTo(p, out) ==
  LET upto[n \in 0 .. Len(out)] ==
        IF n = 0 THEN <<>> ELSE upto[n - 1] \o MessageTo(p, out[n])
  IN  upto[Len(out)]

Deliver(reader, out) ==
  /\ down' = [p \in Proc |-> Written(down[p], p, MessagesTo(p, out))]
  /\ up' = [p \in Proc |-> Provoked(IF p = reader THEN Tail(up[p]) ELSE up[p],
                                    MessagesTo(p, out))]

(* The message of `reader` being handled is consumed and `out` written.    *)
Emit(reader, out) ==
  \/ /\ \A k \in 1 .. Len(out) : ~Fatal(out[k].to)
     /\ Deliver(reader, out)
     /\ UNCHANGED status
  \/ \E k \in 1 .. Len(out) :
       /\ ExitsAt(out, k)
       /\ Deliver(reader, SubSeq(out, 1, k - 1))
       /\ status' = "exited"

(* A message to each seat of a range, in order.                            *)
ToSeats(room, first, last, M(_)) ==
  [k \in 1 .. last - first + 1 |-> To(room.players[first + k - 1].id, M(first + k - 1))]

(* read_client: the next message of the client in slot c.                  *)
Process(c)    == CHOOSE p \in Proc : fd[p] = clients[c].sock
Message(c)    == Head(up[Process(c)])
Reads(c, type) ==
  /\ status = "up" /\ c \in Connected
  /\ up[Process(c)] # <<>> /\ Message(c).type = type
-----------------------------------------------------------------------------
(* The branch of the loop that accepts a connection.                       *)
Accept ==
  /\ status = "up" /\ backlog # <<>> /\ nb_clients < MAX_CLIENTS
  /\ LET csock == Min({s \in Sockets : ~Open(s)})
     IN  /\ fd' = [fd EXCEPT ![Head(backlog)] = csock]
         /\ clients' = [clients EXCEPT ![nb_clients] =
                          [sock |-> csock, name |-> "", room_id |-> 0, biography |-> ""]]
  /\ nb_clients' = nb_clients + 1
  /\ backlog' = Tail(backlog)
  /\ UNCHANGED <<wires, rooms, nb_rooms, status>>

(* nb_clients is not compared with MAX_CLIENTS.                            *)
AcceptOutOfBounds ==
  /\ status = "up" /\ backlog # <<>> /\ nb_clients >= MAX_CLIENTS
  /\ status' = "corrupt"
  /\ UNCHANGED <<wires, clients, nb_clients, rooms, nb_rooms, fd, backlog>>

(* What is said of a room to somebody who enters it: its players with the  *)
(* biographies found in the slots of cs they were seen in, its spectators. *)
JoinRoomSuccessful(room, cs) ==
  [type       |-> "JOIN_ROOM_SUCCESSFUL",
   users      |-> [k \in 1 .. room.nb_players |->
                     [name |-> room.players[k - 1].name,
                      bio  |-> cs[room.players[k - 1].client_index].biography]],
   spectators |-> [k \in 1 .. room.nb_spectators |-> room.players[k + 1].name]]

(* Mutant: the last client of the array is not looked at.                  *)
NameInUseButLast(name) == \E c \in 0 .. nb_clients - 2 : clients[c].name = name

NameInUse(name) == \E c \in Connected : clients[c].name = name

(* The seats kept for a player of this name, and the first one found.      *)
KeptSeats(name) ==
  {s \in LiveRooms \X {0, 1} : /\ s[2] \in PlayerSeats(rooms[s[1]])
                               /\ rooms[s[1]].players[s[2]].name = name}
FirstSeat(name) ==
  CHOOSE s \in KeptSeats(name) : \A t \in KeptSeats(name) :
    s[1] < t[1] \/ (s[1] = t[1] /\ s[2] <= t[2])

RefuseConnection(c) ==
  /\ Reads(c, "CONNECT") /\ NameInUse(Message(c).name)
  /\ Emit(Process(c), <<To(clients[c].sock, [type |-> "CONNECTION_REFUSED"])>>)
  /\ UNCHANGED <<clients, nb_clients, rooms, nb_rooms, fd, backlog>>

AcceptConnection(c) ==
  /\ Reads(c, "CONNECT") /\ ~NameInUse(Message(c).name) /\ KeptSeats(Message(c).name) = {}
  /\ clients' = [clients EXCEPT ![c].name = Message(c).name]
  /\ Emit(Process(c), <<To(clients[c].sock, [type |-> "CONNECTION_SUCCESSFUL"])>>)
  /\ UNCHANGED <<nb_clients, rooms, nb_rooms, fd, backlog>>

(* Somebody comes back to the seat kept under the name.                    *)
Rejoin(c) ==
  /\ Reads(c, "CONNECT") /\ ~NameInUse(Message(c).name) /\ KeptSeats(Message(c).name) # {}
  /\ LET i == FirstSeat(Message(c).name)[1]
         j == FirstSeat(Message(c).name)[2]
         reply == IF ~rooms[i].is_started THEN JoinRoomSuccessful(rooms[i], clients)
                  ELSE IF rooms[i].turn = j THEN [type |-> "PLAYED"]
                  ELSE [type |-> "GAME_START", pos |-> 1]
     IN  /\ clients' = [clients EXCEPT ![c].name = Message(c).name,
                                       ![c].room_id = rooms[i].id]
         /\ rooms' = [rooms EXCEPT ![i].players[j].id = clients[c].sock]
         /\ Emit(Process(c), <<To(clients[c].sock, reply)>>)
  /\ UNCHANGED <<nb_clients, nb_rooms, fd, backlog>>
-----------------------------------------------------------------------------
(* game_add_player.                                                        *)
WithPlayer(room, c, spectate) ==
  LET index == IF spectate THEN 2 + room.nb_spectators ELSE room.nb_players
      seat  == [id |-> clients[c].sock, name |-> clients[c].name, client_index |-> c]
      added == [room EXCEPT !.players[index] = seat]
  IN  IF spectate THEN [added EXCEPT !.nb_spectators = @ + 1]
      ELSE [added EXCEPT !.nb_players = @ + 1]

(* rand() gives the code of a new room; no code comes up twice while       *)
(* anything still holds it, and codes are interchangeable.                 *)
UsedCodes == {rooms[i].id : i \in RoomSlots} \cup {clients[c].room_id : c \in Connected}
(* Mutant: the code of a room that exists may come up.                     *)
NewCodeRepeated == Min(Codes)
NewCode   == Min(Codes \ UsedCodes)

HandleCreateRoom(c) ==
  /\ Reads(c, "CREATE_ROOM") /\ nb_rooms \in RoomSlots
  /\ LET room == [rooms[nb_rooms] EXCEPT !.id = NewCode, !.nb_players = 0,
                    !.nb_spectators = 0, !.is_started = FALSE, !.turn = 0]
     IN  rooms' = [rooms EXCEPT ![nb_rooms] = WithPlayer(room, c, FALSE)]
  /\ clients' = [clients EXCEPT ![c].room_id = NewCode]
  /\ Emit(Process(c), <<To(clients[c].sock, [type |-> "ROOM_CREATION_SUCCESSFUL",
                                             room_id |-> NewCode])>>)
  /\ nb_rooms' = nb_rooms + 1
  /\ UNCHANGED <<nb_clients, fd, backlog>>

(* nb_rooms is not compared with MAX_ROOMS, nor with 0.                    *)
CreateOutOfBounds(c) ==
  /\ Reads(c, "CREATE_ROOM") /\ nb_rooms \notin RoomSlots
  /\ status' = "corrupt"
  /\ UNCHANGED <<wires, clients, nb_clients, rooms, nb_rooms, fd, backlog>>

Full(room, spectate) == \/ ~spectate /\ room.nb_players >= 2
                        \/ room.nb_players >= MAX_GAME_PLAYERS

HandleJoinRoom(c) ==
  /\ Reads(c, "JOIN_ROOM") /\ RoomFound(Message(c).room_id)
  /\ LET i      == RoomIndex(Message(c).room_id)
         room   == WithPlayer(rooms[i], c, Message(c).spectate)
         starts == room.nb_players >= 2 /\ ~room.is_started
         GameStart(j) == [type |-> "GAME_START", pos |-> j]
     IN  /\ ~Full(rooms[i], Message(c).spectate)
         /\ rooms' = [rooms EXCEPT ![i] = [room EXCEPT !.is_started = @ \/ starts]]
         /\ clients' = [clients EXCEPT ![c].room_id = rooms[i].id]
         /\ Emit(Process(c),
                 <<To(clients[c].sock, JoinRoomSuccessful(room, clients))>> \o
                 (IF starts THEN ToSeats(room, 0, room.nb_players - 1, GameStart) ELSE <<>>))
  /\ UNCHANGED <<nb_clients, nb_rooms, fd, backlog>>

(* Mutant: the refusal is not written.                                     *)
RefuseJoinRoomSilently(c) ==
  /\ Reads(c, "JOIN_ROOM")
  /\ RoomFound(Message(c).room_id) =>
       Full(rooms[RoomIndex(Message(c).room_id)], Message(c).spectate)
  /\ Emit(Process(c), <<>>)
  /\ UNCHANGED <<clients, nb_clients, rooms, nb_rooms, fd, backlog>>

(* The room is full, or there is none of that code.                        *)
RefuseJoinRoom(c) ==
  /\ Reads(c, "JOIN_ROOM")
  /\ RoomFound(Message(c).room_id) =>
       Full(rooms[RoomIndex(Message(c).room_id)], Message(c).spectate)
  /\ Emit(Process(c), <<To(clients[c].sock, [type |-> "JOIN_ROOM_REFUSED"])>>)
  /\ UNCHANGED <<clients, nb_clients, rooms, nb_rooms, fd, backlog>>

(* Mutant: the shift begins one room too late.                             *)
DeleteRoomLate(i, room) ==
  /\ nb_rooms' = nb_rooms - 1
  /\ rooms' = [k \in RoomSlots |-> IF k \in i + 1 .. nb_rooms - 2 THEN rooms[k + 1]
                                   ELSE IF k = i THEN room ELSE rooms[k]]

(* Deleting room i from the rooms list, shifting the later ones.           *)
DeleteRoom(i, room) ==
  /\ nb_rooms' = nb_rooms - 1
  /\ rooms' = [k \in RoomSlots |-> IF k \in i .. nb_rooms - 2 THEN rooms[k + 1]
                                   ELSE IF k = i THEN room ELSE rooms[k]]
-----------------------------------------------------------------------------
(***************************************************************************)
(* handle_play.  The board is left out: what game_play and game_is_ended   *)
(* make of a move is one of the Outcomes, and only the mover can win       *)
(* (OnlyMoverWins in Game.tla), which the players are told alike.          *)
(***************************************************************************)
PlayerSide(room, sock) == IF room.players[0].id = sock THEN 0 ELSE 1

Played(j)      == [type |-> "PLAYED"]
GameStopped(j) == [type |-> "GAME_STOPPED"]

PlayedToAll(room) == ToSeats(room, 0, room.nb_players - 1, Played) \o
                     ToSeats(room, 2, room.nb_spectators + 1, Played)

(* Mutant: the first player is always told.                                *)
RejectPlayToFirst(c) ==
  /\ Reads(c, "PLAY") /\ "REJECTED" \in Outcomes /\ RoomFound(clients[c].room_id)
  /\ LET room == rooms[RoomIndex(clients[c].room_id)]
     IN  Emit(Process(c), <<To(room.players[0].id, [type |-> "INVALID_PLAY"])>>)
  /\ UNCHANGED <<clients, nb_clients, rooms, nb_rooms, fd, backlog>>

RejectPlay(c) ==
  /\ Reads(c, "PLAY") /\ "REJECTED" \in Outcomes /\ RoomFound(clients[c].room_id)
  /\ LET room == rooms[RoomIndex(clients[c].room_id)]
         side == PlayerSide(room, clients[c].sock)
     IN  Emit(Process(c), <<To(room.players[side].id, [type |-> "INVALID_PLAY"])>>)
  /\ UNCHANGED <<clients, nb_clients, rooms, nb_rooms, fd, backlog>>

(* Mutants: the turn is counted instead of flipped; it is not flipped.     *)
ValidPlayCounting(c) ==
  /\ Reads(c, "PLAY") /\ "VALID_PLAY" \in Outcomes /\ RoomFound(clients[c].room_id)
  /\ LET i == RoomIndex(clients[c].room_id)
     IN  /\ rooms' = [rooms EXCEPT ![i].turn = 1 + @]
         /\ Emit(Process(c), PlayedToAll(rooms[i]))
  /\ UNCHANGED <<clients, nb_clients, nb_rooms, fd, backlog>>

ValidPlayUnturned(c) ==
  /\ Reads(c, "PLAY") /\ "VALID_PLAY" \in Outcomes /\ RoomFound(clients[c].room_id)
  /\ LET i == RoomIndex(clients[c].room_id)
     IN  Emit(Process(c), PlayedToAll(rooms[i]))
  /\ UNCHANGED <<clients, nb_clients, rooms, nb_rooms, fd, backlog>>

ValidPlay(c) ==
  /\ Reads(c, "PLAY") /\ "VALID_PLAY" \in Outcomes /\ RoomFound(clients[c].room_id)
  /\ LET i == RoomIndex(clients[c].room_id)
     IN  /\ rooms' = [rooms EXCEPT ![i].turn = 1 - @]
         /\ Emit(Process(c), PlayedToAll(rooms[i]))
  /\ UNCHANGED <<clients, nb_clients, nb_rooms, fd, backlog>>

EndingPlay(c) ==
  /\ Reads(c, "PLAY") /\ Outcomes \cap {"WON", "DRAW"} # {} /\ RoomFound(clients[c].room_id)
  /\ LET i == RoomIndex(clients[c].room_id)
     IN  /\ DeleteRoom(i, [rooms[i] EXCEPT !.turn = 1 - @])
         /\ Emit(Process(c), PlayedToAll(rooms[i]) \o ToSeats(rooms[i], 0, 1, GameStopped))
  /\ UNCHANGED <<clients, nb_clients, fd, backlog>>

(* The room is gone: the loop finds nothing and nothing is answered.       *)
PlayNowhere(c) ==
  /\ Reads(c, "PLAY") /\ ~RoomFound(clients[c].room_id)
  /\ Emit(Process(c), <<>>)
  /\ UNCHANGED <<clients, nb_clients, rooms, nb_rooms, fd, backlog>>
-----------------------------------------------------------------------------
(***************************************************************************)
(* handle_leave_room, handle_send_message.  When the room is gone they     *)
(* work on the slot one past the last room.                                *)
(***************************************************************************)
HeldPlayerSeats(room, sock) == {j \in PlayerSeats(room) : room.players[j].id = sock}
HeldSpectatorSeats(room, sock) == {j \in SpectatorSeats(room) : room.players[j].id = sock}

(* players[j] = players[nb_spectators - 1], which is not the last one of   *)
(* the spectators: their seats start at 2.                                 *)
WithoutSpectator(room, j) ==
  [room EXCEPT !.players[j] = room.players[room.nb_spectators - 1],
               !.nb_spectators = @ - 1]

LeaveAsPlayer(c) ==
  /\ Reads(c, "LEAVE_ROOM")
  /\ LET i    == RoomIndex(clients[c].room_id)
         held == HeldPlayerSeats(rooms[i], clients[c].sock)
         last == rooms[i].nb_players + rooms[i].nb_spectators - 1
     IN  /\ held # {}
         /\ DeleteRoom(i, rooms[i])
         /\ Emit(Process(c), ToSeats(rooms[i], 0, Min(held) - 1, GameStopped) \o
                             ToSeats(rooms[i], Min(held) + 1, last, GameStopped))
  /\ clients' = [clients EXCEPT ![c].room_id = 0]
  /\ UNCHANGED <<nb_clients, fd, backlog>>

LeaveAsSpectator(c) ==
  /\ Reads(c, "LEAVE_ROOM")
  /\ LET i    == RoomIndex(clients[c].room_id)
         held == HeldSpectatorSeats(rooms[i], clients[c].sock)
     IN  /\ HeldPlayerSeats(rooms[i], clients[c].sock) = {}
         /\ rooms' = IF held = {} THEN rooms
                     ELSE [rooms EXCEPT ![i] = WithoutSpectator(@, Min(held))]
  /\ clients' = [clients EXCEPT ![c].room_id = 0]
  /\ Emit(Process(c), <<>>)
  /\ UNCHANGED <<nb_clients, nb_rooms, fd, backlog>>

(* Of what is written to all in a room: the sender is skipped, as a seat   *)
(* without a socket is.                                                    *)
ToOthers(all, sock) ==
  [k \in DOMAIN all |-> IF all[k].to = sock THEN To(-1, all[k].msg) ELSE all[k]]

(* Mutant: the last spectator is not written to.                           *)
HandleSendMessageShort(c) ==
  /\ Reads(c, "SEND_MESSAGE")
  /\ LET room    == rooms[RoomIndex(clients[c].room_id)]
         Text(j) == [type |-> "MESSAGE", from |-> clients[c].name]
         all     == ToSeats(room, 0, room.nb_players - 1, Text) \o
                    ToSeats(room, 2, room.nb_spectators, Text)
     IN  Emit(Process(c), ToOthers(all, clients[c].sock))
  /\ UNCHANGED <<clients, nb_clients, rooms, nb_rooms, fd, backlog>>

HandleSendMessage(c) ==
  /\ Reads(c, "SEND_MESSAGE")
  /\ LET room    == rooms[RoomIndex(clients[c].room_id)]
         Text(j) == [type |-> "MESSAGE", from |-> clients[c].name]
         all     == ToSeats(room, 0, room.nb_players - 1, Text) \o
                    ToSeats(room, 2, room.nb_spectators + 1, Text)
     IN  Emit(Process(c), ToOthers(all, clients[c].sock))
  /\ UNCHANGED <<clients, nb_clients, rooms, nb_rooms, fd, backlog>>

(* A biography is identified by the name of who wrote it.                  *)
HandleSetBiography(c) ==
  /\ Reads(c, "SET_BIOGRAPHY")
  /\ clients' = [clients EXCEPT ![c].biography = clients[c].name]
  /\ Emit(Process(c), <<>>)
  /\ UNCHANGED <<nb_clients, rooms, nb_rooms, fd, backlog>>
-----------------------------------------------------------------------------
(* disconnect_user on room i of the client's socket.  The spectator loop   *)
(* looks in rooms[j] for what it removes from rooms[i].                    *)
(* Mutants: the seat keeps the socket that was closed.                     *)
DisconnectPlayerKept(i, sock) == rooms
DisconnectPlayer(i, sock) ==
  [rooms EXCEPT ![i].players[Min(HeldPlayerSeats(rooms[i], sock))].id = -1]

DisconnectSpectatorKept(i, sock) == rooms

DisconnectSpectator(i, sock) ==
  LET after[n \in 0 .. MAX_GAME_PLAYERS - 2] ==
        IF n = 0 THEN rooms
        ELSE LET rs == after[n - 1]   \* iteration j = n - 1
             IN  IF n - 1 < rs[i].nb_spectators /\ rs[n - 1].players[n + 1].id = sock
                 THEN [rs EXCEPT ![i] = WithoutSpectator(@, n + 1)]
                 ELSE rs
  IN  after[MAX_GAME_PLAYERS - 2]

(* Mutant: the shift begins one client too late.                           *)
WithoutClientLate(c) ==
  [k \in ClientSlots |-> IF k \in c + 1 .. nb_clients - 2 THEN clients[k + 1] ELSE clients[k]]

(* remove_client.                                                          *)
WithoutClient(c) ==
  [k \in ClientSlots |-> IF k \in c .. nb_clients - 2 THEN clients[k + 1] ELSE clients[k]]

(* recv returned 0: closesocket, disconnect_user, remove_client.           *)
Disconnect(c) ==
  /\ \E end \in {FIN, RST} : Reads(c, end.type)
  /\ LET sock == clients[c].sock
         i    == RoomIndex(clients[c].room_id)
     IN  rooms' = IF ~RoomFound(clients[c].room_id) THEN rooms
                  ELSE IF HeldPlayerSeats(rooms[i], sock) # {} THEN DisconnectPlayer(i, sock)
                  ELSE DisconnectSpectator(i, sock)
  /\ fd' = [fd EXCEPT ![Process(c)] = 0]
  /\ clients' = WithoutClient(c) /\ nb_clients' = nb_clients - 1
  /\ UNCHANGED <<wires, nb_rooms, backlog, status>>

HandleConnect(c) == RefuseConnection(c) \/ AcceptConnection(c) \/ Rejoin(c)
HandlePlay(c)    == RejectPlay(c) \/ ValidPlay(c) \/ EndingPlay(c) \/ PlayNowhere(c)
HandleLeave(c)   == LeaveAsPlayer(c) \/ LeaveAsSpectator(c)

ServerStep ==
  \/ Accept \/ AcceptOutOfBounds
  \/ \E c \in ClientSlots :
       \/ HandleConnect(c) \/ HandleCreateRoom(c) \/ CreateOutOfBounds(c)
       \/ HandleJoinRoom(c) \/ RefuseJoinRoom(c)
       \/ HandlePlay(c) \/ HandleLeave(c)
       \/ HandleSendMessage(c) \/ HandleSetBiography(c)
       \/ Disconnect(c)

(* A line on the server's standard input ends the loop.                    *)
Shutdown ==
  /\ status = "up" /\ status' = "exited"
  /\ UNCHANGED <<wires, clients, nb_clients, rooms, nb_rooms, fd, backlog>>

ServerTypeOK ==
  /\ clients \in [ClientSlots -> [sock : 0 .. MAX_CLIENTS, name : STRING,
                                  room_id : Codes \cup {0}, biography : STRING]]
  /\ nb_clients \in 0 .. MAX_CLIENTS
  /\ \A i \in RoomSlots :
       /\ rooms[i].id \in Codes \cup {0}
       /\ rooms[i].nb_players \in 0 .. 2
       /\ rooms[i].nb_spectators \in 0 .. MAX_GAME_PLAYERS - 2
       /\ rooms[i].players \in [Seats -> [id : -1 .. MAX_CLIENTS, name : STRING,
                                          client_index : ClientSlots]]
       /\ rooms[i].is_started \in BOOLEAN /\ rooms[i].turn \in {0, 1}
  /\ nb_rooms <= MAX_ROOMS
  /\ fd \in [Proc -> 0 .. MAX_CLIENTS]
  /\ status \in {"up", "exited", "corrupt"}
=============================================================================
