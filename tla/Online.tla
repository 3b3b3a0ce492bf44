------------------------------- MODULE Online -------------------------------
(***************************************************************************)
(* The whole system: client processes, the connections, the server.        *)
(***************************************************************************)
EXTENDS Client, Server

CONSTANT OperatorStops   \* whether somebody ever types at the server

vars == <<wires, clientVars, serverVars>>

Init == /\ up = [p \in Proc |-> <<>>] /\ down = [p \in Proc |-> <<>>]
        /\ ClientInit /\ ServerInit

(* connect() succeeds as long as the server listens.                       *)
Connect(p) ==
  /\ Start(p) /\ status = "up"
  /\ backlog' = Append(backlog, p)
  /\ UNCHANGED <<clients, nb_clients, rooms, nb_rooms, fd, status>>

User(p)   == UserInput(p) /\ UNCHANGED serverVars
ClientReceives(p) == Receive(p) /\ UNCHANGED serverVars
Lost(p)   == status = "exited" /\ ServerLost(p) /\ UNCHANGED serverVars
Serve     == ServerStep /\ UNCHANGED clientVars
Stop      == OperatorStops /\ Shutdown /\ UNCHANGED clientVars
Network(p) == ResetArrives(p) /\ UNCHANGED <<clientVars, serverVars>>

Next == \/ \E p \in Proc : Connect(p) \/ User(p) \/ ClientReceives(p) \/ Lost(p) \/ Network(p)
        \/ Serve \/ Stop

(* The programs run; users, the operator and resets owe nothing.           *)
Fairness == /\ WF_vars(Serve)
            /\ \A p \in Proc : WF_vars(ClientReceives(p)) /\ WF_vars(Lost(p))

Spec == Init /\ [][Next]_vars /\ Fairness
-----------------------------------------------------------------------------
(***************************************************************************)
(* Properties.                                                             *)
(***************************************************************************)

TypeOK == ClientTypeOK /\ ServerTypeOK

(* handle_create_room and the deletions of rooms keep nb_rooms within the  *)
(* array, though none of them checks it.                                   *)
RoomsInBounds == status # "corrupt" /\ nb_rooms \in 0 .. MAX_ROOMS

(* A name identifies one connected client, across connections, refusals    *)
(* and the shifting of the clients array when one disconnects.             *)
UniqueNames == \A c, d \in Connected :
  clients[c].name = clients[d].name /\ clients[c].name # "" => c = d

(* Every open socket is one process's and in one slot of the clients array,*)
(* and every slot in use has one, while slots are shifted and the numbers  *)
(* of closed sockets are given out again: what is written to a client goes *)
(* to nobody else.                                                         *)
SocketsMatch ==
  /\ \A c, d \in Connected : clients[c].sock = clients[d].sock => c = d
  /\ \A p, q \in Proc : fd[p] = fd[q] /\ fd[p] # 0 => p = q
  /\ {clients[c].sock : c \in Connected} = {fd[p] : p \in Proc} \ {0}

(* The socket kept in a player's seat is -1 or that of the client who has  *)
(* the player's name, however clients came back and sockets were reused.   *)
SeatsLive == status = "up" => \A i \in LiveRooms : \A j \in PlayerSeats(rooms[i]) :
  \/ rooms[i].players[j].id = -1
  \/ \E c \in Connected : /\ clients[c].sock = rooms[i].players[j].id
                          /\ clients[c].name = rooms[i].players[j].name
                          /\ clients[c].room_id = rooms[i].id

(* The same for the seats of spectators: each is that of a client the      *)
(* server has in the room.                                                 *)
SpectatorsLive == status = "up" => \A i \in LiveRooms : \A j \in SpectatorSeats(rooms[i]) :
  \E c \in Connected : /\ clients[c].sock = rooms[i].players[j].id
                      /\ clients[c].room_id = rooms[i].id

(* handle_play does not look at turn: that players move in turn rests on   *)
(* the states of the clients and on the messages that move them.           *)
PlayInTurn == status = "up" => \A c \in Connected :
  Reads(c, "PLAY") /\ RoomFound(clients[c].room_id) =>
    LET room == rooms[RoomIndex(clients[c].room_id)]
    IN  room.is_started /\ PlayerSide(room, clients[c].sock) = room.turn

(* The server runs until somebody types at it.                             *)
ServerStays == status # "exited"

(* Nothing is on its way between p, whose name the server knows, and it.   *)
Quiet(p) == /\ status = "up" /\ state[p] \in Running \ {"CONNECTING"}
            /\ fd[p] # 0 /\ up[p] = <<>> /\ down[p] = <<>>

(* A client never waits for an answer that is not coming.                  *)
NobodyForgotten == \A p \in Proc : Quiet(p) => state[p] \notin WaitingReply

(* The player's seats of p.                                                *)
SeatsOf(p) == {s \in LiveRooms \X {0, 1} : /\ s[2] \in PlayerSeats(rooms[s[1]])
                                           /\ rooms[s[1]].players[s[2]].id = fd[p]}

(* When nothing is in transit, the state of a client says where the server *)
(* has it: in a room that waits, in a game with the move or without it, or *)
(* in no room.                                                             *)
Agreement == \A p \in Proc : Quiet(p) =>
  /\ state[p] = "IN_ROOM" => \E s \in SeatsOf(p) : ~rooms[s[1]].is_started
  /\ state[p] = "IN_GAME" =>
       \E s \in SeatsOf(p) : rooms[s[1]].is_started /\ rooms[s[1]].turn # s[2]
  /\ state[p] = "WAITING_PLAY_INPUT" =>
       \E s \in SeatsOf(p) : rooms[s[1]].is_started /\ rooms[s[1]].turn = s[2]
  /\ state[p] = "CONNECTED" => SeatsOf(p) = {}

(* The step in which the server handles a message of this type from c (and *)
(* not one in which a reset makes the message disappear).                  *)
Handled(c, type) == /\ Reads(c, type) /\ ~Reset(Process(c))
                    /\ up'[Process(c)] = Tail(up[Process(c)])

(* A room disappears only when one of its own players leaves it or makes   *)
(* the last move.                                                          *)
LiveCodes == {rooms[i].id : i \in LiveRooms}
ClosedByItsPlayers ==
  [][\A id \in LiveCodes \ LiveCodes' : \E c \in Connected :
       /\ clients[c].room_id = id
       /\ Reads(c, "LEAVE_ROOM") \/ Reads(c, "PLAY")
       /\ up'[Process(c)] = Tail(up[Process(c)])]_vars

(* As long as the room of who sends a message exists, the message goes to  *)
(* all the other clients the server has in that room, as players or as     *)
(* spectators, and to nobody else.                                         *)
MessagesReachTheRoom ==
  [][\A c \in Connected :
       Handled(c, "SEND_MESSAGE") /\ RoomFound(clients[c].room_id) =>
         \A q \in Proc : down'[q] # down[q] <=>
           \E d \in Connected \ {c} : /\ clients[d].sock = fd[q] /\ ~Gone(q)
                                     /\ clients[d].room_id = clients[c].room_id]_vars

(* The rooms behave as the abstract lobby says.                            *)
OpenRooms ==
  {[id      |-> rooms[i].id,
    players |-> [k \in 1 .. rooms[i].nb_players |-> rooms[i].players[k - 1].name],
    turn    |-> rooms[i].turn] : i \in LiveRooms}

AbstractLobby == INSTANCE Lobby WITH open <- OpenRooms, Names <- UNION {Names[p] : p \in Proc}
ImplementsLobby == AbstractLobby!LobbySpec

(* Every request but a move is answered, or the server is lost.            *)
Answered == \A p \in Proc : \A s \in WaitingReply \ {"WAITING_PLAY_ACK"} :
  state[p] = s ~> state[p] # s

(* Every move is answered.                                                 *)
MoveAnswered == \A p \in Proc :
  state[p] = "WAITING_PLAY_ACK" ~> state[p] # "WAITING_PLAY_ACK"

(* When the server is gone every client ends.                              *)
ClientsEnd == \A p \in Proc : status = "exited" /\ state[p] \in Running ~> state[p] = "EXITED"
=============================================================================
