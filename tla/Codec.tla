-------------------------------- MODULE Codec --------------------------------
(***************************************************************************)
(* The format of the messages: how both protocol.c write a message into    *)
(* bytes and read it back.  A frame is a length of two bytes and as many   *)
(* bytes of body: the type, then the fields.  Characters are bytes other   *)
(* than 0; a string is a sequence of them, a 0 after it in the frame.      *)
(* The sizes are computed as the writers compute them, apart from what     *)
(* they write.                                                             *)
(***************************************************************************)
EXTENDS Integers, SequencesExt

CONSTANTS BUF_SIZE,     \* bytes of the buffer messages are read into
          BOARD_SIZE

(* A length of two bytes can count all the bytes of the buffer, which has  *)
(* room for one and a type (1024 bytes in the program).                    *)
ASSUME CodecAssumption ==
  /\ BUF_SIZE \in Nat /\ BUF_SIZE >= 3 /\ BUF_SIZE <= 65536
  /\ BOARD_SIZE \in Nat \ {0} /\ BOARD_SIZE % 2 = 0

(* The two enums, with the values C gives them.                            *)
ClientServerProtocol ==
  [CONNECT |-> 0, CREATE_ROOM |-> 1, JOIN_ROOM |-> 2, PLAY |-> 3, LEAVE_ROOM |-> 4,
   SEND_MESSAGE |-> 5, SET_BIOGRAPHY |-> 6]

ServerClientProtocol ==
  [CONNECTION_SUCCESSFUL |-> 0, CONNECTION_REFUSED |-> 1, ROOM_CREATION_SUCCESSFUL |-> 2,
   ROOM_CREATION_REFUSED |-> 3, JOIN_ROOM_SUCCESSFUL |-> 4, JOIN_ROOM_REFUSED |-> 5,
   PLAYED |-> 6, GAME_START |-> 7, PLAYER_JOINED_ROOM |-> 8, SPECTATOR_JOINED_ROOM |-> 9,
   GAME_STOPPED |-> 10, MESSAGE |-> 11, INVALID_PLAY |-> 12]

(* Mutant: a byte takes any value.                                         *)
ByteUnreduced(n) == n

(* Little-endian integers in memory, and what strcpy writes.               *)
Byte(n)    == n % 256
Uint16(n)  == <<Byte(n), Byte(n \div 256)>>
Uint32(n)  == Uint16(n) \o Uint16(n \div 65536)
Strcpy(s)  == Append(s, 0)
Strlen(s)  == Len(s)

(* What is sent: the size, then that many bytes of what was written.       *)
Frame(size, body) == Uint16(size) \o SubSeq(body, 1, size)
-----------------------------------------------------------------------------
(***************************************************************************)
(* client/src/protocol.c: the requests of a client.                        *)
(***************************************************************************)
Request(type) == <<ClientServerProtocol[type]>>

WriteConnect(name) ==
  Frame(Strlen(name) + 2, Request("CONNECT") \o Strcpy(name))

(* Mutant: the type is not counted in the size.                            *)
WriteCreateRoomEmpty == Frame(0, Request("CREATE_ROOM"))

WriteCreateRoom == Frame(1, Request("CREATE_ROOM"))

(* Mutant: the type is not counted in the size.                            *)
WriteJoinRoomShort(room_id, spectate) ==
  Frame(4 + 1, Request("JOIN_ROOM") \o Uint32(room_id) \o <<spectate>>)

WriteJoinRoom(room_id, spectate) ==
  Frame(4 + 1 + 1, Request("JOIN_ROOM") \o Uint32(room_id) \o <<spectate>>)

WriteLeaveRoom == Frame(1, Request("LEAVE_ROOM"))

WritePlay(pos) == Frame(1 + 1, Request("PLAY") \o <<Byte(pos)>>)

WriteSendMessage(message) ==
  Frame(2 + Strlen(message), Request("SEND_MESSAGE") \o Strcpy(message))

WriteSetBiography(bio) ==
  Frame(2 + Strlen(bio), Request("SET_BIOGRAPHY") \o Strcpy(bio))

(* The messages a client may send, each field as wide as its C type.       *)
Bytes    == 0 .. 255
Char     == 1 .. 255
UInt32   == {n \in Nat : n \div 65536 < 65536}
Requests ==
  [type : {"CONNECT", "SEND_MESSAGE", "SET_BIOGRAPHY"}, text : Seq(Char)]
  \cup [type : {"CREATE_ROOM", "LEAVE_ROOM"}]
  \cup [type : {"JOIN_ROOM"}, room_id : UInt32, spectate : Bytes]
  \cup [type : {"PLAY"}, pos : Bytes]

(* The bytes a client sends for a message.                                 *)
RequestBytes(m) ==
  CASE m.type = "CONNECT"       -> WriteConnect(m.text)
    [] m.type = "CREATE_ROOM"   -> WriteCreateRoom
    [] m.type = "JOIN_ROOM"     -> WriteJoinRoom(m.room_id, m.spectate)
    [] m.type = "LEAVE_ROOM"    -> WriteLeaveRoom
    [] m.type = "PLAY"          -> WritePlay(m.pos)
    [] m.type = "SEND_MESSAGE"  -> WriteSendMessage(m.text)
    [] m.type = "SET_BIOGRAPHY" -> WriteSetBiography(m.text)
-----------------------------------------------------------------------------
(***************************************************************************)
(* server/src/protocol.c: the messages of the server.  Nobody calls the    *)
(* writers of ROOM_CREATION_REFUSED, PLAYER_JOINED_ROOM and                *)
(* SPECTATOR_JOINED_ROOM yet.                                              *)
(***************************************************************************)
Reply(type) == <<ServerClientProtocol[type]>>

(* The writers of a single string differ in the type only.                 *)
WriteText(type, s) == Frame(Strlen(s) + 2, Reply(type) \o Strcpy(s))

(* Mutant: the type is not counted in the size.                            *)
WriteConnectionSuccessfulEmpty == Frame(0, Reply("CONNECTION_SUCCESSFUL"))

WriteConnectionSuccessful == Frame(1, Reply("CONNECTION_SUCCESSFUL"))

WriteRoomCreationSuccessful(room_id) ==
  Frame(4 + 1, Reply("ROOM_CREATION_SUCCESSFUL") \o Uint32(room_id))

(* The strings of JOIN_ROOM_SUCCESSFUL: names and biographies of players,  *)
(* then names of spectators.                                               *)
RoomStrings(users, spectators) ==
  FlattenSeq([k \in DOMAIN users |-> <<users[k].name, users[k].bio>>]) \o spectators

(* Mutant: the biographies are not counted.                                *)
RoomSizeOfNames(users, spectators) ==
  FoldLeft(LAMBDA size, s : size + Strlen(s) + 1, 3,
           [k \in DOMAIN users |-> users[k].name] \o spectators)

RoomSize(users, spectators) ==
  FoldLeft(LAMBDA size, s : size + Strlen(s) + 1, 3, RoomStrings(users, spectators))

WriteJoinRoomSuccessful(users, spectators) ==
  LET strings == RoomStrings(users, spectators)
  IN  Frame(RoomSize(users, spectators),
            Reply("JOIN_ROOM_SUCCESSFUL") \o <<Byte(Len(users)), Byte(Len(spectators))>>
            \o FlattenSeq([k \in DOMAIN strings |-> Strcpy(strings[k])]))

(* Mutant: everybody is sent the board as player 0 sees it.                *)
WritePlayedUnturned(side, captured, board) ==
  Frame(BOARD_SIZE + 3,
        Reply("PLAYED") \o <<Byte(captured[side]), Byte(captured[1 - side])>>
        \o [k \in 1 .. BOARD_SIZE |-> board[k - 1]])

(* The board is turned so that the row of `side` comes first.              *)
WritePlayed(side, captured, board) ==
  Frame(BOARD_SIZE + 3,
        Reply("PLAYED") \o <<Byte(captured[side]), Byte(captured[1 - side])>>
        \o [k \in 1 .. BOARD_SIZE |->
              board[(k - 1 + (BOARD_SIZE \div 2) * side) % BOARD_SIZE]])

WriteGameStart(side) == Frame(1 + 1, Reply("GAME_START") \o <<Byte(side)>>)

(* winner is not looked at when the game is a draw.                        *)
WriteGameStopped(draw, winner) ==
  IF draw = 0
  THEN Frame(1 + 1 + 1 + Strlen(winner), Reply("GAME_STOPPED") \o <<draw>> \o Strcpy(winner))
  ELSE Frame(1 + 1, Reply("GAME_STOPPED") \o <<draw>>)

WriteMessage(username, message) ==
  Frame(Strlen(message) + Strlen(username) + 3,
        Reply("MESSAGE") \o Strcpy(username) \o Strcpy(message))

(* The messages the server may send; counts are bytes as well.             *)
Few(S)  == {s \in Seq(S) : Len(s) \in Bytes}
Replies ==
  [type : {"CONNECTION_REFUSED", "JOIN_ROOM_REFUSED", "INVALID_PLAY"}, text : Seq(Char)]
  \cup [type : {"CONNECTION_SUCCESSFUL"}]
  \cup [type : {"ROOM_CREATION_SUCCESSFUL"}, room_id : UInt32]
  \cup [type : {"JOIN_ROOM_SUCCESSFUL"}, spectators : Few(Seq(Char)),
        users : Few([name : Seq(Char), bio : Seq(Char)])]
  \cup [type : {"PLAYED"}, side : {0, 1}, captured : [{0, 1} -> Bytes],
        board : [0 .. BOARD_SIZE - 1 -> Bytes]]
  \cup [type : {"GAME_START"}, pos : Bytes]
  \cup [type : {"GAME_STOPPED"}, draw : Bytes, winner : Seq(Char)]
  \cup [type : {"MESSAGE"}, username : Seq(Char), text : Seq(Char)]

(* The bytes the server sends for a message.                               *)
ReplyBytes(m) ==
  CASE m.type = "CONNECTION_SUCCESSFUL"    -> WriteConnectionSuccessful
    [] m.type = "ROOM_CREATION_SUCCESSFUL" -> WriteRoomCreationSuccessful(m.room_id)
    [] m.type = "JOIN_ROOM_SUCCESSFUL"     -> WriteJoinRoomSuccessful(m.users, m.spectators)
    [] m.type = "PLAYED"                   -> WritePlayed(m.side, m.captured, m.board)
    [] m.type = "GAME_START"               -> WriteGameStart(m.pos)
    [] m.type = "GAME_STOPPED"             -> WriteGameStopped(m.draw, m.winner)
    [] m.type = "MESSAGE"                  -> WriteMessage(m.username, m.text)
    [] OTHER                               -> WriteText(m.type, m.text)
-----------------------------------------------------------------------------
(***************************************************************************)
(* Reading a body that lies in a buffer, a function of the offset.         *)
(***************************************************************************)
SizeIn(buf)          == buf[0] + 256 * buf[1]
Uint32At(buf, k)     == buf[k] + 256 * buf[k + 1] + 65536 * (buf[k + 2] + 256 * buf[k + 3])
BytesAt(buf, k, n)   == [j \in 1 .. n |-> buf[k + j - 1]]

(* A string ends at the first 0, or where the buffer does.                 *)
StringAt(buf, k) ==
  LET ends == {e \in k .. BUF_SIZE - 1 : buf[e] = 0}
  IN  BytesAt(buf, k, (IF ends = {} THEN BUF_SIZE ELSE Min(ends)) - k)

(* Where the strings that lie one after the other from offset k begin.     *)
StringStarts(buf, k, n) ==
  LET start[j \in 0 .. n] ==
        IF j = 0 THEN k ELSE start[j - 1] + Strlen(StringAt(buf, start[j - 1])) + 1
  IN  start

(* The enumerator with this value; the switches have no default.           *)
TypeOf(enum, byte) ==
  IF \E t \in DOMAIN enum : enum[t] = byte
  THEN CHOOSE t \in DOMAIN enum : enum[t] = byte ELSE "NONE"

(* server/src/protocol.c.                                                  *)
ReadRequest(buf) ==
  LET type == TypeOf(ClientServerProtocol, buf[0])
  IN  CASE type \in {"CONNECT", "SEND_MESSAGE", "SET_BIOGRAPHY"} ->
             [type |-> type, text |-> StringAt(buf, 1)]
        [] type = "JOIN_ROOM" ->
             [type |-> type, room_id |-> Uint32At(buf, 1), spectate |-> buf[4 + 1]]
        [] type = "PLAY" -> [type |-> type, pos |-> buf[1]]
        [] OTHER -> [type |-> type]

(* client/src/protocol.c.                                                  *)
ReadRoom(buf) ==
  LET nb_users      == buf[1]
      nb_spectators == buf[2]
      start         == StringStarts(buf, 3, 2 * nb_users + nb_spectators)
  IN  [type       |-> "JOIN_ROOM_SUCCESSFUL",
       users      |-> [k \in 1 .. nb_users |->
                         [name |-> StringAt(buf, start[2 * k - 2]),
                          bio  |-> StringAt(buf, start[2 * k - 1])]],
       spectators |-> [k \in 1 .. nb_spectators |-> StringAt(buf, start[2 * nb_users + k - 1])]]

ReadReply(buf) ==
  LET type == TypeOf(ServerClientProtocol, buf[0])
  IN  CASE type \in {"CONNECTION_SUCCESSFUL", "NONE"} -> [type |-> type]
        [] type = "ROOM_CREATION_SUCCESSFUL" -> [type |-> type, room_id |-> Uint32At(buf, 1)]
        [] type = "JOIN_ROOM_SUCCESSFUL" -> ReadRoom(buf)
        [] type = "PLAYED" -> [type |-> type, s_score |-> buf[1], o_score |-> buf[2],
                               board |-> BytesAt(buf, 3, BOARD_SIZE)]
        [] type = "GAME_START" -> [type |-> type, pos |-> buf[1]]
        [] type = "GAME_STOPPED" -> [type |-> type, draw |-> buf[1], winner |-> StringAt(buf, 2)]
        [] type = "MESSAGE" -> [type |-> type, username |-> StringAt(buf, 1),
                                text |-> StringAt(buf, 2 + Strlen(StringAt(buf, 1)))]
        [] OTHER -> [type |-> type, text |-> StringAt(buf, 1)]

(* What the handlers of the client are to be told of a message: a player   *)
(* sees the own score and the own row first, and a draw has no winner.     *)
Told(m) ==
  CASE m.type = "PLAYED" ->
         [type |-> "PLAYED", s_score |-> m.captured[m.side], o_score |-> m.captured[1 - m.side],
          board |-> LET half == BOARD_SIZE \div 2
                        Row(side) == [k \in 1 .. half |-> m.board[half * side + k - 1]]
                    IN  Row(m.side) \o Row(1 - m.side)]
    [] m.type = "GAME_STOPPED" ->
         [m EXCEPT !.winner = IF m.draw = 0 THEN @ ELSE <<>>]
    [] OTHER -> m
=============================================================================
