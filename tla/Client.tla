------------------------------- MODULE Client -------------------------------
(***************************************************************************)
(* The client program: the state machine of client/src/state.c, driven by  *)
(* the lines its user types and by the messages of the server.             *)
(***************************************************************************)
EXTENDS Wire, FiniteSets

CONSTANTS Names,      \* Names[p]: what the user of p answers to "What is your name?"
          RoomIds,    \* the room codes users type
          Commands,   \* Commands[p]: what the user of p ever asks for
          MaxInputs   \* MaxInputs[p]: lines the user of p types (a bound)

VARIABLES state,      \* state[p]: the State of the program, or not running
          inputs      \* inputs[p]: lines typed so far (counts up to the bound)
clientVars == <<state, inputs>>

WaitingReply == {"WAITING_CONNECTION", "WAITING_CREATE_ROOM_RESPONSE",
                 "WAITING_JOIN_ROOM_RESPONSE", "WAITING_SPECTATE_ROOM_RESPONSE",
                 "WAITING_PLAY_ACK"}
WaitingInput == {"CONNECTING", "CONNECTED", "WAITING_JOIN_ROOM_INPUT",
                 "WAITING_SPECTATE_ROOM_INPUT", "WAITING_BIO_INPUT",
                 "WAITING_PLAY_INPUT"}
InRoom       == {"IN_ROOM", "SPECTATING", "IN_GAME"}
Running      == WaitingReply \cup WaitingInput \cup InRoom
States       == Running \cup {"NOT_STARTED", "EXITED"}

ClientTypeOK == state \in [Proc -> States] /\ inputs \in [Proc -> Nat]

ClientInit == state = [p \in Proc |-> "NOT_STARTED"] /\ inputs = [p \in Proc |-> 0]

(* app, up to the first prompt.                                            *)
Start(p) ==
  /\ state[p] = "NOT_STARTED"
  /\ state' = [state EXCEPT ![p] = "CONNECTING"]
  /\ UNCHANGED <<wires, inputs>>
-----------------------------------------------------------------------------
(***************************************************************************)
(* handle_user_input.  An invalid choice in CONNECTED and any line in the  *)
(* states it ignores only print something.                                 *)
(***************************************************************************)
Types(p, from) ==
  /\ state[p] \in from
  /\ inputs[p] < MaxInputs[p] /\ inputs' = [inputs EXCEPT ![p] = @ + 1]

Asks(p, command, from) == command \in Commands[p] /\ Types(p, from)

Enters(p, new_state) == state' = [state EXCEPT ![p] = new_state]
Sends(p, m) == up' = [up EXCEPT ![p] = Append(@, m)] /\ UNCHANGED down

EnterName(p, name) ==
  /\ Types(p, {"CONNECTING"})
  /\ Sends(p, [type |-> "CONNECT", name |-> name])
  /\ Enters(p, "WAITING_CONNECTION")

ChooseCreate(p) ==
  /\ Asks(p, "create", {"CONNECTED"})
  /\ Sends(p, [type |-> "CREATE_ROOM"])
  /\ Enters(p, "WAITING_CREATE_ROOM_RESPONSE")

ChooseJoin(p) ==
  /\ Asks(p, "join", {"CONNECTED"})
  /\ Enters(p, "WAITING_JOIN_ROOM_INPUT") /\ UNCHANGED wires

ChooseSpectate(p) ==
  /\ Asks(p, "spectate", {"CONNECTED"})
  /\ Enters(p, "WAITING_SPECTATE_ROOM_INPUT") /\ UNCHANGED wires

ChooseBio(p) ==
  /\ Asks(p, "bio", {"CONNECTED"})
  /\ Enters(p, "WAITING_BIO_INPUT") /\ UNCHANGED wires

EnterRoomToJoin(p, room_id) ==
  /\ Types(p, {"WAITING_JOIN_ROOM_INPUT"})
  /\ Sends(p, [type |-> "JOIN_ROOM", room_id |-> room_id, spectate |-> FALSE])
  /\ Enters(p, "WAITING_JOIN_ROOM_RESPONSE")

EnterRoomToSpectate(p, room_id) ==
  /\ Types(p, {"WAITING_SPECTATE_ROOM_INPUT"})
  /\ Sends(p, [type |-> "JOIN_ROOM", room_id |-> room_id, spectate |-> TRUE])
  /\ Enters(p, "WAITING_SPECTATE_ROOM_RESPONSE")

EnterBio(p) ==
  /\ Types(p, {"WAITING_BIO_INPUT"})
  /\ Sends(p, [type |-> "SET_BIOGRAPHY"])
  /\ Enters(p, "CONNECTED")

(* Which house is played is left to the server's side of the model.        *)
EnterMove(p) ==
  /\ Asks(p, "play", {"WAITING_PLAY_INPUT"})
  /\ Sends(p, [type |-> "PLAY"])
  /\ Enters(p, "WAITING_PLAY_ACK")

(* Mutant: the state is not left with the room.                            *)
LeaveInPlace(p) ==
  /\ Asks(p, "leave", InRoom \cup {"WAITING_PLAY_INPUT"})
  /\ Sends(p, [type |-> "LEAVE_ROOM"])
  /\ UNCHANGED state

Leave(p) ==
  /\ Asks(p, "leave", InRoom \cup {"WAITING_PLAY_INPUT"})
  /\ Sends(p, [type |-> "LEAVE_ROOM"])
  /\ Enters(p, "CONNECTED")

EnterMessage(p) ==
  /\ Asks(p, "message", InRoom \cup {"WAITING_PLAY_INPUT"})
  /\ Sends(p, [type |-> "SEND_MESSAGE"])
  /\ UNCHANGED state

Close(p) ==
  /\ Asks(p, "close", Running)
  /\ HangUp(p)
  /\ Enters(p, "EXITED")

UserInput(p) ==
  \/ \E name \in Names[p] : EnterName(p, name)
  \/ ChooseCreate(p) \/ ChooseJoin(p) \/ ChooseSpectate(p) \/ ChooseBio(p)
  \/ \E id \in RoomIds : EnterRoomToJoin(p, id) \/ EnterRoomToSpectate(p, id)
  \/ EnterBio(p) \/ EnterMove(p) \/ Leave(p) \/ EnterMessage(p) \/ Close(p)
-----------------------------------------------------------------------------
(***************************************************************************)
(* The handlers of the server's messages.  Reaction names the states in    *)
(* which the handler does something and the state it then enters; in the   *)
(* others it ignores the message.  The handlers of the messages the server *)
(* never sends are left out.                                               *)
(***************************************************************************)
Handles(p, type, Reaction) ==
  /\ state[p] \in Running
  /\ down[p] # <<>> /\ Head(down[p]).type = type
  /\ down' = [down EXCEPT ![p] = Tail(@)]
  /\ state' = [state EXCEPT ![p] = IF @ \in DOMAIN Reaction THEN Reaction[@] ELSE @]
  /\ UNCHANGED <<up, inputs>>

HandleConnectionSuccessful(p) ==
  Handles(p, "CONNECTION_SUCCESSFUL", [WAITING_CONNECTION |-> "CONNECTED"])

HandleConnectionRefused(p) ==
  Handles(p, "CONNECTION_REFUSED", [WAITING_CONNECTION |-> "CONNECTING"])

HandleRoomCreationSuccessful(p) ==
  Handles(p, "ROOM_CREATION_SUCCESSFUL", [WAITING_CREATE_ROOM_RESPONSE |-> "IN_ROOM"])

HandleJoinRoomSuccessful(p) ==
  Handles(p, "JOIN_ROOM_SUCCESSFUL",
          [WAITING_JOIN_ROOM_RESPONSE     |-> "IN_ROOM",
           WAITING_SPECTATE_ROOM_RESPONSE |-> "SPECTATING",
           WAITING_CONNECTION             |-> "IN_ROOM"])

(* Mutant: a refusal is only expected by a spectator.                      *)
HandleJoinRoomRefusedElsewhere(p) ==
  Handles(p, "JOIN_ROOM_REFUSED", [WAITING_SPECTATE_ROOM_RESPONSE |-> "CONNECTED"])

HandleJoinRoomRefused(p) ==
  Handles(p, "JOIN_ROOM_REFUSED", [WAITING_JOIN_ROOM_RESPONSE |-> "CONNECTED"])

HandlePlayed(p) ==
  Handles(p, "PLAYED", [IN_GAME            |-> "WAITING_PLAY_INPUT",
                        WAITING_PLAY_ACK   |-> "IN_GAME",
                        WAITING_CONNECTION |-> "WAITING_PLAY_INPUT"])

(* Mutant: whoever comes back has the move.                                *)
HandleGameStartWithMove(p) ==
  Handles(p, "GAME_START",
          [IN_ROOM |-> IF Head(down[p]).pos = 0 THEN "WAITING_PLAY_INPUT" ELSE "IN_GAME",
           WAITING_CONNECTION |-> "WAITING_PLAY_INPUT"])

HandleGameStart(p) ==
  Handles(p, "GAME_START",
          [IN_ROOM |-> IF Head(down[p]).pos = 0 THEN "WAITING_PLAY_INPUT" ELSE "IN_GAME",
           WAITING_CONNECTION |-> "IN_GAME"])

HandleGameStopped(p) ==
  Handles(p, "GAME_STOPPED", [IN_GAME |-> "CONNECTED", SPECTATING |-> "CONNECTED",
                              IN_ROOM |-> "CONNECTED", WAITING_PLAY_INPUT |-> "CONNECTED"])

HandleMessage(p) == Handles(p, "MESSAGE", <<>>)

HandleInvalidPlay(p) ==
  Handles(p, "INVALID_PLAY", [WAITING_PLAY_ACK |-> "WAITING_PLAY_INPUT"])

Receive(p) ==
  \/ HandleConnectionSuccessful(p) \/ HandleConnectionRefused(p)
  \/ HandleRoomCreationSuccessful(p)
  \/ HandleJoinRoomSuccessful(p) \/ HandleJoinRoomRefused(p)
  \/ HandlePlayed(p) \/ HandleGameStart(p) \/ HandleGameStopped(p)
  \/ HandleMessage(p) \/ HandleInvalidPlay(p)

(* Mutant: a failing recv is ignored, only an orderly end is noticed.      *)
ServerLostOrderly(p) ==
  /\ state[p] \in Running
  /\ down[p] = <<>> /\ up[p] = <<>>
  /\ Enters(p, "EXITED")
  /\ HangUp(p) /\ UNCHANGED inputs

(* The server is gone: recv returns 0 once everything was read, or fails   *)
(* at once if the server left something unread.                            *)
ServerLost(p) ==
  /\ state[p] \in Running
  /\ down[p] = <<>> \/ up[p] # <<>>
  /\ Enters(p, "EXITED")
  /\ HangUp(p) /\ UNCHANGED inputs
=============================================================================
