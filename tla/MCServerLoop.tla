----------------------------- MODULE MCServerLoop -----------------------------
(***************************************************************************)
(* An instance of ServerLoop.tla for TLC.                                  *)
(***************************************************************************)
EXTENDS ServerLoop

CONSTANTS a, b, c, d

(* One client that sends messages of every kind, in one piece or several.  *)
Every == {[type |-> "CONNECT", text |-> <<97>>], [type |-> "CREATE_ROOM"],
          [type |-> "JOIN_ROOM", room_id |-> 258, spectate |-> 1],
          [type |-> "PLAY", pos |-> 5], [type |-> "LEAVE_ROOM"],
          [type |-> "SEND_MESSAGE", text |-> <<104, 105>>],
          [type |-> "SET_BIOGRAPHY", text |-> <<>>]}
Leave == [type |-> "LEAVE_ROOM"]
Alone == [conn |-> {a}, slow |-> {a},
          says   |-> [p \in Conn |-> Every],
          window |-> [p \in Conn |-> 8]]

(* Two clients, and the bytes of one come in pieces.                       *)
Pair  == [conn |-> {a, b}, slow |-> {b},
          says   |-> [p \in Conn |-> IF p = a THEN {Leave, [type |-> "PLAY", pos |-> 5]}
                                    ELSE {Leave}],
          window |-> [p \in Conn |-> IF p = a THEN 7 ELSE 4]]

(* Three clients that come and go.                                         *)
Crowd == [conn |-> {a, b, c}, slow |-> {},
          says   |-> [p \in Conn |-> {Leave}],
          window |-> [p \in Conn |-> 3]]

(* More connections than the array has room for.                           *)
Flood == [conn |-> {a, b, c, d}, slow |-> {},
          says   |-> [p \in Conn |-> {}],
          window |-> [p \in Conn |-> 0]]

SomeAndMany == {Alone, Pair, Crowd, Flood}
=============================================================================
