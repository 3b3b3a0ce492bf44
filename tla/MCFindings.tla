----------------------------- MODULE MCFindings -----------------------------
(***************************************************************************)
(* Small instances of Online.tla in which the program departs from what    *)
(* its documentation or its comments say.                                  *)
(***************************************************************************)
EXTENDS Online, TLC

CONSTANTS p1, p2, p3, p4

OwnNames == p1 :> {"ana"} @@ p2 :> {"bob"} @@ p3 :> {"cid"} @@ p4 :> {"dan"}

(* Both players of a room leave it at the same time; p3 has another room.  *)
LeavesCommands == p1 :> {"create", "leave"} @@ p2 :> {"join", "leave"} @@ p3 :> {"create"}
LeavesInputs   == p1 :> 3 @@ p2 :> 4 @@ p3 :> 2

(* One of two spectators leaves during a game.                             *)
TurnsCommands == p1 :> {"create", "play"} @@ p2 :> {"join", "play"}
                 @@ p3 :> {"spectate", "leave"} @@ p4 :> {"spectate"}
TurnsInputs   == p1 :> 3 @@ p2 :> 5 @@ p3 :> 4 @@ p4 :> 3

(* The opponent leaves while a move is on its way.                         *)
LateMoveCommands == p1 :> {"create", "play"} @@ p2 :> {"join", "leave"}
LateMoveInputs   == p1 :> 3 @@ p2 :> 4

(* The only player of a room with a spectator leaves.                      *)
LonelyCommands == p1 :> {"create", "leave"} @@ p2 :> {"spectate"}
LonelyInputs   == p1 :> 3 @@ p2 :> 3
=============================================================================
