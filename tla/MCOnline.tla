------------------------------ MODULE MCOnline ------------------------------
(***************************************************************************)
(* Instances of Online.tla for TLC: who does what in each run, and how     *)
(* many lines everybody types at most.                                     *)
(***************************************************************************)
EXTENDS Online, TLC

CONSTANTS p1, p2, p3

Swaps == Permutations(Proc)

(* Anything: two users who do everything.                                  *)
AnyCommand == {"create", "join", "spectate", "bio", "play", "leave", "message", "close"}
AnythingCommands == [p \in Proc |-> AnyCommand]
AnythingInputs   == [p \in Proc |-> 5]

(* Play: the creator of a room leaves the program in the middle of a game  *)
(* and comes back as another process; games neither end nor are left.      *)
PlayCommands == p1 :> {"create", "play", "close"} @@ p2 :> {"join", "play"} @@ p3 :> {"play"}
PlayInputs   == p1 :> 5 @@ p2 :> 6 @@ p3 :> 3

(* Rooms: two rooms, talk in both, a spectator, and one user who leaves.   *)
RoomsCommands == p1 :> {"create", "leave", "message"} @@ p2 :> {"create", "join", "message"}
                 @@ p3 :> {"spectate", "message", "close"}
RoomsInputs   == p1 :> 4 @@ p2 :> 4 @@ p3 :> 5

(* Answers: a game with reconnection, and an operator who stops the server.*)
AnswersCommands == p1 :> {"create", "play", "message", "close"} @@ p2 :> {"join", "play", "message"}
AnswersInputs   == p1 :> 4 @@ p2 :> 5

(* Names people share, and a name for each.                                *)
SharedNames == [p \in Proc |-> {"ana", "bob"}]
OwnNames    == p1 :> {"ana"} @@ p2 :> {"bob"} @@ p3 :> {"cid"}
=============================================================================
