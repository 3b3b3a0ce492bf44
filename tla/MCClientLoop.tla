----------------------------- MODULE MCClientLoop -----------------------------
(***************************************************************************)
(* An instance of ClientLoop.tla for TLC.                                  *)
(***************************************************************************)
EXTENDS ClientLoop, TLC

Close == Append(CLOSE, NL)
Short == <<49, NL>>
(* The longest line that is read at once, and two that are not: one whose  *)
(* newline is left over and one with a character more.                     *)
X(n)  == [k \in 1 .. n |-> 120] \o <<NL>>
Long  == {X(BUF_SIZE - 3), X(BUF_SIZE - 2), X(BUF_SIZE - 1)}

ana == <<97>>
bob == <<98>>

(* Every kind of message, with the limits of their fields.                 *)
Board == 0 :> 3 @@ 1 :> 0 @@ 2 :> 255 @@ 3 :> 4
Score == 0 :> 5 @@ 1 :> 127
Every == {[type |-> t, text |-> <<33>>] :
            t \in {"CONNECTION_REFUSED", "JOIN_ROOM_REFUSED", "INVALID_PLAY"}}
    \cup {[type |-> "PLAYED", side |-> s, captured |-> Score, board |-> Board] : s \in {0, 1}}
    \cup {[type |-> "CONNECTION_SUCCESSFUL"], [type |-> "ROOM_CREATION_SUCCESSFUL", room_id |-> 66051],
          [type |-> "JOIN_ROOM_SUCCESSFUL",
           users |-> <<[name |-> ana, bio |-> <<33>>], [name |-> bob, bio |-> <<>>]>>,
           spectators |-> <<ana>>],
          [type |-> "GAME_START", pos |-> 1], [type |-> "MESSAGE", username |-> bob, text |-> ana],
          [type |-> "GAME_STOPPED", draw |-> 0, winner |-> bob],
          [type |-> "GAME_STOPPED", draw |-> 1, winner |-> bob]}
Started == [type |-> "GAME_START", pos |-> 1]

(* All kinds of messages; a slow network; a user who types all kinds of    *)
(* lines.                                                                  *)
Listening == [lines |-> {Close}, ends |-> FALSE, says |-> Every, slow |-> FALSE]
Slow      == [lines |-> {Close}, ends |-> FALSE, slow |-> TRUE,
              says  |-> {[type |-> "CONNECTION_SUCCESSFUL"], Started,
                         [type |-> "MESSAGE", username |-> bob, text |-> ana]}]
Typing    == [lines |-> {Close, Short} \cup Long, ends |-> TRUE, says |-> {Started}, slow |-> FALSE]

OnlyTyping == {Typing}
OneOfThree == {Listening, Slow, Typing}
=============================================================================
