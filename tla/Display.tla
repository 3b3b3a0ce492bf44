------------------------------- MODULE Display -------------------------------
(***************************************************************************)
(* The board as a player sees it: handle_play writes the board into a      *)
(* PLAYED message, turned for the player; the client reads it back and     *)
(* action_show_board of client/src/actions.c prints it.  Numbers are       *)
(* kept, the frame drawn around them is left out.                          *)
(***************************************************************************)
EXTENDS Game, SequencesExt

Format == INSTANCE Codec WITH BUF_SIZE <- BOARD_SIZE + 4

(* What the client finds in its buffer after both reads.                   *)
Body(frame) ==
  [k \in 0 .. BOARD_SIZE + 3 |-> IF k + 3 <= Len(frame) THEN frame[k + 3] ELSE 0]

(* Mutant: the row of the opponent is printed from left to right as well.  *)
PrintedStraight(m) ==
  [top_score    |-> m.o_score,
   top          |-> [k \in 1 .. Half |-> m.board[k + Half]],
   bottom       |-> [k \in 1 .. Half |-> m.board[k]],
   bottom_score |-> m.s_score]

(* action_show_board: the lines with numbers, each from left to right.     *)
Printed(m) ==
  [top_score    |-> m.o_score,
   top          |-> [k \in 1 .. Half |-> m.board[(Half - k) + Half + 1]],
   bottom       |-> [k \in 1 .. Half |-> m.board[k]],
   bottom_score |-> m.s_score]

(* What the player of a side, or a spectator for side 0, sees of a move.   *)
Screen(s) == Printed(Format!ReadReply(Body(Format!WritePlayed(s, captured, board))))

(* Both players look at one board: each finds the own score and the own    *)
(* row below; the k-th house of that row from the left is the one emptied  *)
(* by typing k, which game_play takes for a position; and counterclockwise *)
(* on the screen is the way game_play sows, all around the board.          *)
BoardSeenFromOwnSide ==
  pc = "idle" => \A s \in Side :
    LET around == Screen(s).bottom \o Reverse(Screen(s).top)
    IN  /\ Screen(s).bottom_score = captured[s] /\ Screen(s).top_score = captured[1 - s]
        /\ \A k \in 1 .. Half : Screen(s).bottom[k] = board[Position(s, k - 1)]
        /\ \A k \in 1 .. BOARD_SIZE : around[k] = board[(Position(s, 0) + k - 1) % BOARD_SIZE]
=============================================================================
