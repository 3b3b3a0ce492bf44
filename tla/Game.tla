-------------------------------- MODULE Game --------------------------------
(***************************************************************************)
(* server/src/game.c, loop by loop: game_play picks up the seeds of a      *)
(* house, sows them one per iteration, then captures backwards one house   *)
(* per iteration; game_is_ended gives the verdict on which handle_play     *)
(* deletes the room.  The widths of the C types are kept: a house is a     *)
(* uint8_t, a score an int8_t.                                             *)
(***************************************************************************)
EXTENDS Integers, FiniteSets

CONSTANTS BOARD_SIZE, INITIAL_SEED

(* The board has two equal rows and all its seeds fit the int8_t score     *)
(* (12 houses of 4 seeds in the program).                                  *)
ASSUME BoardAssumption ==
  /\ BOARD_SIZE \in Nat \ {0} /\ BOARD_SIZE % 2 = 0
  /\ INITIAL_SEED \in Nat \ {0}
  /\ BOARD_SIZE * INITIAL_SEED <= 127

(* BOARD_SIZE * 2 seeds are half of all the seeds or more.                 *)
ASSUME MajorityAssumption == INITIAL_SEED <= 4

VARIABLES board, captured, turn,  \* the fields of Game
          result,                 \* PlayResult of the last game_play
          pc,                     \* "idle", or the loop being executed
          side, pos, i, seeds_to_sow   \* parameters and locals of game_play

locals == <<side, pos, i, seeds_to_sow>>
vars   == <<board, captured, turn, result, pc, locals>>

Side   == {0, 1}
Half   == BOARD_SIZE \div 2
Houses == 0 .. BOARD_SIZE - 1
Row(s) == s * Half .. s * Half + Half - 1
Total  == BOARD_SIZE * INITIAL_SEED

UInt8(n) == n % 256
Int8(n)  == ((n + 128) % 256) - 128

(* game_init, and the scores game_add_player zeroes for both players.      *)
StartBoard == [h \in Houses |-> INITIAL_SEED]
NoScore    == [s \in Side |-> 0]

(* game_board_can_capture reads one byte past the row of its side.  For    *)
(* row 0 that is house Half; for row 1 it is past the board, where the     *)
(* build (gcc, with and without the -O3 of the Makefile) finds the low     *)
(* byte of nb_players: 2 whenever a game is being played.                  *)
NB_PLAYERS == 2
ByteAt(b, k) == IF k \in Houses THEN b[k] ELSE NB_PLAYERS

(* Mutant: the three of a house that can be captured is forgotten.         *)
CanCaptureThreeSafe(b, opposite_side, last_pos) ==
  LET offset == Half * opposite_side
  IN  /\ opposite_side = 1 => last_pos >= Half
      /\ opposite_side = 0 => last_pos < Half
      /\ \E k \in offset .. Half + offset : ByteAt(b, k) \notin {0, 2}

(* game_board_can_capture.                                                 *)
CanCapture(b, opposite_side, last_pos) ==
  LET offset == Half * opposite_side
  IN  /\ opposite_side = 1 => last_pos >= Half
      /\ opposite_side = 0 => last_pos < Half
      /\ \E k \in offset .. Half + offset : ByteAt(b, k) \notin {0, 2, 3}

(* Mutant: half of the seeds is enough to win.                             *)
VerdictAtHalf == IF captured[0] >= BOARD_SIZE * 2 THEN "P1WON"
                 ELSE IF captured[1] >= BOARD_SIZE * 2 THEN "P2WON"
                 ELSE "NOT_ENDED"

(* game_is_ended.                                                          *)
Verdict == IF captured[0] > BOARD_SIZE * 2 THEN "P1WON"
           ELSE IF captured[1] > BOARD_SIZE * 2 THEN "P2WON"
           ELSE IF captured[0] = BOARD_SIZE * 2 /\ captured[1] = BOARD_SIZE * 2 THEN "DRAW"
           ELSE "NOT_ENDED"

Init ==
  /\ board = StartBoard /\ captured = NoScore /\ turn = 0
  /\ result = "NONE" /\ pc = "idle"
  /\ side = 0 /\ pos = 0 /\ i = 0 /\ seeds_to_sow = 0

(* A call of game_play by handle_play: the byte `play` of the PLAY message *)
(* becomes a position on the caller's side.  The room still exists, so its *)
(* game is not decided.  turn is not consulted.                            *)
Position(s, play) == s * Half + play

Called(s, play) == pc = "idle" /\ Verdict = "NOT_ENDED"

(* The two early returns.                                                  *)
OutOfBounds(s, play) ==
  /\ Called(s, play)
  /\ Position(s, play) \notin Row(s)
  /\ result' = "OUT_OF_BOUNDS"
  /\ UNCHANGED <<board, captured, turn, pc, locals>>

EmptyHouse(s, play) ==
  /\ Called(s, play)
  /\ Position(s, play) \in Row(s) /\ board[Position(s, play)] <= 0
  /\ result' = "EMPTY_HOUSE"
  /\ UNCHANGED <<board, captured, turn, pc, locals>>

PickUp(s, play) ==
  /\ Called(s, play)
  /\ Position(s, play) \in Row(s) /\ board[Position(s, play)] > 0
  /\ side' = s /\ pos' = Position(s, play)
  /\ seeds_to_sow' = board[pos'] /\ board' = [board EXCEPT ![pos'] = 0]
  /\ i' = pos' + 1
  /\ pc' = "sow"
  /\ UNCHANGED <<captured, turn, result>>

(* Mutant: the house the seeds came from is sown like the others.          *)
SowSeedAnywhere ==
  /\ pc = "sow" /\ seeds_to_sow > 0
  /\ board' = [board EXCEPT ![i % BOARD_SIZE] = UInt8(@ + 1)]
  /\ seeds_to_sow' = seeds_to_sow - 1
  /\ i' = i + 1
  /\ UNCHANGED <<captured, turn, result, pc, side, pos>>

(* An iteration of the sowing loop: the house the seeds came from is       *)
(* passed over.                                                            *)
SowSeed ==
  /\ pc = "sow" /\ seeds_to_sow > 0
  /\ i % BOARD_SIZE # pos
  /\ board' = [board EXCEPT ![i % BOARD_SIZE] = UInt8(@ + 1)]
  /\ seeds_to_sow' = seeds_to_sow - 1
  /\ i' = i + 1
  /\ UNCHANGED <<captured, turn, result, pc, side, pos>>

(* Mutant: the loop counter only moves when a seed is sown.                *)
SkipOriginStuck ==
  /\ pc = "sow" /\ seeds_to_sow > 0
  /\ i % BOARD_SIZE = pos
  /\ UNCHANGED vars

SkipOrigin ==
  /\ pc = "sow" /\ seeds_to_sow > 0
  /\ i % BOARD_SIZE = pos
  /\ i' = i + 1
  /\ UNCHANGED <<board, captured, turn, result, pc, side, pos, seeds_to_sow>>

(* The end of game_play; its locals go out of scope.                       *)
Return ==
  /\ turn' = 1 - turn
  /\ result' = "VALID_PLAY" /\ pc' = "idle"
  /\ side' = 0 /\ pos' = 0 /\ i' = 0 /\ seeds_to_sow' = 0

(* Mutant: the last house is not brought back into the board.              *)
LastPosUnreduced == i - 1

LastPos == (i - 1) % BOARD_SIZE

StartCapture ==
  /\ pc = "sow" /\ seeds_to_sow = 0
  /\ CanCapture(board, 1 - side, LastPos)
  /\ pos' = LastPos /\ i' = LastPos
  /\ pc' = "capture"
  /\ UNCHANGED <<board, captured, turn, result, side, seeds_to_sow>>

EndWithoutCapture ==
  /\ pc = "sow" /\ seeds_to_sow = 0
  /\ ~CanCapture(board, 1 - side, LastPos)
  /\ Return
  /\ UNCHANGED <<board, captured>>

(* Mutant: the capturing loop runs on into the row of the player.          *)
CapturingOnward == i >= 0 /\ board[i] \in {2, 3}

(* The condition of the capturing loop.                                    *)
Capturing == i >= Half * (1 - side) /\ board[i] \in {2, 3}

(* Mutants: the captured house is not emptied; the seeds are credited to   *)
(* the other player.                                                       *)
CaptureHouseKept ==
  /\ pc = "capture" /\ Capturing
  /\ captured' = [captured EXCEPT ![side] = Int8(@ + board[i])]
  /\ i' = i - 1
  /\ UNCHANGED <<board, turn, result, pc, side, pos, seeds_to_sow>>

CaptureHouseForOther ==
  /\ pc = "capture" /\ Capturing
  /\ captured' = [captured EXCEPT ![1 - side] = Int8(@ + board[i])]
  /\ board' = [board EXCEPT ![i] = 0]
  /\ i' = i - 1
  /\ UNCHANGED <<turn, result, pc, side, pos, seeds_to_sow>>

CaptureHouse ==
  /\ pc = "capture" /\ Capturing
  /\ captured' = [captured EXCEPT ![side] = Int8(@ + board[i])]
  /\ board' = [board EXCEPT ![i] = 0]
  /\ i' = i - 1
  /\ UNCHANGED <<turn, result, pc, side, pos, seeds_to_sow>>

EndCapture ==
  /\ pc = "capture" /\ ~Capturing
  /\ Return
  /\ UNCHANGED <<board, captured>>

(* handle_play deletes the room of a decided game; a later room starts     *)
(* over in the same memory.                                                *)
NewGame ==
  /\ pc = "idle" /\ Verdict # "NOT_ENDED"
  /\ board' = StartBoard /\ captured' = NoScore /\ turn' = 0
  /\ result' = "NONE"
  /\ UNCHANGED <<pc, locals>>

(* The byte of a PLAY message: every house, the first value past the row,  *)
(* and 255, which a client makes of the input 0.                           *)
PlayBytes == 0 .. Half \cup {255}

Loop == \/ SowSeed \/ SkipOrigin
        \/ StartCapture \/ EndWithoutCapture
        \/ CaptureHouse \/ EndCapture

Next ==
  \/ \E s \in Side, play \in PlayBytes :
        OutOfBounds(s, play) \/ EmptyHouse(s, play) \/ PickUp(s, play)
  \/ Loop
  \/ NewGame

(* game_play runs to its end; when it is called is up to the players.      *)
Spec == Init /\ [][Next]_vars /\ WF_vars(Loop)
-----------------------------------------------------------------------------
(***************************************************************************)
(* Properties.                                                             *)
(***************************************************************************)

TypeOK ==
  /\ board \in [Houses -> 0 .. 255]
  /\ captured \in [Side -> -128 .. 127]
  /\ turn \in Side
  /\ result \in {"NONE", "VALID_PLAY", "OUT_OF_BOUNDS", "EMPTY_HOUSE"}
  /\ pc \in {"idle", "sow", "capture"}
  /\ side \in Side /\ pos \in Houses
  /\ i \in Int /\ seeds_to_sow \in 0 .. 255

(* The seeds on a board, each named by its house and its place in it.      *)
SeedSet(b) == UNION {{h} \X (1 .. b[h]) : h \in Houses}
Seeds(b)   == Cardinality(SeedSet(b))

(* No seed is lost, made or counted twice by the sowing and capturing      *)
(* loops of game_play, at any iteration; in particular no uint8_t house    *)
(* and no int8_t score ever wraps around.                                  *)
SeedsConserved ==
  Seeds(board) + seeds_to_sow + captured[0] + captured[1] = Total

(* The verdict on which handle_play deletes the room is final: a winner    *)
(* could not be caught up by all the seeds left, and a draw leaves none.   *)
(* In particular the order of the tests in game_is_ended does not matter.  *)
VerdictSound ==
  /\ Verdict = "P1WON" => captured[1] + Seeds(board) + seeds_to_sow < captured[0]
  /\ Verdict = "P2WON" => captured[0] + Seeds(board) + seeds_to_sow < captured[1]
  /\ Verdict = "DRAW"  => Seeds(board) + seeds_to_sow = 0

(* The capturing loop, which walks backwards from the last house sown,     *)
(* only ever takes seeds from the opponent's row.                          *)
CaptureOnlyOpponent ==
  [][pc = "capture" => \A h \in Row(side) : board'[h] = board[h]]_vars

(* game_board_can_capture is there so that a capture does not take the     *)
(* whole row of the opponent.  For the first player it succeeds; when the  *)
(* second player empties the row, it is because the house one past it,     *)
(* which is the second player's own, made the row look safe.               *)
RowNotEmptied ==
  [][(pc = "capture" /\ board' # board /\ \A h \in Row(1 - side) : board'[h] = 0)
       => side = 1 /\ board[Half] \notin {0, 2, 3}]_vars

(* A play can make only its own side win, so the winner handle_play        *)
(* announces is the player who sent the move.                              *)
OnlyMoverWins ==
  [][(pc # "idle" /\ Verdict = "NOT_ENDED")
       => Verdict' \in {"NOT_ENDED", "DRAW", IF side = 0 THEN "P1WON" ELSE "P2WON"}]_vars

(* There is always a seed on the board or in a hand: game_play never lets  *)
(* a capture clear the board, though its test looks at one house too many. *)
(* So between plays one of the two can move (the one whose turn it is may  *)
(* not), and no game ends in the draw game_is_ended knows of.              *)
SeedsLeft ==
  /\ (\E h \in Houses : board[h] > 0) \/ seeds_to_sow > 0
  /\ Verdict # "DRAW"

(* Both loops of game_play terminate, whatever the board.                  *)
PlayReturns == (pc # "idle") ~> (pc = "idle")
=============================================================================
