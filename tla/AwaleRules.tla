----------------------------- MODULE AwaleRules -----------------------------
(***************************************************************************)
(* What one call of game_play promises, as a single step and without any   *)
(* loop: where the seeds of a house land, which houses are captured, and   *)
(* who has won.  Scores and houses are plain naturals here; Game.tla holds  *)
(* the loops and the machine widths of game.c and is shown to implement    *)
(* this module.                                                            *)
(***************************************************************************)
EXTENDS Integers, FiniteSets

CONSTANTS BOARD_SIZE,    \* number of houses, 12 in game.h
          INITIAL_SEED   \* seeds in every house at the start, 4 in game.h

VARIABLES board,      \* seeds in each house
          captured,   \* score of each side
          turn        \* the side the server believes is to move

rulesVars == <<board, captured, turn>>

Side   == {0, 1}
Half   == BOARD_SIZE \div 2
Houses == 0 .. BOARD_SIZE - 1
Row(s) == s * Half .. s * Half + Half - 1

(* How far after house pos the house h is, counting from 0.                *)
Distance(pos, h) == (h - pos - 1) % BOARD_SIZE

(* The board after the n seeds of house pos went one by one to the houses  *)
(* that follow it, round after round, the house they came from excepted.   *)
Sown(b, pos) ==
  LET others == BOARD_SIZE - 1
      n      == b[pos]
  IN  [h \in Houses |->
         IF h = pos THEN 0
         ELSE b[h] + (n \div others)
                   + (IF Distance(pos, h) < (n % others) THEN 1 ELSE 0)]

(* The house that gets the last seed.                                      *)
LastHouse(b, pos) ==
  (pos + 1 + ((b[pos] - 1) % (BOARD_SIZE - 1))) % BOARD_SIZE

(* A capture is allowed only when some house of the other row could not be *)
(* part of it.  For side 1 the code also looks at house Half, which is the *)
(* first house of side 1 itself.                                           *)
Inspected(s) == Row(1 - s) \cup (IF s = 1 THEN {Half} ELSE {})

Capturable(n) == n \in {2, 3}

(* The houses captured by side s when its last seed fell in house last.    *)
Taken(b, s, last) ==
  IF last \in Row(1 - s) /\ \E h \in Inspected(s) : b[h] \notin {0, 2, 3}
  THEN {h \in Row(1 - s) : h <= last /\ \A k \in h .. last : Capturable(b[k])}
  ELSE {}

(* Every captured house holds two or three seeds.                          *)
Loot(b, houses) == 2 * Cardinality({h \in houses : b[h] = 2})
                   + 3 * Cardinality({h \in houses : b[h] = 3})

(* game_is_ended.                                                          *)
Verdict == IF captured[0] > BOARD_SIZE * 2 THEN "P1WON"
           ELSE IF captured[1] > BOARD_SIZE * 2 THEN "P2WON"
           ELSE IF captured = [s \in Side |-> BOARD_SIZE * 2] THEN "DRAW"
           ELSE "NOT_ENDED"

StartBoard == [h \in Houses |-> INITIAL_SEED]
NoScore    == [s \in Side |-> 0]

RulesInit == board = StartBoard /\ captured = NoScore /\ turn = 0

(* Side s empties house pos.  Neither game.c nor its caller compares s     *)
(* with turn.                                                              *)
RulesPlay(s, pos) ==
  LET sown  == Sown(board, pos)
      taken == Taken(sown, s, LastHouse(board, pos))
  IN  /\ Verdict = "NOT_ENDED"
      /\ board[pos] > 0
      /\ board' = [h \in Houses |-> IF h \in taken THEN 0 ELSE sown[h]]
      /\ captured' = [captured EXCEPT ![s] = @ + Loot(sown, taken)]
      /\ turn' = 1 - turn

(* The room of a decided game is deleted; its slot serves a new game.      *)
RulesNewGame ==
  /\ Verdict # "NOT_ENDED"
  /\ board' = StartBoard /\ captured' = NoScore /\ turn' = 0

RulesNext == (\E s \in Side : \E pos \in Row(s) : RulesPlay(s, pos)) \/ RulesNewGame

RulesSpec == RulesInit /\ [][RulesNext]_rulesVars
=============================================================================
