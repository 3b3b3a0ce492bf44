--------------------------- MODULE GameRefinement ---------------------------
(***************************************************************************)
(* The loops of Game.tla implement the one-step rules of AwaleRules.tla.   *)
(* While game_play runs, an observer still sees the game as it was before  *)
(* the call: the history variable `before` remembers it.                   *)
(***************************************************************************)
EXTENDS Display

VARIABLE before   \* board and scores at the last moment no play was running

InitBefore == Init /\ before = [board |-> board, captured |-> captured]

NextBefore ==
  /\ Next
  /\ before' = IF pc' = "idle" THEN [board |-> board', captured |-> captured']
               ELSE before

SpecBefore == InitBefore /\ [][NextBefore]_<<vars, before>> /\ WF_vars(Loop)

Rules == INSTANCE AwaleRules WITH board <- before.board, captured <- before.captured

(* A whole call of game_play puts every seed where the rules say, in the   *)
(* right houses and in no more than one round trip too many, captures      *)
(* exactly the run of houses they allow, and flips the turn once.          *)
ImplementsRules == Rules!RulesSpec
=============================================================================
