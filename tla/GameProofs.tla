----------------------------- MODULE GameProofs -----------------------------
(***************************************************************************)
(* Proofs about game.c for a board of any even size whose seeds fit the    *)
(* int8_t score; then, for a board of any even size, that its loops        *)
(* implement the rules, each call as one step, and that both players are   *)
(* shown the board these loops leave.                                      *)
(***************************************************************************)
EXTENDS GameRefinement, BasicLemmas, FiniteSetTheorems, SequenceTheorems

Board == [Houses -> 0 .. 255]

(***************************************************************************)
(* Facts about counting the seeds of a board.                              *)
(***************************************************************************)

(* An interval that starts at 1 has as many members as its last one says.  *)
LEMMA FirstNumbers ==
  ASSUME NEW n \in Nat
  PROVE  IsFiniteSet(1 .. n) /\ Cardinality(1 .. n) = n
<1>1. \A a, b \in Int : /\ IsFiniteSet(a .. b)
                       /\ Cardinality(a .. b) = IF a > b THEN 0 ELSE b - a + 1
  BY FS_Interval, Zenon
<1>2. 1 \in Int /\ n \in Int
  OBVIOUS
<1>3. IsFiniteSet(1 .. n) /\ Cardinality(1 .. n) = IF 1 > n THEN 0 ELSE n - 1 + 1
  BY <1>1, <1>2, Zenon
<1>4. QED
  BY <1>3

(* A seed is a house and a place among the seeds of that house.            *)
LEMMA SeedSetMember ==
  ASSUME NEW b \in Board, NEW x
  PROVE  x \in SeedSet(b) <=> \E h \in Houses : \E k \in 1 .. b[h] : x = <<h, k>>
BY DEF SeedSet

(* A board has finitely many seeds.                                        *)
LEMMA SeedSetFinite ==
  ASSUME NEW b \in Board
  PROVE  IsFiniteSet(SeedSet(b)) /\ Seeds(b) \in Nat
<1>1. BOARD_SIZE - 1 \in Int
  BY BoardAssumption
<1>2. IsFiniteSet(Houses) /\ IsFiniteSet(1 .. 255)
  <2>1. IsFiniteSet(0 .. BOARD_SIZE - 1)
    BY <1>1, FS_Interval
  <2>2. IsFiniteSet(1 .. 255)
    <3>1. PICK n \in Nat : n = 255
      OBVIOUS
    <3>2. IsFiniteSet(1 .. n)
      BY FirstNumbers, Zenon
    <3>3. QED
      BY <3>1, <3>2
  <2>3. QED
    BY <2>1, <2>2 DEF Houses
<1>3. IsFiniteSet(Houses \X (1 .. 255))
  BY <1>2, FS_Product
<1>4. SeedSet(b) \subseteq Houses \X (1 .. 255)
  <2>1. ASSUME NEW h \in Houses PROVE b[h] \in 0 .. 255
    BY DEF Board
  <2>2. ASSUME NEW h \in Houses, NEW k \in 1 .. b[h] PROVE k \in 1 .. 255
    BY <2>1
  <2>3. QED
    BY <2>2, SeedSetMember
<1>5. IsFiniteSet(SeedSet(b))
  BY <1>3, <1>4, FS_Subset
<1>6. QED
  BY <1>5, FS_CardinalityType DEF Seeds

(* Sowing one seed into a house that is not full adds one seed.            *)
LEMMA SowingAddsOne ==
  ASSUME NEW b \in Board, NEW h \in Houses, b[h] < 255
  PROVE  Seeds([b EXCEPT ![h] = b[h] + 1]) = Seeds(b) + 1
<1> DEFINE c == [b EXCEPT ![h] = b[h] + 1]
           s == <<h, b[h] + 1>>
<1>1. b[h] \in 0 .. 255
  BY DEF Board
<1>2. c \in Board
  BY <1>1 DEF Board
<1>3. SeedSet(c) = SeedSet(b) \cup {s}
  <2>1. ASSUME NEW g \in Houses, g # h PROVE c[g] = b[g]
    BY <2>1 DEF Board
  <2>2. c[h] = b[h] + 1
    BY DEF Board
  <2>3. 1 .. c[h] = 1 .. b[h] \cup {b[h] + 1}
    BY <1>1, <2>2
  <2> HIDE DEF c
  <2>4. ASSUME NEW x \in SeedSet(c) PROVE x \in SeedSet(b) \cup {s}
    <3>0. PICK g \in Houses : \E k \in 1 .. c[g] : x = <<g, k>>
      BY <1>2, SeedSetMember
    <3>1. PICK k \in 1 .. c[g] : x = <<g, k>>
      BY <3>0
    <3>2. CASE g # h
      BY <2>1, <3>1, <3>2, SeedSetMember
    <3>3. CASE g = h
      BY <2>3, <3>1, <3>3, SeedSetMember
    <3>4. QED
      BY <3>2, <3>3
  <2>5. ASSUME NEW x \in SeedSet(b) PROVE x \in SeedSet(c)
    <3>0. PICK g \in Houses : \E k \in 1 .. b[g] : x = <<g, k>>
      BY SeedSetMember
    <3>1. PICK k \in 1 .. b[g] : x = <<g, k>>
      BY <3>0
    <3>2. k \in 1 .. c[g]
      BY <2>1, <2>3, <3>1
    <3>3. QED
      BY <1>2, <3>1, <3>2, SeedSetMember
  <2>6. s \in SeedSet(c)
    <3>1. b[h] + 1 \in 1 .. c[h]
      BY <1>1, <2>3
    <3>2. QED
      BY <1>2, <3>1, SeedSetMember
  <2>7. QED
    BY <2>4, <2>5, <2>6
<1>4. s \notin SeedSet(b)
  <2>1. b[h] + 1 \notin 1 .. b[h]
    BY <1>1
  <2>2. QED
    BY <2>1, SeedSetMember
<1>5. QED
  BY <1>3, <1>4, SeedSetFinite, FS_AddElement DEF Seeds

(* Emptying a house takes away exactly the seeds that were in it.          *)
LEMMA EmptyingTakesAll ==
  ASSUME NEW b \in Board, NEW h \in Houses
  PROVE  /\ [b EXCEPT ![h] = 0] \in Board
         /\ Seeds([b EXCEPT ![h] = 0]) = Seeds(b) - b[h]
<1> DEFINE c    == [b EXCEPT ![h] = 0]
           pile == {h} \X (1 .. b[h])
<1>1. b[h] \in 0 .. 255
  BY DEF Board
<1>2. c \in Board
  BY DEF Board
<1>0. b[h] \in Nat
  BY <1>1
<1>3. IsFiniteSet(pile) /\ Cardinality(pile) = b[h]
  <2>1. IsFiniteSet({h}) /\ Cardinality({h}) = 1
    BY FS_Singleton
  <2>2. IsFiniteSet(1 .. b[h]) /\ Cardinality(1 .. b[h]) = b[h]
    BY <1>0, FirstNumbers, Zenon
  <2>3. /\ IsFiniteSet(pile)
        /\ Cardinality(pile) = Cardinality({h}) * Cardinality(1 .. b[h])
    BY <2>1, <2>2, FS_Product, Zenon
  <2>4. Cardinality(pile) = 1 * b[h]
    BY <2>1, <2>2, <2>3, Zenon
  <2>5. QED
    BY <1>0, <2>3, <2>4
<1>4. SeedSet(b) = SeedSet(c) \cup pile
  <2>1. ASSUME NEW g \in Houses, g # h PROVE c[g] = b[g]
    BY <2>1 DEF Board
  <2>2. c[h] = 0 /\ 1 .. c[h] = {}
    BY DEF Board
  <2> HIDE DEF c
  <2>3. ASSUME NEW x \in SeedSet(b) PROVE x \in SeedSet(c) \cup pile
    <3>1. PICK g \in Houses : \E k \in 1 .. b[g] : x = <<g, k>>
      BY SeedSetMember
    <3>2. CASE g = h
      BY <3>1, <3>2
    <3>3. CASE g # h
      BY <1>2, <2>1, <3>1, <3>3, SeedSetMember
    <3>4. QED
      BY <3>2, <3>3
  <2>4. ASSUME NEW x \in SeedSet(c) PROVE x \in SeedSet(b)
    <3>1. PICK g \in Houses : \E k \in 1 .. c[g] : x = <<g, k>>
      BY <1>2, SeedSetMember
    <3>2. g # h
      BY <2>2, <3>1
    <3>3. QED
      BY <2>1, <3>1, <3>2, SeedSetMember
  <2>5. pile \subseteq SeedSet(b)
    BY SeedSetMember
  <2>6. QED
    BY <2>3, <2>4, <2>5
<1>5. SeedSet(c) \cap pile = {}
  <2>1. 1 .. c[h] = {}
    BY DEF Board
  <2>2. QED
    BY <1>2, <2>1, SeedSetMember
<1>6. IsFiniteSet(SeedSet(c)) /\ Seeds(c) \in Nat
  BY <1>2, SeedSetFinite
<1>7. Seeds(b) = Seeds(c) + b[h] - Cardinality({})
  <2>1. PICK S : S = SeedSet(c)
    OBVIOUS
  <2>2. PICK T : T = pile
    OBVIOUS
  <2>3. IsFiniteSet(S) /\ IsFiniteSet(T)
    BY <1>3, <1>6, <2>1, <2>2, Zenon
  <2>4. Cardinality(S \cup T) = Cardinality(S) + Cardinality(T) - Cardinality(S \cap T)
    BY <2>3, FS_Union
  <2>5. S \cup T = SeedSet(b) /\ S \cap T = {} /\ Cardinality(T) = b[h]
    BY <1>3, <1>4, <1>5, <2>1, <2>2, Zenon
  <2>6. QED
    BY <2>1, <2>4, <2>5, Zenon DEF Seeds
<1>8. QED
  BY <1>1, <1>2, <1>6, <1>7, FS_EmptySet

(* A house never holds more seeds than the board.                          *)
LEMMA HouseBound ==
  ASSUME NEW b \in Board, NEW h \in Houses
  PROVE  b[h] \in Nat /\ b[h] <= Seeds(b)
<1>1. b[h] \in Nat
  BY DEF Board
<1>2. Seeds([b EXCEPT ![h] = 0]) \in Nat /\ Seeds(b) \in Nat
  BY EmptyingTakesAll, SeedSetFinite
<1>3. QED
  BY <1>1, <1>2, EmptyingTakesAll

(* The starting board holds all the seeds.                                 *)
LEMMA StartTotal == StartBoard \in Board /\ Seeds(StartBoard) = Total
<1>1. INITIAL_SEED \in 0 .. 255
  BY BoardAssumption
<1>2. StartBoard \in Board
  BY <1>1 DEF StartBoard, Board
<1>3. SeedSet(StartBoard) = Houses \X (1 .. INITIAL_SEED)
  <2>1. \A h \in Houses : StartBoard[h] = INITIAL_SEED
    BY DEF StartBoard
  <2>2. QED
    BY <1>2, <2>1, SeedSetMember
<1>4. IsFiniteSet(Houses) /\ Cardinality(Houses) = BOARD_SIZE
  <2>1. BOARD_SIZE - 1 \in Int /\ BOARD_SIZE \in Nat /\ BOARD_SIZE > 0
    BY BoardAssumption
  <2>2. QED
    BY <2>1, FS_Interval DEF Houses
<1>5. IsFiniteSet(1 .. INITIAL_SEED) /\ Cardinality(1 .. INITIAL_SEED) = INITIAL_SEED
  BY BoardAssumption, FirstNumbers
<1>6. QED
  BY <1>2, <1>3, <1>4, <1>5, FS_Product DEF Seeds, Total

(***************************************************************************)
(* Arithmetic of the board.                                                *)
(***************************************************************************)

(* The two rows have the same length and share no house.                   *)
LEMMA HalfBoard ==
  /\ Half \in Nat \ {0} /\ BOARD_SIZE \in Nat /\ BOARD_SIZE = Half + Half
  /\ Houses = 0 .. BOARD_SIZE - 1
  /\ Row(0) = 0 .. Half - 1 /\ Row(1) = Half .. BOARD_SIZE - 1
BY BoardAssumption DEF Half, Houses, Row

(* All the seeds fit a house and a score; half of them are no more than    *)
(* the BOARD_SIZE * 2 a winner must exceed.                                *)
LEMMA TotalBounds == Total \in Nat /\ Total <= 127 /\ Total <= 4 * BOARD_SIZE
<1>1. BOARD_SIZE \in Nat /\ INITIAL_SEED \in Nat /\ BOARD_SIZE * INITIAL_SEED <= 127
  BY BoardAssumption
<1>2. INITIAL_SEED \in {0, 1, 2, 3, 4}
  BY <1>1, MajorityAssumption
<1>3. BOARD_SIZE * INITIAL_SEED <= 4 * BOARD_SIZE
  BY <1>1, <1>2
<1>4. BOARD_SIZE * INITIAL_SEED \in Nat
  BY <1>1, <1>2
<1>5. QED
  BY <1>1, <1>3, <1>4 DEF Total

(* Walking on from a house, the sowing loop comes back round the board.    *)
LEMMA RoundTheBoard == ASSUME NEW n \in Nat PROVE n % BOARD_SIZE \in Houses
BY HalfBoard

(***************************************************************************)
(* The inductive invariant: every variable has its type, the counters of   *)
(* the loop being executed have the values the loop can give them, and no  *)
(* seed has been lost.  Conservation is what keeps the uint8_t and int8_t  *)
(* counters from wrapping, and the counters being exact is what keeps      *)
(* conservation, so neither can be proved without the other.               *)
(***************************************************************************)
ScoresInv == captured \in [Side -> 0 .. Total]

LoopInv ==
  /\ pc \in {"idle", "sow", "capture"}
  /\ side \in Side /\ pos \in Houses
  /\ i \in Int /\ seeds_to_sow \in Nat
  /\ pc = "sow" => i \in Nat \ {0}
  /\ pc # "sow" => seeds_to_sow = 0
  /\ pc = "capture" => i <= BOARD_SIZE - 1
  /\ pc = "capture" /\ side = 1 => i < Half

IInv ==
  /\ board \in Board
  /\ ScoresInv
  /\ turn \in Side
  /\ result \in {"NONE", "VALID_PLAY", "OUT_OF_BOUNDS", "EMPTY_HOUSE"}
  /\ LoopInv
  /\ SeedsConserved

(* Every part of the sum is natural, so none exceeds all the seeds.        *)
LEMMA PartsOfTotal ==
  ASSUME IInv
  PROVE  /\ Seeds(board) \in Nat /\ captured[0] \in Nat /\ captured[1] \in Nat
         /\ seeds_to_sow \in Nat
         /\ Seeds(board) + seeds_to_sow + captured[0] + captured[1] = Total
         /\ \A h \in Houses : board[h] \in Nat /\ board[h] <= Seeds(board)
<1>1. Seeds(board) \in Nat
  BY SeedSetFinite DEF IInv
<1>2. captured[0] \in Nat /\ captured[1] \in Nat
  BY TotalBounds DEF IInv, ScoresInv, Side
<1>3. \A h \in Houses : board[h] \in Nat /\ board[h] <= Seeds(board)
  BY HouseBound DEF IInv
<1>4. QED
  BY <1>1, <1>2, <1>3 DEF IInv, LoopInv, SeedsConserved

LEMMA InitIInv == Init => IInv
<1> SUFFICES ASSUME Init PROVE IInv
  OBVIOUS
<1>1. board \in Board /\ Seeds(board) = Total
  BY StartTotal DEF Init
<1>2. ScoresInv /\ captured[0] = 0 /\ captured[1] = 0
  BY TotalBounds DEF Init, ScoresInv, NoScore, Side
<1>3. LoopInv
  BY HalfBoard DEF Init, LoopInv, Side
<1>4. SeedsConserved
  BY <1>1, <1>2, TotalBounds DEF Init, SeedsConserved
<1>5. QED
  BY <1>1, <1>2, <1>3, <1>4 DEF Init, IInv, Side

(* The early returns touch nothing but the result.                         *)
LEMMA RejectedIInv ==
  ASSUME IInv, NEW s, NEW play, OutOfBounds(s, play) \/ EmptyHouse(s, play)
  PROVE  IInv'
<1>1. UNCHANGED <<board, captured, turn, pc, locals>>
  BY DEF OutOfBounds, EmptyHouse
<1>2. result' \in {"OUT_OF_BOUNDS", "EMPTY_HOUSE"}
  BY DEF OutOfBounds, EmptyHouse
<1>3. QED
  BY <1>1, <1>2 DEF IInv, ScoresInv, LoopInv, SeedsConserved, locals

(* The seeds of the house played go from the board into the hand.          *)
LEMMA PickUpIInv ==
  ASSUME IInv, NEW s \in Side, NEW play, PickUp(s, play)
  PROVE  IInv'
<1> DEFINE h == Position(s, play)
<1>1. h \in Houses
  BY HalfBoard DEF PickUp, Side
<1>2. /\ board' = [board EXCEPT ![h] = 0] /\ seeds_to_sow' = board[h]
      /\ pos' = h /\ i' = h + 1 /\ side' = s /\ pc' = "sow"
      /\ UNCHANGED <<captured, turn, result>>
  BY DEF PickUp
<1>3. board' \in Board /\ Seeds(board') = Seeds(board) - board[h]
  BY <1>1, <1>2, EmptyingTakesAll DEF IInv
<1>4. seeds_to_sow = 0
  BY DEF PickUp, Called, IInv, LoopInv
<1>5. SeedsConserved'
  BY <1>1, <1>2, <1>3, <1>4, PartsOfTotal DEF SeedsConserved
<1>6. LoopInv'
  <2>1. h \in Nat
    BY <1>1, HalfBoard
  <2>2. board[h] \in Nat
    BY <1>1, PartsOfTotal
  <2>3. QED
    BY <1>1, <1>2, <2>1, <2>2 DEF LoopInv
<1>7. QED
  BY <1>2, <1>3, <1>5, <1>6 DEF IInv, ScoresInv

(* A seed goes from the hand into a house, which cannot be full.           *)
LEMMA SowSeedIInv == ASSUME IInv, SowSeed PROVE IInv'
<1> DEFINE h == i % BOARD_SIZE
<1>1. i \in Nat /\ h \in Houses
  BY RoundTheBoard DEF SowSeed, IInv, LoopInv
<1>2. board[h] \in Nat /\ board[h] < 127
  BY <1>1, PartsOfTotal, TotalBounds DEF SowSeed
<1>3. UInt8(board[h] + 1) = board[h] + 1
  BY <1>2 DEF UInt8
<1>4. board' = [board EXCEPT ![h] = board[h] + 1]
  BY <1>3 DEF SowSeed
<1>5. board' \in Board
  <2>1. board[h] + 1 \in 0 .. 255
    BY <1>2
  <2>2. QED
    BY <1>4, <2>1 DEF IInv, Board
<1>6. Seeds(board') = Seeds(board) + 1
  <2>1. board \in Board /\ board[h] < 255
    BY <1>2 DEF IInv
  <2>2. Seeds([board EXCEPT ![h] = board[h] + 1]) = Seeds(board) + 1
    BY <1>1, <2>1, SowingAddsOne
  <2>3. QED
    BY <1>4, <2>2
<1>7. seeds_to_sow' = seeds_to_sow - 1 /\ i' = i + 1
      /\ UNCHANGED <<captured, turn, result, pc, side, pos>>
  BY DEF SowSeed
<1>8. SeedsConserved'
  BY <1>6, <1>7, PartsOfTotal DEF SeedsConserved
<1>9. LoopInv'
  BY <1>1, <1>7 DEF SowSeed, IInv, LoopInv
<1>10. QED
  BY <1>5, <1>7, <1>8, <1>9 DEF IInv, ScoresInv

LEMMA SkipOriginIInv == ASSUME IInv, SkipOrigin PROVE IInv'
<1>1. LoopInv'
  BY DEF SkipOrigin, IInv, LoopInv
<1>2. SeedsConserved'
  BY DEF SkipOrigin, IInv, SeedsConserved
<1>3. QED
  BY <1>1, <1>2 DEF SkipOrigin, IInv, ScoresInv

(* The capture starts from the last house sown, inside the board, and for  *)
(* the second player inside the first row.                                 *)
LEMMA StartCaptureIInv == ASSUME IInv, StartCapture PROVE IInv'
<1>1. i - 1 \in Nat
  BY DEF StartCapture, IInv, LoopInv
<1>2. LastPos \in Houses
  BY <1>1, RoundTheBoard DEF LastPos
<1>3. side = 1 => LastPos < Half
  BY DEF StartCapture, CanCapture
<1>4. LoopInv'
  BY <1>2, <1>3, HalfBoard DEF StartCapture, IInv, LoopInv
<1>5. SeedsConserved'
  BY DEF StartCapture, IInv, SeedsConserved
<1>6. QED
  BY <1>4, <1>5 DEF StartCapture, IInv, ScoresInv

(* Returning leaves the board and the scores, with nothing in the hand.    *)
LEMMA ReturnIInv ==
  ASSUME IInv, seeds_to_sow = 0, Return, UNCHANGED <<board, captured>>
  PROVE  IInv'
<1>1. LoopInv'
  BY HalfBoard DEF Return, LoopInv, Side
<1>2. SeedsConserved'
  BY DEF Return, IInv, SeedsConserved
<1>3. turn' \in Side
  BY DEF Return, IInv, Side
<1>4. QED
  BY <1>1, <1>2, <1>3 DEF Return, IInv, ScoresInv

(* The seeds of a captured house go from the board to the score, which     *)
(* cannot overflow.                                                        *)
LEMMA CaptureHouseIInv == ASSUME IInv, CaptureHouse PROVE IInv'
<1>1. side \in {0, 1} /\ pc = "capture" /\ seeds_to_sow = 0
  BY DEF CaptureHouse, IInv, LoopInv, Side
<1>2. i \in Houses
  BY <1>1, HalfBoard DEF CaptureHouse, Capturing, IInv, LoopInv
<1>3. board[i] \in Nat /\ captured[side] \in Nat /\ captured[side] + board[i] <= Total
  BY <1>1, <1>2, PartsOfTotal
<1>4. Int8(captured[side] + board[i]) = captured[side] + board[i]
  BY <1>3, TotalBounds DEF Int8
<1>5. captured' = [captured EXCEPT ![side] = captured[side] + board[i]]
  BY <1>4 DEF CaptureHouse
<1>6. board' \in Board /\ Seeds(board') = Seeds(board) - board[i]
  BY <1>2, EmptyingTakesAll DEF CaptureHouse, IInv
<1>7. ScoresInv'
  <2>1. captured[side] + board[i] \in 0 .. Total
    BY <1>3, TotalBounds
  <2>2. QED
    BY <1>5, <2>1 DEF IInv, ScoresInv
<1>8. captured'[0] + captured'[1] = captured[0] + captured[1] + board[i]
  <2>1. captured \in [Side -> 0 .. Total]
    BY DEF IInv, ScoresInv
  <2>2. CASE side = 0
    BY <1>3, <1>5, <2>1, <2>2, PartsOfTotal DEF Side
  <2>3. CASE side = 1
    BY <1>3, <1>5, <2>1, <2>3, PartsOfTotal DEF Side
  <2>4. QED
    BY <1>1, <2>2, <2>3
<1>9. SeedsConserved'
  <2>1. captured'[0] \in Nat /\ captured'[1] \in Nat
    BY <1>7, TotalBounds DEF ScoresInv, Side
  <2>2. seeds_to_sow' = seeds_to_sow
    BY DEF CaptureHouse
  <2>3. /\ Seeds(board) \in Nat /\ captured[0] \in Nat /\ captured[1] \in Nat
        /\ seeds_to_sow \in Nat
        /\ Seeds(board) + seeds_to_sow + captured[0] + captured[1] = Total
    BY PartsOfTotal
  <2>4. \A n, a, b, c, d, k, s \in Nat :
          n + s + a + b = Total /\ c + d = a + b + k => n - k + s + c + d = Total
    OBVIOUS
  <2>5. Seeds(board') + seeds_to_sow' + captured'[0] + captured'[1] = Total
    BY <1>3, <1>6, <1>8, <2>1, <2>2, <2>3, <2>4
  <2>6. QED
    BY <2>5 DEF SeedsConserved
<1>10. LoopInv'
  BY HalfBoard DEF CaptureHouse, IInv, LoopInv
<1>11. QED
  BY <1>6, <1>7, <1>9, <1>10 DEF CaptureHouse, IInv

LEMMA NewGameIInv == ASSUME IInv, NewGame PROVE IInv'
<1>1. board' \in Board /\ Seeds(board') = Total
  BY StartTotal DEF NewGame
<1>2. ScoresInv' /\ captured'[0] = 0 /\ captured'[1] = 0
  BY TotalBounds DEF NewGame, ScoresInv, NoScore, Side
<1>3. LoopInv' /\ seeds_to_sow' = 0
  BY DEF NewGame, IInv, LoopInv, locals
<1>4. SeedsConserved'
  BY <1>1, <1>2, <1>3, TotalBounds DEF SeedsConserved
<1>5. QED
  BY <1>1, <1>2, <1>3, <1>4 DEF NewGame, IInv, Side

LEMMA NextIInv == IInv /\ [Next]_vars => IInv'
<1> SUFFICES ASSUME IInv, [Next]_vars PROVE IInv'
  OBVIOUS
<1>1. ASSUME NEW s \in Side, NEW play \in PlayBytes, OutOfBounds(s, play) PROVE IInv'
  BY <1>1, RejectedIInv
<1>2. ASSUME NEW s \in Side, NEW play \in PlayBytes, EmptyHouse(s, play) PROVE IInv'
  BY <1>2, RejectedIInv
<1>3. ASSUME NEW s \in Side, NEW play \in PlayBytes, PickUp(s, play) PROVE IInv'
  BY <1>3, PickUpIInv
<1>4. CASE SowSeed
  BY <1>4, SowSeedIInv
<1>5. CASE SkipOrigin
  BY <1>5, SkipOriginIInv
<1>6. CASE StartCapture
  BY <1>6, StartCaptureIInv
<1>7. CASE EndWithoutCapture
  BY <1>7, ReturnIInv DEF EndWithoutCapture
<1>8. CASE CaptureHouse
  BY <1>8, CaptureHouseIInv
<1>9. CASE EndCapture
  BY <1>9, ReturnIInv DEF EndCapture, IInv, LoopInv
<1>10. CASE NewGame
  BY <1>10, NewGameIInv
<1>11. CASE UNCHANGED vars
  BY <1>11 DEF vars, locals, IInv, ScoresInv, LoopInv, SeedsConserved
<1>12. QED
  BY <1>1, <1>2, <1>3, <1>4, <1>5, <1>6, <1>7, <1>8, <1>9, <1>10, <1>11 DEF Next, Loop

(***************************************************************************)
(* Theorems.                                                               *)
(***************************************************************************)

(* The strengthening holds in every state game_play can reach.             *)
THEOREM Inductive == Spec => []IInv
BY InitIInv, NextIInv, PTL DEF Spec

(* No counter of game_play ever leaves the C type that holds it.           *)
THEOREM TypeCorrect == Spec => []TypeOK
<1>1. IInv => TypeOK
  <2> SUFFICES ASSUME IInv PROVE TypeOK
    OBVIOUS
  <2>1. seeds_to_sow \in Nat /\ seeds_to_sow <= Total
    BY PartsOfTotal
  <2>2. captured \in [Side -> -128 .. 127]
    BY TotalBounds DEF IInv, ScoresInv
  <2>3. seeds_to_sow \in 0 .. 255
    BY <2>1, TotalBounds
  <2>4. QED
    BY <2>2, <2>3 DEF TypeOK, IInv, LoopInv, Board
<1>2. QED
  BY <1>1, Inductive, PTL

(* No iteration of the two loops of game_play loses or makes a seed.       *)
THEOREM Conservation == Spec => []SeedsConserved
<1>1. IInv => SeedsConserved
  BY DEF IInv
<1>2. QED
  BY <1>1, Inductive, PTL

(* The game game_is_ended reports as over could not have gone otherwise.   *)
THEOREM FinalVerdict == Spec => []VerdictSound
<1>1. IInv => VerdictSound
  <2> SUFFICES ASSUME IInv PROVE VerdictSound
    OBVIOUS
  <2>1. /\ Seeds(board) \in Nat /\ captured[0] \in Nat /\ captured[1] \in Nat
        /\ seeds_to_sow \in Nat
        /\ Seeds(board) + seeds_to_sow + captured[0] + captured[1] = Total
    BY PartsOfTotal
  <2>2. BOARD_SIZE \in Nat /\ Total \in Nat /\ Total <= 4 * BOARD_SIZE
    BY TotalBounds, HalfBoard
  <2>3. QED
    BY <2>1, <2>2 DEF VerdictSound, Verdict
<1>2. QED
  BY <1>1, Inductive, PTL

(* A capture leaves the houses of the player who captures alone.           *)
THEOREM OwnRowKept == Spec => CaptureOnlyOpponent
<1>1. IInv /\ [Next]_vars =>
        [pc = "capture" => \A h \in Row(side) : board'[h] = board[h]]_vars
  <2> SUFFICES ASSUME IInv, Next, pc = "capture", NEW h \in Row(side)
               PROVE  board'[h] = board[h]
    OBVIOUS
  <2>1. CASE CaptureHouse
    <3>1. side \in {0, 1} /\ i \in Int /\ i >= Half * (1 - side) /\ (side = 1 => i < Half)
      BY <2>1 DEF CaptureHouse, Capturing, IInv, LoopInv, Side
    <3>2. i # h
      BY <3>1, HalfBoard
    <3>3. QED
      BY <2>1, <3>2 DEF CaptureHouse, IInv, Board
  <2>2. CASE EndCapture
    BY <2>2 DEF EndCapture
  <2>3. QED
    BY <2>1, <2>2 DEF Next, Loop, OutOfBounds, EmptyHouse, PickUp, Called, SowSeed,
                      SkipOrigin, StartCapture, EndWithoutCapture, NewGame
<1>2. QED
  BY <1>1, Inductive, PTL DEF Spec, CaptureOnlyOpponent

(* Only the player whose move it is can win by it.                         *)
THEOREM MoverWins == Spec => OnlyMoverWins
<1> DEFINE Mine == IF side = 0 THEN "P1WON" ELSE "P2WON"
           Step == (pc # "idle" /\ Verdict = "NOT_ENDED")
                     => Verdict' \in {"NOT_ENDED", "DRAW", Mine}
<1>1. IInv /\ [Next]_vars => [Step]_vars
  <2> SUFFICES ASSUME IInv, Next, pc # "idle", Verdict = "NOT_ENDED"
               PROVE  Verdict' \in {"NOT_ENDED", "DRAW", Mine}
    OBVIOUS
  <2>1. CASE captured' = captured
    BY <2>1 DEF Verdict
  <2>2. CASE CaptureHouse
    <3>1. side \in {0, 1} /\ captured'[1 - side] = captured[1 - side]
      BY <2>2 DEF CaptureHouse, IInv, LoopInv, ScoresInv, Side
    <3>2. captured[0] <= BOARD_SIZE * 2 /\ captured[1] <= BOARD_SIZE * 2
      BY PartsOfTotal, HalfBoard DEF Verdict
    <3>3. QED
      BY <3>1, <3>2, PartsOfTotal, HalfBoard DEF Verdict
  <2>3. QED
    BY <2>1, <2>2 DEF Next, Loop, OutOfBounds, EmptyHouse, PickUp, SowSeed,
                      SkipOrigin, StartCapture, EndWithoutCapture, EndCapture, NewGame
<1>2. QED
  BY <1>1, Inductive, PTL DEF Spec, OnlyMoverWins

(***************************************************************************)
(* Seeds are always left.  The invariant this needs says why a capture     *)
(* cannot clear the board: from the test of game_board_can_capture to the  *)
(* end of the capturing loop there is a house with seeds that the loop     *)
(* does not take, outside the row it walks or not holding two or three.    *)
(***************************************************************************)
Spared(h) == board[h] > 0 /\ (h \in Row(1 - side) => board[h] \notin {2, 3})

LeftInv ==
  /\ pc # "capture" => (\E h \in Houses : board[h] > 0) \/ seeds_to_sow > 0
  /\ pc = "capture" => \E h \in Houses : Spared(h)

LEMMA StartLeft == \E h \in Houses : StartBoard[h] > 0
<1>1. 0 \in Houses /\ StartBoard[0] > 0
  BY HalfBoard, BoardAssumption DEF StartBoard
<1>2. QED
  BY <1>1

(* The byte past the board, NB_PLAYERS, spares nothing.                    *)
LEMMA StartCaptureLeft == ASSUME IInv, StartCapture PROVE LeftInv'
<1>1. PICK k \in Half * (1 - side) .. Half + Half * (1 - side) :
        ByteAt(board, k) \notin {0, 2, 3}
  BY DEF StartCapture, CanCapture
<1>2. k \in Houses /\ board[k] \notin {0, 2, 3}
  BY <1>1 DEF ByteAt, NB_PLAYERS
<1>3. board[k] > 0
  BY <1>2, PartsOfTotal
<1>4. QED
  BY <1>2, <1>3 DEF StartCapture, LeftInv, Spared

LEMMA CaptureHouseLeft == ASSUME IInv, LeftInv, CaptureHouse PROVE LeftInv'
<1>1. /\ pc = "capture" /\ pc' = "capture" /\ side' = side /\ side \in {0, 1}
      /\ board[i] \in {2, 3} /\ board' = [board EXCEPT ![i] = 0]
  BY DEF CaptureHouse, Capturing, IInv, LoopInv, Side
<1>2. i \in Row(1 - side)
  BY <1>1, HalfBoard DEF CaptureHouse, Capturing, IInv, LoopInv
<1>3. PICK h \in Houses : Spared(h)
  BY <1>1 DEF LeftInv
<1>4. h # i
  BY <1>1, <1>2, <1>3 DEF Spared
<1>5. board'[h] = board[h]
  BY <1>1, <1>4 DEF IInv, Board
<1>6. QED
  BY <1>1, <1>3, <1>5 DEF LeftInv, Spared

LEMMA SowSeedLeft == ASSUME IInv, SowSeed PROVE LeftInv'
<1> DEFINE h == i % BOARD_SIZE
<1>1. h \in Houses
  BY RoundTheBoard DEF SowSeed, IInv, LoopInv
<1>2. board[h] \in Nat /\ board[h] < 127
  BY <1>1, PartsOfTotal, TotalBounds DEF SowSeed
<1>3. board'[h] > 0
  BY <1>1, <1>2 DEF SowSeed, UInt8, IInv, Board
<1>4. pc' # "capture"
  BY DEF SowSeed
<1>5. QED
  BY <1>1, <1>3, <1>4 DEF LeftInv

LEMMA NextLeft == IInv /\ LeftInv /\ [Next]_vars => LeftInv'
<1> SUFFICES ASSUME IInv, LeftInv, [Next]_vars PROVE LeftInv'
  OBVIOUS
<1>1. ASSUME NEW s \in Side, NEW play \in PlayBytes,
             OutOfBounds(s, play) \/ EmptyHouse(s, play)
      PROVE  LeftInv'
  BY <1>1 DEF OutOfBounds, EmptyHouse, LeftInv, Spared, locals
<1>2. ASSUME NEW s \in Side, NEW play \in PlayBytes, PickUp(s, play) PROVE LeftInv'
  BY <1>2 DEF PickUp, LeftInv
<1>3. CASE SowSeed
  BY <1>3, SowSeedLeft
<1>4. CASE SkipOrigin
  BY <1>4 DEF SkipOrigin, LeftInv, Spared
<1>5. CASE StartCapture
  BY <1>5, StartCaptureLeft
<1>6. CASE EndWithoutCapture
  BY <1>6 DEF EndWithoutCapture, Return, LeftInv
<1>7. CASE CaptureHouse
  BY <1>7, CaptureHouseLeft
<1>8. CASE EndCapture
  BY <1>8 DEF EndCapture, Return, LeftInv, Spared
<1>9. CASE NewGame
  BY <1>9, StartLeft DEF NewGame, LeftInv
<1>10. CASE UNCHANGED vars
  BY <1>10 DEF vars, locals, LeftInv, Spared
<1>11. QED
  BY <1>1, <1>2, <1>3, <1>4, <1>5, <1>6, <1>7, <1>8, <1>9, <1>10 DEF Next, Loop

(* A capture never clears the board, so that one player can always move,   *)
(* and no game ends in a draw.                                             *)
THEOREM NeverCleared == Spec => []SeedsLeft
<1>1. Init => LeftInv
  BY StartLeft DEF Init, LeftInv
<1>2. IInv /\ LeftInv => SeedsLeft
  <2> SUFFICES ASSUME IInv, LeftInv PROVE SeedsLeft
    OBVIOUS
  <2>1. (\E h \in Houses : board[h] > 0) \/ seeds_to_sow > 0
    BY DEF LeftInv, Spared
  <2>2. Seeds(board) + seeds_to_sow > 0
    BY <2>1, PartsOfTotal
  <2>3. Verdict # "DRAW"
    BY <2>2, PartsOfTotal, TotalBounds, HalfBoard DEF Verdict
  <2>4. QED
    BY <2>1, <2>3 DEF SeedsLeft
<1>3. QED
  BY <1>1, <1>2, NextLeft, Inductive, PTL DEF Spec

(***************************************************************************)
(* What game_board_can_capture found still lies there while the capture    *)
(* goes on: the loop takes houses of two or three seeds only.              *)
(***************************************************************************)
CheckedInv ==
  pc = "capture" => \E k \in Half * (1 - side) .. Half + Half * (1 - side) :
                      ByteAt(board, k) \notin {0, 2, 3}

LEMMA NextChecked == IInv /\ CheckedInv /\ [Next]_vars => CheckedInv'
<1> SUFFICES ASSUME IInv, CheckedInv, [Next]_vars PROVE CheckedInv'
  OBVIOUS
<1>1. CASE StartCapture
  BY <1>1 DEF StartCapture, CanCapture, CheckedInv
<1>2. CASE CaptureHouse
  <2>1. /\ pc = "capture" /\ side' = side /\ board[i] \in {2, 3}
        /\ board' = [board EXCEPT ![i] = 0]
    BY <1>2 DEF CaptureHouse, Capturing
  <2>2. PICK k \in Half * (1 - side) .. Half + Half * (1 - side) :
          ByteAt(board, k) \notin {0, 2, 3}
    BY <2>1 DEF CheckedInv
  <2>3. k \in Houses /\ board[k] \notin {0, 2, 3}
    BY <2>2 DEF ByteAt, NB_PLAYERS
  <2>4. board'[k] = board[k]
    BY <2>1, <2>3 DEF IInv, Board
  <2>5. ByteAt(board', k) = ByteAt(board, k)
    BY <2>3, <2>4 DEF ByteAt
  <2>6. QED
    BY <2>1, <2>2, <2>5 DEF CheckedInv
<1>3. CASE pc' # "capture"
  BY <1>3 DEF CheckedInv
<1>4. CASE UNCHANGED <<board, pc, side>>
  BY <1>4 DEF CheckedInv
<1>5. QED
  BY <1>1, <1>2, <1>3, <1>4
  DEF Next, Loop, OutOfBounds, EmptyHouse, PickUp, SowSeed, SkipOrigin,
      EndWithoutCapture, EndCapture, Return, NewGame, vars, locals, IInv, LoopInv

(* A capture by the first player leaves the second player a seed; the      *)
(* second player can empty the row only past a house of the own one.       *)
THEOREM RowKept == Spec => RowNotEmptied
<1> DEFINE Emptied == pc = "capture" /\ board' # board /\ \A h \in Row(1 - side) : board'[h] = 0
           Step    == Emptied => side = 1 /\ board[Half] \notin {0, 2, 3}
<1>1. Init => CheckedInv
  BY DEF Init, CheckedInv
<1>2. IInv /\ CheckedInv /\ [Next]_vars => [Step]_vars
  <2> SUFFICES ASSUME IInv, CheckedInv, Next, Emptied
               PROVE  side = 1 /\ board[Half] \notin {0, 2, 3}
    OBVIOUS
  <2>1. CaptureHouse
    BY DEF Next, Loop, OutOfBounds, EmptyHouse, PickUp, Called, SowSeed, SkipOrigin,
           StartCapture, EndWithoutCapture, EndCapture, NewGame
  <2>2. /\ side \in {0, 1} /\ board[i] \in {2, 3}
        /\ board' = [board EXCEPT ![i] = 0]
    BY <2>1 DEF CaptureHouse, Capturing, IInv, LoopInv, Side
  <2>3. PICK k \in Half * (1 - side) .. Half + Half * (1 - side) :
          ByteAt(board, k) \notin {0, 2, 3}
    BY DEF CheckedInv
  <2>4. k \in Houses /\ board[k] \notin {0, 2, 3}
    BY <2>3 DEF ByteAt, NB_PLAYERS
  <2>5. board'[k] = board[k]
    BY <2>2, <2>4 DEF IInv, Board
  <2>6. k \notin Row(1 - side)
    BY <2>4, <2>5
  <2>7. side = 1 /\ k = Half
    BY <2>2, <2>3, <2>4, <2>6, HalfBoard
  <2>8. QED
    BY <2>4, <2>7
<1>3. QED
  BY <1>1, <1>2, NextChecked, Inductive, PTL DEF Spec, RowNotEmptied

(***************************************************************************)
(* Arithmetic of the walk around the board.                                *)
(***************************************************************************)

(* Quotient and remainder are what they are written as.                    *)
LEMMA Quotient ==
  ASSUME NEW d \in Nat \ {0}, NEW q \in Int, NEW r \in 0 .. d - 1
  PROVE  (q * d + r) \div d = q /\ (q * d + r) % d = r
OBVIOUS

(* The house the loop is at after q rounds and r houses more.              *)
LEMMA Walk ==
  ASSUME NEW p \in Houses, NEW q \in Nat, NEW r \in 0 .. BOARD_SIZE - 1
  PROVE  (p + 1 + q * BOARD_SIZE + r) % BOARD_SIZE
           = IF p + 1 + r < BOARD_SIZE THEN p + 1 + r ELSE p + 1 + r - BOARD_SIZE
<1>1. BOARD_SIZE \in Nat \ {0} /\ p \in 0 .. BOARD_SIZE - 1
  BY HalfBoard
<1>2. CASE p + 1 + r < BOARD_SIZE
  <2> DEFINE k == p + 1 + r
  <2>1. k \in 0 .. BOARD_SIZE - 1 /\ p + 1 + q * BOARD_SIZE + r = q * BOARD_SIZE + k
    BY <1>1, <1>2
  <2> HIDE DEF k
  <2>2. (q * BOARD_SIZE + k) % BOARD_SIZE = k
    BY <1>1, <2>1, Quotient
  <2>3. QED
    BY <1>2, <2>1, <2>2 DEF k
<1>3. CASE ~(p + 1 + r < BOARD_SIZE)
  <2> DEFINE k  == p + 1 + r - BOARD_SIZE
             qq == q + 1
  <2>1. k \in 0 .. BOARD_SIZE - 1 /\ p + 1 + q * BOARD_SIZE + r = qq * BOARD_SIZE + k
    BY <1>1, <1>3
  <2>2. qq \in Int
    OBVIOUS
  <2> HIDE DEF k, qq
  <2>3. (qq * BOARD_SIZE + k) % BOARD_SIZE = k
    BY <1>1, <2>1, <2>2, Quotient
  <2>4. QED
    BY <1>3, <2>1, <2>3 DEF k
<1>4. QED
  BY <1>2, <1>3

LEMMA DistanceIs ==
  ASSUME NEW p \in Houses, NEW h \in Houses
  PROVE  Rules!Distance(p, h) = IF h > p THEN h - p - 1 ELSE h - p - 1 + BOARD_SIZE
<1>1. BOARD_SIZE \in Nat \ {0} /\ p \in 0 .. BOARD_SIZE - 1 /\ h \in 0 .. BOARD_SIZE - 1
  BY HalfBoard
<1>2. CASE h > p
  <2> DEFINE k == h - p - 1
  <2>1. k \in 0 .. BOARD_SIZE - 1 /\ k = 0 * BOARD_SIZE + k
    BY <1>1, <1>2
  <2> HIDE DEF k
  <2>2. k % BOARD_SIZE = k
    BY <1>1, <2>1, Quotient
  <2>3. QED
    BY <1>2, <2>2 DEF Rules!Distance, k
<1>3. CASE ~(h > p)
  <2> DEFINE k == h - p - 1 + BOARD_SIZE
  <2>1. k \in 0 .. BOARD_SIZE - 1 /\ h - p - 1 = (0 - 1) * BOARD_SIZE + k
    BY <1>1, <1>3
  <2> HIDE DEF k
  <2>2. ((0 - 1) * BOARD_SIZE + k) % BOARD_SIZE = k
    BY <1>1, <2>1, Quotient
  <2>3. QED
    BY <1>3, <2>1, <2>2 DEF Rules!Distance, k
<1>4. QED
  BY <1>2, <1>3

(* The names of the two modules for the parts of the board agree.          *)
LEMMA SameBoard ==
  /\ Rules!Side = Side /\ Rules!Half = Half /\ Rules!Houses = Houses
  /\ \A s : Rules!Row(s) = Row(s)
  /\ Rules!StartBoard = StartBoard /\ Rules!NoScore = NoScore
BY DEF Rules!Side, Side, Rules!Half, Half, Rules!Houses, Houses, Rules!Row, Row,
       Rules!StartBoard, StartBoard, Rules!NoScore, NoScore

(***************************************************************************)
(* The invariant.                                                          *)
(***************************************************************************)

(* The board after q rounds and r houses more.                             *)
SownSoFar(b, p, q, r) ==
  [h \in Houses |-> IF h = p THEN 0
                    ELSE b[h] + q + (IF Rules!Distance(p, h) < r THEN 1 ELSE 0)]

Sowing(b, q, r) ==
  /\ i = pos + 1 + q * BOARD_SIZE + r
  /\ b[pos] - seeds_to_sow = q * (BOARD_SIZE - 1) + r
  /\ r = 0 => seeds_to_sow > 0
  /\ board = SownSoFar(b, pos, q, r)

SowInv ==
  pc = "sow" =>
    /\ pos \in Row(side) /\ before.board[pos] > 0
    /\ captured = before.captured
    /\ \E q \in Nat, r \in 0 .. BOARD_SIZE - 1 : Sowing(before.board, q, r)

(* The capture has come down to house i.                                   *)
Capture(sown) ==
  /\ \E h \in Rules!Inspected(side) : sown[h] \notin {0, 2, 3}
  /\ \A h \in i + 1 .. pos : sown[h] \in {2, 3}
  /\ board = [h \in Houses |-> IF h \in i + 1 .. pos THEN 0 ELSE sown[h]]
  /\ captured = [before.captured EXCEPT ![side] = @ + Rules!Loot(sown, i + 1 .. pos)]

CaptureInv ==
  pc = "capture" =>
    /\ pos \in Row(1 - side) /\ i \in Half * (1 - side) - 1 .. pos
    /\ \E p \in Row(side) :
         /\ before.board[p] > 0 /\ pos = Rules!LastHouse(before.board, p)
         /\ Capture(Rules!Sown(before.board, p))

BeforeInv ==
  /\ pc = "idle" => before = [board |-> board, captured |-> captured]
  /\ before.board \in Board /\ before.captured \in [Side -> 0 .. Total]
  /\ pc # "idle" => Rules!Verdict = "NOT_ENDED"

RInv == IInv /\ BeforeInv /\ SowInv /\ CaptureInv

(***************************************************************************)
(* Sowing, one iteration at a time.                                        *)
(***************************************************************************)

(* A seed more in the house r houses after p, p excepted.                  *)
LEMMA OneSeedFurther ==
  ASSUME NEW b \in Board, NEW p \in Houses, NEW h \in Houses, h # p,
         NEW q \in Nat, NEW r \in Nat, Rules!Distance(p, h) = r
  PROVE  SownSoFar(b, p, q, r + 1)
           = [SownSoFar(b, p, q, r) EXCEPT ![h] = SownSoFar(b, p, q, r)[h] + 1]
<1> DEFINE old == SownSoFar(b, p, q, r)
           new == SownSoFar(b, p, q, r + 1)
<1>1. ASSUME NEW g \in Houses, g # h PROVE new[g] = old[g]
  <2>0. /\ Rules!Distance(p, g) = IF g > p THEN g - p - 1 ELSE g - p - 1 + BOARD_SIZE
        /\ Rules!Distance(p, h) = IF h > p THEN h - p - 1 ELSE h - p - 1 + BOARD_SIZE
        /\ p \in 0 .. BOARD_SIZE - 1 /\ g \in 0 .. BOARD_SIZE - 1 /\ h \in 0 .. BOARD_SIZE - 1
        /\ BOARD_SIZE \in Nat
    BY DistanceIs, HalfBoard
  <2>1. Rules!Distance(p, g) \in Int /\ (g # p => Rules!Distance(p, g) # r)
    BY <1>1, <2>0
  <2>2. g # p => (Rules!Distance(p, g) < r + 1 <=> Rules!Distance(p, g) < r)
    BY <2>1
  <2>3. QED
    BY <2>2 DEF SownSoFar
<1>2. new[h] = old[h] + 1
  <2>1. b[h] \in Nat
    BY DEF Board
  <2>2. r < r + 1 /\ ~(r < r)
    OBVIOUS
  <2>3. new[h] = b[h] + q + 1 /\ old[h] = b[h] + q + 0
    BY <2>2 DEF SownSoFar
  <2>4. QED
    BY <2>1, <2>3
<1>3. QED
  BY <1>1, <1>2 DEF SownSoFar

(* After the last house of a round the next round starts.                  *)
LEMMA NextRound ==
  ASSUME NEW b \in Board, NEW p \in Houses, NEW q \in Nat
  PROVE  SownSoFar(b, p, q, BOARD_SIZE - 1) = SownSoFar(b, p, q + 1, 0)
<1>1. ASSUME NEW h \in Houses, h # p
      PROVE  Rules!Distance(p, h) < BOARD_SIZE - 1 /\ ~(Rules!Distance(p, h) < 0)
  BY <1>1, DistanceIs, HalfBoard
<1>2. ASSUME NEW h \in Houses PROVE b[h] \in Nat
  BY DEF Board
<1>3. QED
  BY <1>1, <1>2 DEF SownSoFar

LEMMA PickUpSow ==
  ASSUME RInv, NEW s \in Side, NEW play, PickUp(s, play), before' = before
  PROVE  SowInv'
<1> DEFINE p == Position(s, play)
           b == before.board
<1>1. /\ p \in Row(s) /\ board[p] > 0 /\ b = board /\ captured = before.captured
      /\ side' = s /\ pos' = p /\ seeds_to_sow' = board[p] /\ i' = p + 1
      /\ board' = [board EXCEPT ![p] = 0] /\ captured' = captured
  BY DEF PickUp, Called, RInv, BeforeInv
<1>2. p \in Houses /\ b \in Board
  BY <1>1, HalfBoard DEF RInv, BeforeInv, Side
<1> HIDE DEF p, b
<1>3. board' = SownSoFar(b, p, 0, 0)
  <2>1. ASSUME NEW h \in Houses, h # p
        PROVE  ~(Rules!Distance(p, h) < 0) /\ b[h] \in Nat
    <3>1. /\ Rules!Distance(p, h) = IF h > p THEN h - p - 1 ELSE h - p - 1 + BOARD_SIZE
          /\ p \in 0 .. BOARD_SIZE - 1 /\ h \in 0 .. BOARD_SIZE - 1 /\ BOARD_SIZE \in Nat
      BY <1>2, DistanceIs, HalfBoard
    <3>2. b[h] \in Nat
      BY <1>2 DEF Board
    <3>3. QED
      BY <3>1, <3>2
  <2>2. ASSUME NEW h \in Houses PROVE board'[h] = SownSoFar(b, p, 0, 0)[h]
    BY <1>1, <1>2, <2>1 DEF SownSoFar, Board
  <2>3. QED
    BY <1>1, <1>2, <2>2 DEF SownSoFar, Board
<1>4. Sowing(b, 0, 0)'
  <2>1. b' = b
    BY DEF b
  <2>2. b[p] \in Nat /\ b[p] > 0
    BY <1>1, <1>2 DEF Board
  <2>3. p + 1 = p + 1 + 0 * BOARD_SIZE + 0 /\ b[p] - b[p] = 0 * (BOARD_SIZE - 1) + 0
    BY <1>2, <2>2, HalfBoard
  <2>4. QED
    BY <1>1, <1>3, <2>1, <2>2, <2>3 DEF Sowing
<1>5. 0 \in Nat /\ 0 \in 0 .. BOARD_SIZE - 1
  BY HalfBoard
<1>6. QED
  BY <1>1, <1>4, <1>5 DEF SowInv, b

(* The loop of a play that is sowing, for whoever reasons about it.        *)
LEMMA SowingState ==
  ASSUME RInv, pc = "sow"
  PROVE  /\ pos \in Houses /\ pos \in Row(side) /\ side \in Side
         /\ before.board \in Board /\ board \in Board /\ before.board[pos] > 0
         /\ captured = before.captured /\ seeds_to_sow \in Nat
         /\ \E q \in Nat, r \in 0 .. BOARD_SIZE - 1 : Sowing(before.board, q, r)
BY DEF RInv, SowInv, BeforeInv, IInv, LoopInv

LEMMA SowSeedSow == ASSUME RInv, SowSeed, before' = before PROVE SowInv'
<1> DEFINE b == before.board
           h == i % BOARD_SIZE
<1>1. /\ pc = "sow" /\ seeds_to_sow > 0 /\ h # pos /\ pos' = pos /\ side' = side
      /\ board' = [board EXCEPT ![h] = UInt8(board[h] + 1)]
      /\ seeds_to_sow' = seeds_to_sow - 1 /\ i' = i + 1 /\ captured' = captured
  BY DEF SowSeed
<1>2. PICK q \in Nat, r \in 0 .. BOARD_SIZE - 1 : Sowing(b, q, r)
  BY <1>1, SowingState
<1>3. /\ pos \in Houses /\ b \in Board /\ board \in Board /\ seeds_to_sow \in Nat
      /\ b[pos] \in Nat
  BY <1>1, SowingState DEF Board
<1>4. h = IF pos + 1 + r < BOARD_SIZE THEN pos + 1 + r ELSE pos + 1 + r - BOARD_SIZE
  BY <1>2, <1>3, Walk DEF Sowing
<1>5. h \in Houses /\ r < BOARD_SIZE - 1 /\ Rules!Distance(pos, h) = r
  <2>1. pos \in 0 .. BOARD_SIZE - 1 /\ BOARD_SIZE \in Nat
    BY <1>3, HalfBoard
  <2> HIDE DEF h
  <2>2. h \in 0 .. BOARD_SIZE - 1
    BY <1>4, <2>1
  <2>3. r < BOARD_SIZE - 1
    BY <1>1, <1>4, <2>1
  <2>4. QED
    BY <1>3, <1>4, <2>1, <2>2, <2>3, DistanceIs, HalfBoard
<1> HIDE DEF h
<1>6. UInt8(board[h] + 1) = board[h] + 1
  <2>1. board[h] \in Nat /\ board[h] < 127
    BY <1>1, <1>5, PartsOfTotal, TotalBounds DEF RInv
  <2>2. QED
    BY <2>1 DEF UInt8
<1>7. board' = SownSoFar(b, pos, q, r + 1)
  <2>1. board = SownSoFar(b, pos, q, r)
    BY <1>2 DEF Sowing
  <2>2. QED
    BY <1>1, <1>3, <1>5, <1>6, <2>1, OneSeedFurther
<1>8. Sowing(b, q, r + 1)'
  <2>1. b' = b
    OBVIOUS
  <2> HIDE DEF b
  <2> DEFINE x == q * BOARD_SIZE
             y == q * (BOARD_SIZE - 1)
  <2>2. x \in Int /\ y \in Int
    BY HalfBoard
  <2>3. /\ i = pos + 1 + x + r
        /\ b[pos] - seeds_to_sow = y + r
    BY <1>2 DEF Sowing
  <2> HIDE DEF x, y
  <2>4. /\ i + 1 = pos + 1 + x + (r + 1)
        /\ b[pos] - (seeds_to_sow - 1) = y + (r + 1)
    BY <1>3, <2>2, <2>3, HalfBoard
  <2>5. r + 1 # 0
    OBVIOUS
  <2>6. QED
    BY <1>1, <1>7, <2>1, <2>4, <2>5 DEF Sowing, x, y
<1>9. r + 1 \in 0 .. BOARD_SIZE - 1
  BY <1>5, HalfBoard
<1>10. QED
  BY <1>1, <1>8, <1>9, SowingState DEF SowInv

LEMMA SkipOriginSow == ASSUME RInv, SkipOrigin, before' = before PROVE SowInv'
<1> DEFINE b == before.board
           h == i % BOARD_SIZE
<1>1. /\ pc = "sow" /\ seeds_to_sow > 0 /\ h = pos /\ pos' = pos /\ side' = side
      /\ board' = board /\ seeds_to_sow' = seeds_to_sow /\ i' = i + 1
      /\ captured' = captured
  BY DEF SkipOrigin
<1>2. PICK q \in Nat, r \in 0 .. BOARD_SIZE - 1 : Sowing(b, q, r)
  BY <1>1, SowingState
<1>3. pos \in Houses /\ b \in Board /\ seeds_to_sow \in Nat /\ b[pos] \in Nat
  BY <1>1, SowingState DEF Board
<1>4. h = IF pos + 1 + r < BOARD_SIZE THEN pos + 1 + r ELSE pos + 1 + r - BOARD_SIZE
  BY <1>2, <1>3, Walk DEF Sowing
<1>5. r = BOARD_SIZE - 1
  <2>1. pos \in 0 .. BOARD_SIZE - 1 /\ BOARD_SIZE \in Nat
    BY <1>3, HalfBoard
  <2> HIDE DEF h
  <2>2. QED
    BY <1>1, <1>4, <2>1
<1>6. board' = SownSoFar(b, pos, q + 1, 0)
  BY <1>1, <1>2, <1>3, <1>5, NextRound DEF Sowing
<1>7. Sowing(b, q + 1, 0)'
  <2>1. b' = b
    OBVIOUS
  <2> HIDE DEF b
  <2>2. /\ i = pos + 1 + q * BOARD_SIZE + (BOARD_SIZE - 1)
        /\ b[pos] - seeds_to_sow = q * (BOARD_SIZE - 1) + (BOARD_SIZE - 1)
    BY <1>2, <1>5 DEF Sowing
  <2>3. /\ i + 1 = pos + 1 + (q + 1) * BOARD_SIZE + 0
        /\ b[pos] - seeds_to_sow = (q + 1) * (BOARD_SIZE - 1) + 0
    BY <1>3, <2>2, HalfBoard
  <2>4. QED
    BY <1>1, <1>6, <2>1, <2>3 DEF Sowing
<1>8. q + 1 \in Nat /\ 0 \in 0 .. BOARD_SIZE - 1
  BY HalfBoard
<1>9. QED
  BY <1>1, <1>7, <1>8, SowingState DEF SowInv

(* The last seed sown, the loop has done what the rules say in one step.   *)
LEMMA AllSown ==
  ASSUME RInv, pc = "sow", seeds_to_sow = 0
  PROVE  /\ board = Rules!Sown(before.board, pos)
         /\ LastPos = Rules!LastHouse(before.board, pos)
         /\ LastPos \in Houses
<1> DEFINE b == before.board
           n == before.board[pos]
           M == BOARD_SIZE - 1
<1>1. PICK q \in Nat, r \in 0 .. BOARD_SIZE - 1 : Sowing(b, q, r)
  BY SowingState
<1>2. pos \in Houses /\ b \in Board /\ n \in Nat
  BY SowingState DEF Board
<1>3. /\ i = pos + 1 + q * BOARD_SIZE + r /\ r # 0
      /\ n = q * M + r /\ board = SownSoFar(b, pos, q, r)
  BY <1>1, <1>2, HalfBoard DEF Sowing
<1>4. M \in Nat \ {0} /\ BOARD_SIZE \in Nat \ {0} /\ r \in 1 .. M
  BY <1>3, HalfBoard
<1> HIDE DEF b, n, M
<1>5. (n - 1) % M = r - 1
  <2> DEFINE k == r - 1
  <2>1. k \in 0 .. M - 1
    BY <1>4
  <2>2. n - 1 = q * M + k
    <3> DEFINE x == q * M
    <3>1. x \in Int
      BY <1>4
    <3>2. n = x + r
      BY <1>3
    <3> HIDE DEF x
    <3>3. n - 1 = x + k
      BY <1>4, <3>1, <3>2
    <3>4. QED
      BY <3>3 DEF x
  <2> HIDE DEF k
  <2>3. (q * M + k) % M = k
    BY <1>4, <2>1, Quotient
  <2>4. QED
    BY <2>2, <2>3 DEF k
<1>6. LastPos = Rules!LastHouse(b, pos) /\ LastPos \in Houses
  <2> DEFINE k == r - 1
  <2>1. k \in 0 .. BOARD_SIZE - 1
    BY <1>4
  <2>2. i - 1 = pos + 1 + q * BOARD_SIZE + k
    <3> DEFINE x == q * BOARD_SIZE
    <3>1. x \in Int /\ pos \in Int
      BY <1>2, <1>4, HalfBoard
    <3>2. i = pos + 1 + x + r
      BY <1>3
    <3> HIDE DEF x
    <3>3. i - 1 = pos + 1 + x + k
      BY <1>4, <3>1, <3>2
    <3>4. QED
      BY <3>3 DEF x
  <2>3. (n - 1) % M = k
    BY <1>5
  <2> HIDE DEF k
  <2> DEFINE h == IF pos + 1 + k < BOARD_SIZE THEN pos + 1 + k ELSE pos + 1 + k - BOARD_SIZE
  <2>4. (pos + 1 + q * BOARD_SIZE + k) % BOARD_SIZE = h
    BY <1>2, <2>1, Walk
  <2>5. (pos + 1 + 0 * BOARD_SIZE + k) % BOARD_SIZE = h
    BY <1>2, <2>1, Walk
  <2>6. pos + 1 + 0 * BOARD_SIZE + k = pos + 1 + k
    BY <1>2, <1>4, <2>1, HalfBoard
  <2>7. h \in Houses
    BY <1>2, <2>1, HalfBoard
  <2> HIDE DEF h
  <2>8. Rules!LastHouse(b, pos) = h
    BY <2>3, <2>5, <2>6 DEF Rules!LastHouse, n, M, b
  <2>9. QED
    BY <2>2, <2>4, <2>7, <2>8 DEF LastPos
<1>7. board = Rules!Sown(b, pos)
  <2>1. ASSUME NEW h \in Houses
        PROVE  Rules!Distance(pos, h) \in 0 .. BOARD_SIZE - 1
               /\ (h # pos => Rules!Distance(pos, h) < M)
    <3>1. /\ Rules!Distance(pos, h) = IF h > pos THEN h - pos - 1 ELSE h - pos - 1 + BOARD_SIZE
          /\ pos \in 0 .. BOARD_SIZE - 1 /\ h \in 0 .. BOARD_SIZE - 1 /\ BOARD_SIZE \in Nat
      BY <1>2, DistanceIs, HalfBoard
    <3>2. QED
      BY <3>1 DEF M
  <2>2. ASSUME NEW h \in Houses PROVE b[h] \in Nat
    BY <1>2 DEF Board
  <2>3. CASE r < M
    <3>1. r \in 0 .. M - 1
      BY <1>4, <2>3
    <3>2. (q * M + r) \div M = q /\ (q * M + r) % M = r
      BY <1>4, <3>1, Quotient
    <3>3. QED
      BY <1>3, <3>2 DEF Rules!Sown, Rules!Houses, SownSoFar, Houses, n, M, b
  <2>4. CASE r = M
    <3> DEFINE qq == q + 1
    <3>1. n = qq * M + 0 /\ qq \in Int /\ 0 \in 0 .. M - 1
      BY <1>3, <1>4, <2>4
    <3>2. board = SownSoFar(b, pos, qq, 0)
      BY <1>2, <1>3, <2>4, NextRound DEF M
    <3> HIDE DEF qq
    <3>3. n \div M = qq /\ n % M = 0
      BY <1>4, <3>1, Quotient
    <3>4. QED
      BY <3>2, <3>3 DEF Rules!Sown, Rules!Houses, SownSoFar, Houses, n, M, b
  <2>5. QED
    BY <1>4, <2>3, <2>4
<1>8. QED
  BY <1>6, <1>7 DEF b

(***************************************************************************)
(* Capturing, one house at a time.                                         *)
(***************************************************************************)

(* game_board_can_capture, whose last byte is one too far, decides as the  *)
(* rules do.                                                               *)
LEMMA CanCaptureIs ==
  ASSUME NEW b \in Board, NEW s \in Side, NEW last \in Houses
  PROVE  CanCapture(b, 1 - s, last)
           <=> last \in Row(1 - s) /\ \E h \in Rules!Inspected(s) : b[h] \notin {0, 2, 3}
<1>1. CASE s = 0
  <2>1. Rules!Inspected(s) = Row(1)
    BY <1>1 DEF Rules!Inspected, Rules!Row, Row, Rules!Half, Half
  <2>2. Half * (1 - s) = Half /\ Half + Half * (1 - s) = BOARD_SIZE
    BY <1>1, HalfBoard
  <2>3. ASSUME NEW k \in Half .. BOARD_SIZE
        PROVE  ByteAt(b, k) \notin {0, 2, 3} <=> (k \in Row(1) /\ b[k] \notin {0, 2, 3})
    BY HalfBoard DEF ByteAt, NB_PLAYERS
  <2>4. last \in Row(1) <=> last >= Half
    BY HalfBoard
  <2>5. Row(1) \subseteq Half .. BOARD_SIZE /\ Row(1 - s) = Row(1)
    BY <1>1, HalfBoard
  <2>6. QED
    BY <1>1, <2>1, <2>2, <2>3, <2>4, <2>5 DEF CanCapture
<1>2. CASE s = 1
  <2>1. Rules!Inspected(s) = Row(0) \cup {Half}
    BY <1>2 DEF Rules!Inspected, Rules!Row, Row, Rules!Half, Half
  <2>2. Half * (1 - s) = 0 /\ Half + Half * (1 - s) = Half
    BY <1>2, HalfBoard
  <2>3. Row(0) \cup {Half} = 0 .. Half
    BY HalfBoard
  <2>4. ASSUME NEW k \in 0 .. Half PROVE ByteAt(b, k) = b[k]
    BY HalfBoard DEF ByteAt
  <2>5. (last \in Row(0) <=> last < Half) /\ Row(1 - s) = Row(0)
    BY <1>2, HalfBoard
  <2>6. QED
    BY <1>2, <2>1, <2>2, <2>3, <2>4, <2>5 DEF CanCapture
<1>3. QED
  BY <1>1, <1>2 DEF Side

(* AwaleRules is an instance, with a Cardinality of its own.               *)
LEMMA SameCardinality == \A S : Rules!Cardinality(S) = Cardinality(S)
BY DEF Rules!Cardinality, Cardinality

LEMMA NoLoot == ASSUME NEW b PROVE Rules!Loot(b, {}) = 0
<1>1. {h \in {} : b[h] = 2} = {} /\ {h \in {} : b[h] = 3} = {}
  OBVIOUS
<1>2. Rules!Loot(b, {}) = 2 * Cardinality({}) + 3 * Cardinality({})
  BY <1>1, SameCardinality DEF Rules!Loot
<1>3. Cardinality({}) = 0
  BY FS_EmptySet
<1>4. QED
  BY <1>2, <1>3

(* A house of two or three seeds adds them to the loot.                    *)
LEMMA LootGrows ==
  ASSUME NEW b, NEW S, IsFiniteSet(S), NEW h, h \notin S, b[h] \in {2, 3}
  PROVE  Rules!Loot(b, S) \in Nat /\ Rules!Loot(b, S \cup {h}) = Rules!Loot(b, S) + b[h]
<1> DEFINE twos(T)   == {g \in T : b[g] = 2}
           threes(T) == {g \in T : b[g] = 3}
<1>1. IsFiniteSet(twos(S)) /\ IsFiniteSet(threes(S)) /\ h \notin twos(S) /\ h \notin threes(S)
  BY FS_Subset
<1>2. Cardinality(twos(S)) \in Nat /\ Cardinality(threes(S)) \in Nat
  BY <1>1, FS_CardinalityType
<1>3. CASE b[h] = 2
  <2>1. twos(S \cup {h}) = twos(S) \cup {h} /\ threes(S \cup {h}) = threes(S)
    BY <1>3
  <2>2. /\ Rules!Loot(b, S) = 2 * Cardinality(twos(S)) + 3 * Cardinality(threes(S))
        /\ Rules!Loot(b, S \cup {h}) = 2 * Cardinality(twos(S \cup {h}))
                                       + 3 * Cardinality(threes(S \cup {h}))
    BY SameCardinality DEF Rules!Loot
  <2> HIDE DEF twos, threes
  <2>3. Cardinality(twos(S \cup {h})) = Cardinality(twos(S)) + 1
    BY <1>1, <2>1, FS_AddElement
  <2>4. Cardinality(threes(S \cup {h})) = Cardinality(threes(S))
    BY <2>1
  <2>5. QED
    BY <1>2, <1>3, <2>2, <2>3, <2>4
<1>4. CASE b[h] = 3
  <2>1. threes(S \cup {h}) = threes(S) \cup {h} /\ twos(S \cup {h}) = twos(S)
    BY <1>4
  <2>2. /\ Rules!Loot(b, S) = 2 * Cardinality(twos(S)) + 3 * Cardinality(threes(S))
        /\ Rules!Loot(b, S \cup {h}) = 2 * Cardinality(twos(S \cup {h}))
                                       + 3 * Cardinality(threes(S \cup {h}))
    BY SameCardinality DEF Rules!Loot
  <2> HIDE DEF twos, threes
  <2>3. Cardinality(threes(S \cup {h})) = Cardinality(threes(S)) + 1
    BY <1>1, <2>1, FS_AddElement
  <2>4. Cardinality(twos(S \cup {h})) = Cardinality(twos(S))
    BY <2>1
  <2>5. QED
    BY <1>2, <1>4, <2>2, <2>3, <2>4
<1>5. QED
  BY <1>3, <1>4

LEMMA StartCaptureTaken ==
  ASSUME RInv, StartCapture, before' = before
  PROVE  CaptureInv'
<1>0. PICK p : p = pos
  OBVIOUS
<1>1. /\ pc = "sow" /\ seeds_to_sow = 0 /\ CanCapture(board, 1 - side, LastPos)
      /\ pos' = LastPos /\ i' = LastPos /\ board' = board /\ captured' = captured
      /\ side' = side
  BY DEF StartCapture
<1>2. /\ p \in Row(side) /\ side \in Side /\ before.board[p] > 0 /\ board \in Board
      /\ captured = before.captured /\ captured \in [Side -> 0 .. Total]
  BY <1>0, <1>1, SowingState DEF RInv, IInv, ScoresInv
<1> DEFINE sown == Rules!Sown(before.board, p)
<1>3. board = sown /\ LastPos = Rules!LastHouse(before.board, p) /\ LastPos \in Houses
  BY <1>0, <1>1, AllSown
<1>4. /\ LastPos \in Row(1 - side)
      /\ \E h \in Rules!Inspected(side) : sown[h] \notin {0, 2, 3}
  BY <1>1, <1>2, <1>3, CanCaptureIs
<1>5. LastPos \in Half * (1 - side) - 1 .. LastPos
  BY <1>2, <1>4, HalfBoard DEF Side
<1>6. LastPos + 1 .. LastPos = {}
  BY <1>3, HalfBoard
<1>7. Capture(sown)'
  <2>1. sown' = sown
    OBVIOUS
  <2>2. captured' = [before.captured EXCEPT ![side] = before.captured[side] + 0]
    BY <1>1, <1>2, TotalBounds
  <2>3. Rules!Loot(sown, {}) = 0
    BY NoLoot
  <2>4. board' = [h \in Houses |-> sown[h]]
    BY <1>1, <1>2, <1>3 DEF Board
  <2>5. Rules!Inspected(side') = Rules!Inspected(side)
    BY <1>1
  <2> HIDE DEF sown
  <2>6. QED
    BY <1>1, <1>4, <1>6, <2>1, <2>2, <2>3, <2>4, <2>5 DEF Capture
<1>8. QED
  BY <1>1, <1>2, <1>3, <1>4, <1>5, <1>7 DEF CaptureInv

(* The loop of a play that is capturing.                                   *)
LEMMA CapturingState ==
  ASSUME RInv, pc = "capture"
  PROVE  /\ side \in Side /\ pos \in Houses /\ pos \in Row(1 - side) /\ i \in Int
         /\ i \in Half * (1 - side) - 1 .. pos
         /\ board \in Board /\ captured \in [Side -> 0 .. Total]
         /\ before.board \in Board /\ before.captured \in [Side -> 0 .. Total]
         /\ \E p \in Row(side) :
              /\ before.board[p] > 0 /\ pos = Rules!LastHouse(before.board, p)
              /\ Capture(Rules!Sown(before.board, p))
BY DEF RInv, CaptureInv, BeforeInv, IInv, LoopInv, ScoresInv

LEMMA CaptureHouseTaken ==
  ASSUME RInv, CaptureHouse, before' = before
  PROVE  CaptureInv'
<1>1. /\ pc = "capture" /\ i >= Half * (1 - side) /\ board[i] \in {2, 3}
      /\ captured' = [captured EXCEPT ![side] = Int8(captured[side] + board[i])]
      /\ board' = [board EXCEPT ![i] = 0] /\ i' = i - 1
      /\ side' = side /\ pos' = pos
  BY DEF CaptureHouse, Capturing
<1>2. PICK p \in Row(side) : /\ before.board[p] > 0 /\ pos = Rules!LastHouse(before.board, p)
                             /\ Capture(Rules!Sown(before.board, p))
  BY <1>1, CapturingState
<1> DEFINE sown == Rules!Sown(before.board, p)
<1>3. /\ side \in Side /\ pos \in Row(1 - side) /\ i \in Int /\ i <= pos
      /\ board \in Board /\ captured \in [Side -> 0 .. Total]
      /\ before.captured \in [Side -> 0 .. Total]
  BY <1>1, CapturingState
<1>4. /\ \E h \in Rules!Inspected(side) : sown[h] \notin {0, 2, 3}
      /\ \A h \in i + 1 .. pos : sown[h] \in {2, 3}
      /\ board = [h \in Houses |-> IF h \in i + 1 .. pos THEN 0 ELSE sown[h]]
      /\ captured = [before.captured EXCEPT
                       ![side] = before.captured[side] + Rules!Loot(sown, i + 1 .. pos)]
  BY <1>2 DEF Capture
<1> HIDE DEF sown
<1>5. i \in Houses /\ pos \in Int /\ i \in Half * (1 - side) .. pos
  <2>1. CASE side = 0
    BY <1>1, <1>3, <2>1, HalfBoard
  <2>2. CASE side = 1
    BY <1>1, <1>3, <2>2, HalfBoard
  <2>3. QED
    BY <1>3, <2>1, <2>2 DEF Side
<1>6. /\ i \notin i + 1 .. pos /\ i - 1 + 1 .. pos = (i + 1 .. pos) \cup {i}
      /\ IsFiniteSet(i + 1 .. pos)
  <2>1. i + 1 \in Int /\ pos \in Int
    BY <1>3, <1>5
  <2>2. IsFiniteSet(i + 1 .. pos)
    BY <2>1, FS_Interval
  <2>3. QED
    BY <1>5, <2>2
<1>7. sown[i] = board[i]
  BY <1>4, <1>5, <1>6
<1>8. /\ Rules!Loot(sown, i + 1 .. pos) \in Nat
      /\ Rules!Loot(sown, i - 1 + 1 .. pos) = Rules!Loot(sown, i + 1 .. pos) + board[i]
  <2> DEFINE S == i + 1 .. pos
  <2>1. i \notin S /\ i - 1 + 1 .. pos = S \cup {i} /\ IsFiniteSet(S)
    BY <1>6
  <2> HIDE DEF S
  <2>2. Rules!Loot(sown, S) \in Nat /\ Rules!Loot(sown, S \cup {i}) = Rules!Loot(sown, S) + sown[i]
    BY <1>1, <1>7, <2>1, LootGrows
  <2>3. QED
    BY <1>7, <2>1, <2>2 DEF S
<1>9. Int8(captured[side] + board[i]) = captured[side] + board[i]
  <2>1. /\ Seeds(board) \in Nat /\ captured[0] \in Nat /\ captured[1] \in Nat
        /\ seeds_to_sow \in Nat /\ board[i] \in Nat /\ board[i] <= Seeds(board)
        /\ Seeds(board) + seeds_to_sow + captured[0] + captured[1] = Total
    BY <1>5, PartsOfTotal DEF RInv
  <2>2. captured[side] + board[i] \in 0 .. 127
    <3>1. side = 0 \/ side = 1
      BY <1>3 DEF Side
    <3>2. captured[side] \in Nat /\ captured[side] <= captured[0] + captured[1]
      BY <2>1, <3>1
    <3> DEFINE own == captured[side]
               more == board[i]
    <3>3. own \in Nat /\ own <= captured[0] + captured[1] /\ more \in Nat /\ more <= Seeds(board)
      BY <2>1, <3>2
    <3> HIDE DEF own, more
    <3>4. own + more \in 0 .. 127
      BY <2>1, <3>3, TotalBounds
    <3>5. QED
      BY <3>4 DEF own, more
  <2>3. QED
    BY <2>2 DEF Int8
<1>10. captured' = [before.captured EXCEPT
                      ![side] = before.captured[side] + Rules!Loot(sown, i - 1 + 1 .. pos)]
  <2> DEFINE old == Rules!Loot(sown, i + 1 .. pos)
  <2>1. captured[side] = before.captured[side] + old
    BY <1>3, <1>4
  <2>2. before.captured[side] \in Nat /\ board[i] \in Nat
    BY <1>1, <1>3, TotalBounds
  <2>3. captured[side] + board[i] = before.captured[side] + (old + board[i])
    BY <1>8, <2>1, <2>2
  <2>4. captured' = [captured EXCEPT ![side] = before.captured[side] + (old + board[i])]
    BY <1>1, <1>9, <2>3
  <2>5. QED
    BY <1>3, <1>4, <1>8, <2>4
<1>11. board' = [h \in Houses |-> IF h \in i - 1 + 1 .. pos THEN 0 ELSE sown[h]]
  BY <1>1, <1>4, <1>5, <1>6
<1>12. \A h \in i - 1 + 1 .. pos : sown[h] \in {2, 3}
  BY <1>1, <1>4, <1>6, <1>7
<1>13. Capture(Rules!Sown(before.board, p))'
  BY <1>1, <1>4, <1>10, <1>11, <1>12 DEF Capture, sown
<1>14. i - 1 \in Half * (1 - side) - 1 .. pos
  BY <1>3, <1>5, HalfBoard DEF Side
<1>15. QED
  BY <1>1, <1>2, <1>3, <1>13, <1>14 DEF CaptureInv

(* The houses the loop went through are the ones the rules take.           *)
LEMMA AllTaken ==
  ASSUME RInv, pc = "capture", ~Capturing, NEW p, pos = Rules!LastHouse(before.board, p),
         Capture(Rules!Sown(before.board, p))
  PROVE  Rules!Taken(Rules!Sown(before.board, p), side, Rules!LastHouse(before.board, p))
           = i + 1 .. pos
<1> DEFINE sown == Rules!Sown(before.board, p)
<1>1. /\ \E h \in Rules!Inspected(side) : sown[h] \notin {0, 2, 3}
      /\ \A h \in i + 1 .. pos : sown[h] \in {2, 3}
      /\ board = [h \in Houses |-> IF h \in i + 1 .. pos THEN 0 ELSE sown[h]]
  BY DEF Capture
<1>2. /\ side \in Side /\ pos \in Row(1 - side) /\ i \in Int
      /\ i \in Half * (1 - side) - 1 .. pos
  BY CapturingState
<1> HIDE DEF sown
<1>3. Rules!Row(1 - side) = Row(1 - side)
  BY SameBoard
<1>4. Rules!Taken(sown, side, pos)
        = {h \in Row(1 - side) : h <= pos /\ \A k \in h .. pos : sown[k] \in {2, 3}}
  BY <1>1, <1>2, <1>3 DEF Rules!Taken, Rules!Capturable
<1>5. /\ Half * (1 - side) \in Nat /\ Row(1 - side) \subseteq Houses
      /\ Row(1 - side) = Half * (1 - side) .. Half * (1 - side) + Half - 1 /\ Half \in Nat
  BY <1>2, HalfBoard DEF Side
<1>6. ASSUME NEW h \in i + 1 .. pos
      PROVE  h \in Row(1 - side) /\ h <= pos /\ \A k \in h .. pos : sown[k] \in {2, 3}
  <2>1. pos \in Int /\ h \in Int /\ \A k \in h .. pos : k \in i + 1 .. pos
    BY <1>2, <1>5
  <2>2. h \in Row(1 - side)
    BY <1>2, <1>5
  <2>3. QED
    BY <1>1, <2>1, <2>2
<1>7. ASSUME NEW h \in Row(1 - side), h <= pos, \A k \in h .. pos : sown[k] \in {2, 3}
      PROVE  h \in i + 1 .. pos
  <2>1. SUFFICES ASSUME h <= i PROVE FALSE
    BY <1>2, <1>5, <1>7
  <2>2. h \in Int /\ h >= Half * (1 - side) /\ pos \in Int /\ i <= pos
    BY <1>2, <1>5
  <2>3. i >= Half * (1 - side) /\ i \in h .. pos /\ i \notin i + 1 .. pos
    BY <1>2, <1>5, <2>1, <2>2
  <2>4. i \in Houses
    BY <1>2, <1>5, <2>2, <2>3
  <2>5. board[i] = sown[i] /\ sown[i] \in {2, 3}
    BY <1>1, <1>7, <2>3, <2>4
  <2>6. QED
    BY <2>3, <2>5 DEF Capturing
<1>8. Rules!Taken(sown, side, pos) = i + 1 .. pos
  BY <1>4, <1>6, <1>7
<1>9. QED
  BY <1>8 DEF sown

(***************************************************************************)
(* Every step is a step of the rules, or none at all.                      *)
(***************************************************************************)

Hidden == UNCHANGED Rules!rulesVars

(* game_is_ended and the rules call the same games decided.                *)
LEMMA SameVerdict ==
  ASSUME before.captured = captured, captured \in [Side -> 0 .. Total]
  PROVE  Rules!Verdict = Verdict
<1>1. captured = [s \in Side |-> BOARD_SIZE * 2]
        <=> captured[0] = BOARD_SIZE * 2 /\ captured[1] = BOARD_SIZE * 2
  BY DEF Side
<1>2. QED
  BY <1>1 DEF Rules!Verdict, Verdict, Rules!Side, Side

LEMMA IdleStep ==
  ASSUME RInv, NextBefore,
         NEW s \in Side, NEW play, OutOfBounds(s, play) \/ EmptyHouse(s, play)
  PROVE  SowInv' /\ CaptureInv' /\ BeforeInv' /\ Hidden
<1>1. /\ pc = "idle" /\ pc' = pc /\ board' = board /\ captured' = captured /\ turn' = turn
      /\ before = [board |-> board, captured |-> captured]
  BY DEF OutOfBounds, EmptyHouse, Called, RInv, BeforeInv
<1>2. before' = before
  BY <1>1 DEF NextBefore
<1>3. QED
  BY <1>1, <1>2 DEF RInv, BeforeInv, SowInv, CaptureInv, Hidden, Rules!rulesVars

(* Inside a play nothing is seen of it.                                    *)
LEMMA LoopStep ==
  ASSUME RInv, before' = before, turn' = turn, pc' # "idle",
         Rules!Verdict = "NOT_ENDED"
  PROVE  BeforeInv' /\ Hidden
BY DEF RInv, BeforeInv, Hidden, Rules!rulesVars, Rules!Verdict, Rules!Side

LEMMA PickUpStep ==
  ASSUME RInv, NextBefore, NEW s \in Side, NEW play, PickUp(s, play)
  PROVE  SowInv' /\ CaptureInv' /\ BeforeInv' /\ Hidden
<1>1. /\ pc = "idle" /\ pc' = "sow" /\ turn' = turn /\ Verdict = "NOT_ENDED"
  BY DEF PickUp, Called
<1>2. before' = before
  BY <1>1 DEF NextBefore
<1>3. Rules!Verdict = "NOT_ENDED"
  BY <1>1, SameVerdict DEF RInv, BeforeInv, IInv, ScoresInv
<1>4. BeforeInv' /\ Hidden
  BY <1>1, <1>2, <1>3, LoopStep
<1>5. QED
  BY <1>1, <1>2, <1>4, PickUpSow DEF CaptureInv

LEMMA InnerStep ==
  ASSUME RInv, NextBefore, SowSeed \/ SkipOrigin \/ StartCapture \/ CaptureHouse
  PROVE  SowInv' /\ CaptureInv' /\ BeforeInv' /\ Hidden
<1>1. /\ pc # "idle" /\ pc' # "idle" /\ turn' = turn
      /\ SowSeed \/ SkipOrigin => pc' = "sow"
      /\ StartCapture \/ CaptureHouse => pc' = "capture"
  BY DEF SowSeed, SkipOrigin, StartCapture, CaptureHouse
<1>2. before' = before
  BY <1>1 DEF NextBefore
<1>3. BeforeInv' /\ Hidden
  BY <1>1, <1>2, LoopStep DEF RInv, BeforeInv
<1>4. SowInv'
  BY <1>1, <1>2, SowSeedSow, SkipOriginSow DEF SowInv
<1>5. CaptureInv'
  BY <1>1, <1>2, StartCaptureTaken, CaptureHouseTaken DEF CaptureInv
<1>6. QED
  BY <1>3, <1>4, <1>5

(* The end of a play is the whole play.                                    *)
LEMMA ReturnStep ==
  ASSUME RInv, NextBefore, IInv', Return, UNCHANGED <<board, captured>>, pc # "idle",
         NEW p \in Row(side), before.board[p] > 0,
         NEW sown, sown = Rules!Sown(before.board, p),
         NEW taken, taken = Rules!Taken(sown, side, Rules!LastHouse(before.board, p)),
         board = [h \in Houses |-> IF h \in taken THEN 0 ELSE sown[h]],
         captured = [before.captured EXCEPT
                       ![side] = before.captured[side] + Rules!Loot(sown, taken)]
  PROVE  SowInv' /\ CaptureInv' /\ BeforeInv' /\ Rules!RulesNext
<1>1. pc' = "idle" /\ turn' = 1 - turn /\ board' = board /\ captured' = captured
  BY DEF Return
<1>2. before' = [board |-> board, captured |-> captured]
  BY <1>1 DEF NextBefore
<1>3. BeforeInv'
  BY <1>1, <1>2 DEF BeforeInv, IInv, ScoresInv
<1>4. Rules!RulesPlay(side, p)
  <2>1. Rules!Verdict = "NOT_ENDED"
    BY DEF RInv, BeforeInv
  <2>2. before'.board = [h \in Rules!Houses |-> IF h \in taken THEN 0 ELSE sown[h]]
    BY <1>2, SameBoard
  <2>3. before'.captured = [before.captured EXCEPT
                              ![side] = before.captured[side] + Rules!Loot(sown, taken)]
    BY <1>2
  <2>4. QED
    BY <1>1, <2>1, <2>2, <2>3 DEF Rules!RulesPlay
<1>5. side \in Rules!Side /\ p \in Rules!Row(side)
  BY SameBoard DEF RInv, IInv, LoopInv
<1>6. Rules!RulesNext
  BY <1>4, <1>5 DEF Rules!RulesNext
<1>7. QED
  BY <1>1, <1>3, <1>6 DEF SowInv, CaptureInv

LEMMA EndWithoutCaptureStep ==
  ASSUME RInv, NextBefore, IInv', EndWithoutCapture
  PROVE  SowInv' /\ CaptureInv' /\ BeforeInv' /\ Rules!RulesNext
<1>1. /\ pc = "sow" /\ seeds_to_sow = 0 /\ ~CanCapture(board, 1 - side, LastPos)
      /\ Return /\ UNCHANGED <<board, captured>>
  BY DEF EndWithoutCapture
<1> DEFINE sown  == Rules!Sown(before.board, pos)
           taken == Rules!Taken(sown, side, Rules!LastHouse(before.board, pos))
<1>2. /\ pos \in Row(side) /\ before.board[pos] > 0 /\ captured = before.captured
      /\ side \in Side /\ board \in Board /\ captured \in [Side -> 0 .. Total]
  BY <1>1, SowingState DEF RInv, IInv, ScoresInv
<1>3. board = sown /\ LastPos = Rules!LastHouse(before.board, pos) /\ LastPos \in Houses
  BY <1>1, AllSown
<1>4. taken = {}
  <2>1. ~(LastPos \in Row(1 - side) /\ \E h \in Rules!Inspected(side) : sown[h] \notin {0, 2, 3})
    BY <1>1, <1>2, <1>3, CanCaptureIs
  <2>2. Rules!Row(1 - side) = Row(1 - side)
    BY SameBoard
  <2> HIDE DEF sown
  <2>3. QED
    BY <1>3, <2>1, <2>2 DEF Rules!Taken
<1> HIDE DEF taken
<1>5. board = [h \in Houses |-> IF h \in taken THEN 0 ELSE sown[h]]
  BY <1>2, <1>3, <1>4 DEF Board
<1>6. captured = [before.captured EXCEPT
                    ![side] = before.captured[side] + Rules!Loot(sown, taken)]
  BY <1>2, <1>4, NoLoot, TotalBounds
<1>7. QED
  BY <1>1, <1>2, <1>5, <1>6, ReturnStep DEF taken

LEMMA EndCaptureStep ==
  ASSUME RInv, NextBefore, IInv', EndCapture
  PROVE  SowInv' /\ CaptureInv' /\ BeforeInv' /\ Rules!RulesNext
<1>1. pc = "capture" /\ ~Capturing /\ Return /\ UNCHANGED <<board, captured>>
  BY DEF EndCapture
<1>2. PICK p \in Row(side) : /\ before.board[p] > 0 /\ pos = Rules!LastHouse(before.board, p)
                             /\ Capture(Rules!Sown(before.board, p))
  BY <1>1, CapturingState
<1>3. Rules!Taken(Rules!Sown(before.board, p), side, Rules!LastHouse(before.board, p)) = i + 1 .. pos
  BY <1>1, <1>2, AllTaken
<1>4. QED
  BY <1>1, <1>2, <1>3, ReturnStep DEF Capture

LEMMA NewGameStep ==
  ASSUME RInv, NextBefore, IInv', NewGame
  PROVE  SowInv' /\ CaptureInv' /\ BeforeInv' /\ Rules!RulesNext
<1>1. /\ pc = "idle" /\ pc' = "idle" /\ Verdict # "NOT_ENDED"
      /\ board' = StartBoard /\ captured' = NoScore /\ turn' = 0
  BY DEF NewGame, RInv, IInv, LoopInv
<1>2. before' = [board |-> StartBoard, captured |-> NoScore]
  BY <1>1 DEF NextBefore
<1>3. Rules!Verdict = Verdict
  BY <1>1, SameVerdict DEF RInv, BeforeInv, IInv, ScoresInv
<1>4. Rules!RulesNewGame
  BY <1>1, <1>2, <1>3, SameBoard DEF Rules!RulesNewGame
<1>5. BeforeInv'
  BY <1>1, <1>2 DEF BeforeInv, IInv, ScoresInv
<1>6. QED
  BY <1>1, <1>4, <1>5 DEF Rules!RulesNext, SowInv, CaptureInv

LEMMA NextRInv == RInv /\ [NextBefore]_<<vars, before>> => RInv' /\ [Rules!RulesNext]_Rules!rulesVars
<1> SUFFICES ASSUME RInv, [NextBefore]_<<vars, before>>
             PROVE  RInv' /\ [Rules!RulesNext]_Rules!rulesVars
  OBVIOUS
<1>1. IInv'
  BY NextIInv DEF RInv, NextBefore
<1> DEFINE Step == SowInv' /\ CaptureInv' /\ BeforeInv' /\ (Rules!RulesNext \/ Hidden)
<1> SUFFICES Step
  BY <1>1 DEF RInv, Hidden
<1>2. CASE UNCHANGED <<vars, before>>
  <2>1. /\ board' = board /\ captured' = captured /\ turn' = turn /\ pc' = pc
        /\ side' = side /\ pos' = pos /\ i' = i /\ seeds_to_sow' = seeds_to_sow
        /\ before' = before
    BY <1>2 DEF vars, locals
  <2>2. BeforeInv' /\ Hidden
    BY <2>1 DEF RInv, BeforeInv, Hidden, Rules!rulesVars, Rules!Verdict, Rules!Side
  <2>3. SowInv'
    BY <2>1 DEF RInv, SowInv, Sowing
  <2>4. CaptureInv'
    BY <2>1 DEF RInv, CaptureInv, Capture
  <2>5. QED
    BY <2>2, <2>3, <2>4
<1>3. CASE NextBefore
  <2>1. ASSUME NEW s \in Side, NEW play \in PlayBytes, OutOfBounds(s, play) PROVE Step
    BY <1>3, <2>1, IdleStep
  <2>2. ASSUME NEW s \in Side, NEW play \in PlayBytes, EmptyHouse(s, play) PROVE Step
    BY <1>3, <2>2, IdleStep
  <2>3. ASSUME NEW s \in Side, NEW play \in PlayBytes, PickUp(s, play) PROVE Step
    BY <1>3, <2>3, PickUpStep
  <2>4. CASE SowSeed \/ SkipOrigin \/ StartCapture \/ CaptureHouse
    BY <1>3, <2>4, InnerStep
  <2>5. CASE EndWithoutCapture
    BY <1>1, <1>3, <2>5, EndWithoutCaptureStep
  <2>6. CASE EndCapture
    BY <1>1, <1>3, <2>6, EndCaptureStep
  <2>7. CASE NewGame
    BY <1>1, <1>3, <2>7, NewGameStep
  <2> HIDE DEF Step
  <2>8. QED
    BY <1>3, <2>1, <2>2, <2>3, <2>4, <2>5, <2>6, <2>7 DEF NextBefore, Next, Loop
<1>4. QED
  BY <1>2, <1>3

(***************************************************************************)
(* Theorem.                                                                *)
(***************************************************************************)

(* Every call of game_play, whatever the board and the house, leaves the   *)
(* board, the scores and the turn that the rules give in one step: the     *)
(* loops neither miss a house nor take one too many.                       *)
THEOREM LoopsImplementRules == SpecBefore => ImplementsRules
<1>1. InitBefore => RInv /\ Rules!RulesInit
  <2> SUFFICES ASSUME InitBefore PROVE RInv /\ Rules!RulesInit
    OBVIOUS
  <2>1. /\ IInv /\ pc = "idle" /\ board = StartBoard /\ captured = NoScore /\ turn = 0
        /\ before = [board |-> board, captured |-> captured]
    BY InitIInv DEF InitBefore, Init
  <2>2. BeforeInv
    BY <2>1 DEF BeforeInv, IInv, ScoresInv
  <2>3. Rules!RulesInit
    BY <2>1, SameBoard DEF Rules!RulesInit
  <2>4. QED
    BY <2>1, <2>2, <2>3 DEF RInv, SowInv, CaptureInv
<1>2. QED
  BY <1>1, NextRInv, PTL DEF SpecBefore, ImplementsRules, Rules!RulesSpec

(***************************************************************************)
(* The board on the screens.                                               *)
(***************************************************************************)
LEMMA SmallRemainder ==
  ASSUME NEW n \in Nat \ {0}, NEW k \in 0 .. n - 1 PROVE k % n = k
OBVIOUS

(* The size, then all of the body.                                         *)
LEMMA FrameOfPlayed ==
  ASSUME NEW u \in Seq(Nat), NEW b \in Seq(Nat), NEW n, n = Len(b)
  PROVE  /\ u \o SubSeq(b, 1, n) \in Seq(Nat)
         /\ Len(u \o SubSeq(b, 1, n)) = Len(u) + n
         /\ LiesAt(u \o SubSeq(b, 1, n), Len(u), b)
<1>1. SubSeq(b, 1, n) = b
  BY SubSeqFull, Zenon
<1>2. u \o b \in Seq(Nat) /\ Len(u \o b) = Len(u) + Len(b) /\ LiesAt(u \o b, Len(u), b)
  BY Joining, JoinLies, Zenon
<1>3. QED
  BY <1>1, <1>2, Zenon

(* The enumerator with value 6.                                            *)
LEMMA PlayedIs ==
  /\ Format!Reply("PLAYED") = <<6>>
  /\ Format!TypeOf(Format!ServerClientProtocol, 6) = "PLAYED"
<1>1. DOMAIN Format!ServerClientProtocol =
        {"CONNECTION_SUCCESSFUL", "CONNECTION_REFUSED", "ROOM_CREATION_SUCCESSFUL",
         "ROOM_CREATION_REFUSED", "JOIN_ROOM_SUCCESSFUL", "JOIN_ROOM_REFUSED", "PLAYED",
         "GAME_START", "PLAYER_JOINED_ROOM", "SPECTATOR_JOINED_ROOM", "GAME_STOPPED",
         "MESSAGE", "INVALID_PLAY"}
  BY DEF Format!ServerClientProtocol
<1>2. Format!ServerClientProtocol["PLAYED"] = 6
  BY DEF Format!ServerClientProtocol
<1>3. ASSUME NEW t \in DOMAIN Format!ServerClientProtocol, Format!ServerClientProtocol[t] = 6
      PROVE  t = "PLAYED"
  BY <1>1, <1>3 DEF Format!ServerClientProtocol
<1>4. QED
  BY <1>1, <1>2, <1>3 DEF Format!TypeOf, Format!Reply

(* The board of the server as the message carries it.                      *)
Turned(s) == [k \in 1 .. BOARD_SIZE |-> board[(k - 1 + Half * s) % BOARD_SIZE]]

LEMMA TurnedIs ==
  ASSUME board \in Board, NEW s \in Side
  PROVE  /\ Turned(s) \in Seq(Nat) /\ Len(Turned(s)) = BOARD_SIZE
         /\ \A k \in 1 .. BOARD_SIZE : Turned(s)[k] \in Nat
         /\ \A k \in 1 .. Half : Turned(s)[k] = board[Position(s, k - 1)]
         /\ \A k \in 1 .. BOARD_SIZE : Turned(s)[k] = board[(Position(s, 0) + k - 1) % BOARD_SIZE]
<1>1. BOARD_SIZE \in Nat \ {0} /\ Half \in Nat /\ Half * s \in Nat /\ s * Half = Half * s
  BY HalfBoard DEF Side
<1>2. ASSUME NEW k \in 1 .. BOARD_SIZE
      PROVE  /\ (k - 1 + Half * s) % BOARD_SIZE \in Houses
             /\ k - 1 + Half * s = Position(s, 0) + k - 1
  <2>1. k - 1 + Half * s \in Nat
    BY <1>1
  <2>2. QED
    BY <1>1, <2>1 DEF Houses, Position
<1>3. ASSUME NEW k \in 1 .. Half
      PROVE  k \in 1 .. BOARD_SIZE /\ (k - 1 + Half * s) % BOARD_SIZE = Position(s, k - 1)
  <2>1. /\ k - 1 + Half * s \in 0 .. BOARD_SIZE - 1
        /\ k - 1 + Half * s = Position(s, k - 1)
    BY HalfBoard DEF Side, Position
  <2>2. (k - 1 + Half * s) % BOARD_SIZE = k - 1 + Half * s
    BY <1>1, <2>1, SmallRemainder, Zenon
  <2>3. QED
    BY <2>1, <2>2, HalfBoard
<1>4. Turned(s) \in [1 .. BOARD_SIZE -> Nat]
  <2>1. \A h \in Houses : board[h] \in Nat
    BY DEF Board
  <2>2. QED
    BY <1>2, <2>1, Zenon DEF Turned
<1>5. Turned(s) \in Seq(Nat) /\ Len(Turned(s)) = BOARD_SIZE
  BY <1>1, <1>4, RangeIsSequence, Zenon
<1>6. \A k \in 1 .. BOARD_SIZE : Turned(s)[k] = board[(k - 1 + Half * s) % BOARD_SIZE]
  BY DEF Turned
<1>7. \A k \in 1 .. BOARD_SIZE : Turned(s)[k] = board[(Position(s, 0) + k - 1) % BOARD_SIZE]
  BY <1>2, <1>6, Zenon
<1>8. \A k \in 1 .. Half : Turned(s)[k] = board[Position(s, k - 1)]
  BY <1>3, <1>6, Zenon
<1>9. \A k \in 1 .. BOARD_SIZE : Turned(s)[k] \in Nat
  BY <1>4, Zenon
<1>10. QED
  BY <1>5, <1>7, <1>8, <1>9, Zenon

(* The bytes the client finds in its buffer.                               *)
LEMMA PlayedBytes ==
  ASSUME IInv, NEW s \in Side, NEW buf, buf = Body(Format!WritePlayed(s, captured, board))
  PROVE  /\ buf[0] = 6 /\ buf[1] = captured[s] /\ buf[2] = captured[1 - s]
         /\ \A k \in 1 .. BOARD_SIZE : buf[k + 2] = Turned(s)[k]
<1> DEFINE scores == <<Format!Byte(captured[s]), Format!Byte(captured[1 - s])>>
           body   == Format!Reply("PLAYED") \o scores \o Turned(s)
           n      == BOARD_SIZE + 3
           u      == Format!Uint16(n)
           frame  == u \o SubSeq(body, 1, n)
<1>1. Format!WritePlayed(s, captured, board) = frame
  BY DEF Format!WritePlayed, Format!Frame, Turned, Half
<1>2. /\ captured[s] \in 0 .. 127 /\ captured[1 - s] \in 0 .. 127
      /\ BOARD_SIZE \in Nat /\ BOARD_SIZE <= 127
  BY BoardAssumption, TotalBounds DEF IInv, ScoresInv, Side, Total
<1>3. /\ scores = <<captured[s], captured[1 - s]>>
      /\ scores \in Seq(Nat) /\ Len(scores) = 2
  BY <1>2 DEF Format!Byte
<1> DEFINE type == Format!Reply("PLAYED")
           t    == Turned(s)
<1>4. type = <<6>> /\ type \in Seq(Nat) /\ Len(type) = 1
  <2>1. type = <<6>>
    BY PlayedIs
  <2>2. 6 \in Nat
    OBVIOUS
  <2>3. QED
    BY <2>1, <2>2, OneElement, Zenon
<1>5. t \in Seq(Nat) /\ Len(t) = BOARD_SIZE
  <2>1. board \in Board
    BY DEF IInv
  <2>2. QED
    BY <2>1, TurnedIs, Zenon
<1>6. u \in Seq(Nat) /\ Len(u) = 2
  BY <1>2 DEF Format!Uint16, Format!Byte
<1>7. body = type \o scores \o t
  OBVIOUS
<1> HIDE DEF scores, u, type, t, body
<1>8. /\ body \in Seq(Nat) /\ Len(body) = n
      /\ LiesAt(body, 0, type) /\ LiesAt(body, 1, scores) /\ LiesAt(body, 3, t)
  <2>1. /\ body \in Seq(Nat) /\ Len(body) = Len(type) + Len(scores) + Len(t)
        /\ LiesAt(body, 0, type) /\ LiesAt(body, Len(type), scores)
        /\ LiesAt(body, Len(type) + Len(scores), t)
    <3>1. type \in Seq(Nat) /\ scores \in Seq(Nat) /\ t \in Seq(Nat)
      BY <1>3, <1>4, <1>5, Zenon
    <3>2. /\ type \o scores \o t \in Seq(Nat)
          /\ Len(type \o scores \o t) = Len(type) + Len(scores) + Len(t)
          /\ LiesAt(type \o scores \o t, 0, type)
          /\ LiesAt(type \o scores \o t, Len(type), scores)
          /\ LiesAt(type \o scores \o t, Len(type) + Len(scores), t)
      BY <3>1, JoinThree
    <3>3. QED
      BY <1>7, <3>2, Zenon
  <2>2. Len(type) + Len(scores) + Len(t) = n /\ Len(type) + Len(scores) = 3
    BY <1>2, <1>3, <1>4, <1>5
  <2>3. QED
    BY <1>4, <2>1, <2>2, Zenon
<1>9. Len(frame) = BOARD_SIZE + 5 /\ LiesAt(frame, 2, body)
  <2>1. Len(frame) = Len(u) + n /\ LiesAt(frame, Len(u), body)
    BY <1>6, <1>8, FrameOfPlayed, Zenon
  <2>2. QED
    BY <1>2, <1>6, <2>1
<1> HIDE DEF frame
<1>10. /\ body[1] = 6 /\ body[2] = captured[s] /\ body[3] = captured[1 - s]
       /\ \A k \in 1 .. BOARD_SIZE : body[k + 3] = t[k]
  <2>1. body[0 + 1] = type[1]
    BY <1>4, <1>8 DEF LiesAt
  <2>2. body[1 + 1] = scores[1] /\ body[1 + 2] = scores[2]
    BY <1>3, <1>8 DEF LiesAt
  <2>3. \A k \in 1 .. BOARD_SIZE : body[3 + k] = t[k]
    BY <1>5, <1>8 DEF LiesAt
  <2>4. \A k \in 1 .. BOARD_SIZE : 3 + k = k + 3
    BY <1>2
  <2>5. QED
    BY <1>3, <1>4, <2>1, <2>2, <2>3, <2>4
<1>11. \A j \in 1 .. n : frame[2 + j] = body[j]
  BY <1>8, <1>9 DEF LiesAt
<1>12. \A j \in 1 .. n : buf[j - 1] = body[j]
  BY <1>1, <1>2, <1>9, <1>11 DEF Body
<1>13. QED
  BY <1>2, <1>10, <1>12 DEF t

(* What the reader makes of them, and where it is printed.                 *)
LEMMA ScreenIs ==
  ASSUME IInv, NEW s \in Side
  PROVE  Screen(s) = [top_score    |-> captured[1 - s],
                      top          |-> [k \in 1 .. Half |-> Turned(s)[(Half - k) + Half + 1]],
                      bottom       |-> [k \in 1 .. Half |-> Turned(s)[k]],
                      bottom_score |-> captured[s]]
<1>1. PICK buf : buf = Body(Format!WritePlayed(s, captured, board))
  OBVIOUS
<1>2. /\ buf[0] = 6 /\ buf[1] = captured[s] /\ buf[2] = captured[1 - s]
      /\ \A k \in 1 .. BOARD_SIZE : buf[k + 2] = Turned(s)[k]
  BY <1>1, PlayedBytes
<1>3. PICK m : m = Format!ReadReply(buf)
  OBVIOUS
<1>4. m = [type |-> "PLAYED", s_score |-> buf[1], o_score |-> buf[2],
           board |-> Format!BytesAt(buf, 3, BOARD_SIZE)]
  BY <1>2, <1>3, PlayedIs DEF Format!ReadReply
<1>5. \A k \in 1 .. BOARD_SIZE : m.board[k] = Turned(s)[k]
  BY <1>2, <1>4, HalfBoard DEF Format!BytesAt
<1>6. /\ \A k \in 1 .. Half : k \in 1 .. BOARD_SIZE /\ (Half - k) + Half + 1 \in 1 .. BOARD_SIZE
  BY HalfBoard
<1>7. Screen(s) = Printed(m)
  BY <1>1, <1>3 DEF Screen
<1>8. QED
  BY <1>2, <1>4, <1>5, <1>6, <1>7 DEF Printed

LEMMA SeenFromOwnSide == IInv => BoardSeenFromOwnSide
<1> SUFFICES ASSUME IInv, NEW s \in Side
             PROVE  LET around == Screen(s).bottom \o Reverse(Screen(s).top)
                    IN  /\ Screen(s).bottom_score = captured[s]
                        /\ Screen(s).top_score = captured[1 - s]
                        /\ \A k \in 1 .. Half :
                             Screen(s).bottom[k] = board[Position(s, k - 1)]
                        /\ \A k \in 1 .. BOARD_SIZE :
                             around[k] = board[(Position(s, 0) + k - 1) % BOARD_SIZE]
  BY DEF BoardSeenFromOwnSide
<1> DEFINE bottom == [k \in 1 .. Half |-> Turned(s)[k]]
           top    == [k \in 1 .. Half |-> Turned(s)[(Half - k) + Half + 1]]
<1>1. /\ Screen(s).bottom = bottom /\ Screen(s).top = top
      /\ Screen(s).bottom_score = captured[s] /\ Screen(s).top_score = captured[1 - s]
  <2> HIDE DEF bottom, top
  <2>1. Screen(s) = [top_score |-> captured[1 - s], top |-> top, bottom |-> bottom,
                     bottom_score |-> captured[s]]
    BY ScreenIs, Zenon DEF bottom, top
  <2>2. QED
    BY <2>1
<1>2. /\ Turned(s) \in Seq(Nat) /\ Len(Turned(s)) = BOARD_SIZE
      /\ \A k \in 1 .. BOARD_SIZE : Turned(s)[k] \in Nat
      /\ \A k \in 1 .. Half : Turned(s)[k] = board[Position(s, k - 1)]
      /\ \A k \in 1 .. BOARD_SIZE : Turned(s)[k] = board[(Position(s, 0) + k - 1) % BOARD_SIZE]
  <2>1. board \in Board
    BY DEF IInv
  <2>2. QED
    BY <2>1, TurnedIs, Zenon
<1>3. Half \in Nat /\ \A k \in 1 .. Half : k \in 1 .. BOARD_SIZE /\ (Half - k) + Half + 1 \in 1 .. BOARD_SIZE
  BY HalfBoard
<1>4. bottom \in [1 .. Half -> Nat] /\ \A k \in 1 .. Half : bottom[k] = Turned(s)[k]
  BY <1>2, <1>3, Zenon
<1>5. top \in [1 .. Half -> Nat] /\ \A k \in 1 .. Half : top[k] = Turned(s)[(Half - k) + Half + 1]
  BY <1>2, <1>3, Zenon
<1> HIDE DEF bottom, top
<1>6. top \in Seq(Nat) /\ Len(top) = Half /\ bottom \in Seq(Nat) /\ Len(bottom) = Half
  BY <1>3, <1>4, <1>5, RangeIsSequence, Zenon
<1>7. PICK back : back = Reverse(top)
  OBVIOUS
<1>8. /\ back \in Seq(Nat) /\ Len(back) = Half
      /\ \A k \in 1 .. Half : back[k] = Turned(s)[k + Half]
  <2>1. back = [k \in 1 .. Half |-> top[(Half - k) + 1]]
    BY <1>6, <1>7, Zenon DEF Reverse
  <2>2. ASSUME NEW k \in 1 .. Half
        PROVE  (Half - k) + 1 \in 1 .. Half /\ (Half - ((Half - k) + 1)) + Half + 1 = k + Half
    BY HalfBoard
  <2>3. back \in [1 .. Half -> Nat]
    BY <1>5, <2>1, <2>2, Zenon
  <2>4. \A k \in 1 .. Half : back[k] = Turned(s)[k + Half]
    BY <1>5, <2>1, <2>2, Zenon
  <2>5. QED
    BY <1>3, <2>3, <2>4, RangeIsSequence, Zenon
<1>9. PICK around : around = bottom \o back
  OBVIOUS
<1>10. ASSUME NEW k \in 1 .. BOARD_SIZE PROVE around[k] = Turned(s)[k]
  <2>1. CASE k <= Half
    <3>1. k \in 1 .. Half /\ k \in 1 .. Len(bottom)
      BY <1>6, <2>1, HalfBoard
    <3>2. around[k] = bottom[k]
      BY <1>6, <1>8, <1>9, <3>1, JoinLeft, Zenon
    <3>3. QED
      BY <1>4, <3>1, <3>2, Zenon
  <2>2. CASE k > Half
    <3>1. /\ k \in 1 .. Len(bottom) + Len(back) /\ ~ (k <= Len(bottom))
          /\ k - Len(bottom) = k - Half
          /\ k - Half \in 1 .. Half /\ (k - Half) + Half = k
      BY <1>6, <1>8, <2>2, HalfBoard
    <3>2. around[k] = back[k - Len(bottom)]
      BY <1>6, <1>8, <1>9, <3>1, JoinRight, Zenon
    <3>3. back[k - Half] = Turned(s)[(k - Half) + Half]
      BY <1>8, <3>1, Zenon
    <3>4. QED
      BY <3>1, <3>2, <3>3, Zenon
  <2>3. QED
    BY <2>1, <2>2, HalfBoard
<1>11. QED
  BY <1>1, <1>2, <1>3, <1>4, <1>7, <1>9, <1>10, Zenon

(* Both players find the own score and the own row below, and sowing goes  *)
(* counterclockwise around what they see, on a board of any even size.     *)
THEOREM SameBoardForBoth == Spec => []BoardSeenFromOwnSide
BY Inductive, SeenFromOwnSide, PTL
=============================================================================
