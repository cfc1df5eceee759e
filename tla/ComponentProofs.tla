--------------------------- MODULE ComponentProofs --------------------------
(***************************************************************************)
(* Proofs about four components that share no state.  The rules of the       *)
(* gamemodes, for any squares and colours: each rule follows from what the   *)
(* instances remember of the game's clicks.  The difficulty, for any         *)
(* clients and sketches: no counter is below what one of its clients would   *)
(* have alone.  The search of findwin, for any workers and counters: each    *)
(* keeps to its range, and what ranges overlap by is too short for a game.   *)
(* The trace, for any inputs and devices: what flush() has made of some of   *)
(* them stays readable with each that follows.                              *)
(***************************************************************************)
EXTENDS Gamemodes, FindWin, Trace, Difficulty, FiniteSetTheorems, SequenceTheorems,
        WellFoundedInduction, TLAPS

(* What the server folds to tell a time, and flush() to make a trace.        *)
LaterBy(sum, p) == sum + ((p.delta * Micros) % DeltaRange) * Nanos
TimeSum == INSTANCE Folding WITH Op <- LaterBy
FlushFold == INSTANCE Folding WITH Op <- FlushOne

(* A game that has not begun remembers nothing, one that goes on has clicks. *)
Fresh ==
  /\ status = "ready" => popped = <<>> /\ draws = <<>> /\ lastColor = NoColor
  /\ status # "ready" => popped # <<>>

(* SameSquare remembers the colour of the last square.                      *)
LastKept == mode = "same-square" /\ status = "ongoing" => lastColor = popped[Len(popped)]

(* Mystery has drawn a number at each click that left more than one square,  *)
(* and the draw that lost is the last.                                      *)
Drawn ==
  mode = "random" =>
    /\ Len(draws) = IF Len(popped) <= NumSquares - 2 THEN Len(popped) ELSE NumSquares - 2
    /\ \A i \in 1 .. Len(draws) : draws[i] = NumSquares - i <=> status = "lose" /\ i = Len(draws)

RulesInv ==
  TypeOK /\ Fresh /\ EndsFitGame /\ OddOneExists /\ LastKept /\ GleichIsFair /\ Drawn

-----------------------------------------------------------------------------
(* The squares that are left, before and after a click.                     *)
LEMMA SquaresCounted ==
  ASSUME TypeOK
  PROVE  /\ NumSquares \in Nat /\ NumSquares > 1
         /\ Cardinality(Left) \in Nat /\ (Left = {} <=> Cardinality(Left) = 0)
         /\ Len(popped) \in Nat /\ Cardinality(Left) = NumSquares - Len(popped)
         /\ \A s \in Left :
              /\ Rest(s) \in SUBSET Square /\ Cardinality(Rest(s)) = NumSquares - Len(popped) - 1
              /\ Cardinality(Rest(s)) \in Nat /\ (Rest(s) = {} <=> Cardinality(Rest(s)) = 0)
              /\ Cardinality(Rest(s)) = 1 => \E t : Rest(s) = {t}
<1>1. IsFiniteSet(Square) /\ NumSquares \in Nat /\ NumSquares > 1
  BY GamemodesAssumption, FS_CardinalityType DEF GamemodesAssumption, NumSquares
<1>2. Left \in SUBSET Square /\ Len(popped) = NumSquares - Cardinality(Left) /\ Len(popped) \in Nat
  BY DEF TypeOK
<1>3. IsFiniteSet(Left)
  BY <1>1, <1>2, FS_Subset
<1>4. Cardinality(Left) \in Nat /\ (Left = {} <=> Cardinality(Left) = 0)
  BY <1>3, FS_CardinalityType, FS_EmptySet
<1>5. Cardinality(Left) = NumSquares - Len(popped)
  BY <1>1, <1>2, <1>4
<1>6. ASSUME NEW s \in Left
      PROVE  /\ Rest(s) \in SUBSET Square /\ Cardinality(Rest(s)) = NumSquares - Len(popped) - 1
             /\ Cardinality(Rest(s)) \in Nat /\ (Rest(s) = {} <=> Cardinality(Rest(s)) = 0)
             /\ Cardinality(Rest(s)) = 1 => \E t : Rest(s) = {t}
  <2>1. IsFiniteSet(Rest(s)) /\ Cardinality(Rest(s)) = Cardinality(Left) - 1
    BY <1>3, FS_RemoveElement DEF Rest
  <2>2. Cardinality(Rest(s)) \in Nat /\ (Rest(s) = {} <=> Cardinality(Rest(s)) = 0)
    BY <2>1, FS_CardinalityType, FS_EmptySet
  <2>3. Cardinality(Rest(s)) = 1 => \E t : Rest(s) = {t}
    BY <2>1, FS_Singleton
  <2>4. Rest(s) \in SUBSET Square
    BY <1>2 DEF Rest
  <2>. QED  BY <1>5, <2>1, <2>2, <2>3, <2>4
<1>. QED  BY <1>1, <1>2, <1>4, <1>5, <1>6

(* genSquares colours every square, one of them as no other.                *)
LEMMA OneIsOdd ==
  ASSUME NEW S \in SUBSET Square, NEW f \in GenSquares(S)
  PROVE  f \in [S -> Color] /\ \E s \in S : \A t \in S \ {s} : f[t] # f[s]
<1>1. PICK sel \in SUBSET Color : \E odd \in Color \ sel, o \in S :
        f[o] = odd /\ \A s \in S \ {o} : f[s] \in sel
  BY DEF GenSquares
<1>2. PICK o \in S : f[o] \notin sel /\ \A s \in S \ {o} : f[s] \in sel
  BY <1>1
<1>3. \A t \in S \ {o} : f[t] # f[o]
  BY <1>2
<1>. QED  BY <1>3 DEF GenSquares

(* A finite set has subsets of every size up to its own.                     *)
LEMMA SubsetsOfAnySize ==
  ASSUME NEW C, IsFiniteSet(C), NEW k \in 0 .. Cardinality(C)
  PROVE  \E T \in SUBSET C : Cardinality(T) = k
<1>. DEFINE n == Cardinality(C)
            S == {i \in 0 .. n : \E T \in SUBSET C : Cardinality(T) = i}
<1>1. n \in Nat
  BY FS_CardinalityType
<1>2. 0 \in S
  <2>1. Cardinality({}) = 0 /\ {} \in SUBSET C
    BY FS_EmptySet
  <2>. QED  BY <1>1, <2>1
<1>3. ASSUME NEW i \in 0 .. n - 1, i \in S PROVE i + 1 \in S
  <2>1. PICK T \in SUBSET C : Cardinality(T) = i
    BY <1>3
  <2>2. T # C
    BY <1>1, <2>1
  <2>3. PICK c \in C : c \notin T
    BY <2>2
  <2>4. IsFiniteSet(T)
    BY FS_Subset
  <2>5. Cardinality(T \union {c}) = i + 1 /\ T \union {c} \in SUBSET C
    BY <2>1, <2>3, <2>4, FS_AddElement
  <2>6. i + 1 \in 0 .. n
    BY <1>1
  <2>. QED  BY <2>5, <2>6
<1>4. \A i \in 0 .. n : i \in S
  <2>. HIDE DEF S
  <2>. QED  BY <1>1, <1>2, <1>3, TimeSum!Climb
<1>. QED  BY <1>4

(* genSquares always has a colour to pull out and colours to pick from.      *)
LEMMA CanLayOut ==
  ASSUME NEW S \in SUBSET Square, Cardinality(S) \in Nat, Cardinality(S) > 1
  PROVE  GenSquares(S) # {}
<1>. DEFINE c == Cardinality(Color)  k == SelectionSize(S)
<1>1. IsFiniteSet(Color) /\ c \in Nat /\ c > 1
  BY GamemodesAssumption, FS_CardinalityType DEF GamemodesAssumption
<1>2. k \in 0 .. c /\ k # 0 /\ k < c
  BY <1>1 DEF SelectionSize
<1>3. PICK sel \in SUBSET Color : Cardinality(sel) = k
  <2>. HIDE DEF k
  <2>. QED  BY <1>1, <1>2, SubsetsOfAnySize
<1>4. PICK odd \in Color : odd \notin sel
  BY <1>2, <1>3
<1>5. PICK other \in sel : TRUE
  BY <1>2, <1>3, FS_EmptySet
<1>6. PICK o \in S : TRUE
  BY FS_EmptySet
<1>. DEFINE f == [s \in S |-> IF s = o THEN odd ELSE other]
<1>7. f \in [S -> Color] /\ f[o] = odd /\ \A s \in S \ {o} : f[s] \in sel
  OBVIOUS
<1>8. odd \in Color \ sel
  BY <1>4
<1>9. f \in GenSquares(S)
  <2>. HIDE DEF f
  <2>. QED  BY <1>3, <1>7, <1>8 DEF GenSquares
<1>. QED  BY <1>9

(* A board that is laid out is full, and fits its gamemode.                 *)
LEMMA LaidOut ==
  ASSUME NEW m \in Mode, NEW g \in InitialSquares(m)
  PROVE  /\ g \in [Square -> Color] /\ DOMAIN g = Square
         /\ m = "odd-one-out" => \E s \in Square : \A t \in Square \ {s} : g[t] # g[s]
         /\ Square # {} /\ NumSquares - Cardinality(Square) = 0
<1>1. Square # {} /\ NumSquares - Cardinality(Square) = 0
  BY GamemodesAssumption, FS_CardinalityType, FS_EmptySet DEF GamemodesAssumption, NumSquares
<1>. QED  BY <1>1, OneIsOdd DEF InitialSquares

(* A board that is laid out for an instance that is new.                    *)
NewBoard ==
  /\ mode \in Mode /\ grid \in [Square -> Color]
  /\ mode = "odd-one-out" => \E s \in Square : \A t \in Square \ {s} : grid[t] # grid[s]
  /\ lastColor = NoColor /\ status = "ready" /\ popped = <<>> /\ draws = <<>>

LEMMA FreshRules == NewBoard => RulesInv
<1> SUFFICES ASSUME NewBoard PROVE RulesInv
  OBVIOUS
<1> USE DEF NewBoard
<1>0. DOMAIN grid = Square
  OBVIOUS
<1>1. Square # {} /\ NumSquares - Cardinality(Square) = 0 /\ NumSquares \in Nat /\ NumSquares > 1
  BY GamemodesAssumption, FS_CardinalityType, FS_EmptySet DEF GamemodesAssumption, NumSquares
<1>2. Len(popped) = 0 /\ popped \in Seq(Color) /\ Len(draws) = 0 /\ draws \in Seq(Nat)
  OBVIOUS
<1>3. TypeOK
  BY <1>0, <1>1, <1>2 DEF TypeOK, Left
<1>4. Fresh
  BY DEF Fresh
<1>5. EndsFitGame
  BY <1>0, <1>1 DEF EndsFitGame, Left
<1>6. OddOneExists
  BY <1>0 DEF OddOneExists, Left
<1>7. LastKept
  BY DEF LastKept
<1>8. 1 .. Len(popped) = {} /\ 1 .. Len(draws) = {}
  BY <1>2
<1>9. GleichIsFair
  BY <1>8 DEF GleichIsFair
<1>10. Drawn
  <2>1. 0 <= NumSquares - 2
    BY <1>1
  <2>. QED  BY <1>2, <1>8, <2>1 DEF Drawn
<1>. QED  BY <1>3, <1>4, <1>5, <1>6, <1>7, <1>9, <1>10 DEF RulesInv

LEMMA InitRules == Init => RulesInv
BY LaidOut, FreshRules DEF Init, NewBoard

(* A new instance and, where the gamemode needs it, a new board.            *)
LEMMA SwitchRules ==
  ASSUME RulesInv, NEW m \in Mode, SwitchReady(m)
  PROVE  RulesInv'
<1>1. /\ status = "ready" /\ mode' = m /\ lastColor' = NoColor
      /\ status' = status /\ popped' = popped /\ draws' = draws
  BY DEF SwitchReady
<1>2. popped' = <<>> /\ draws' = <<>>
  BY <1>1 DEF RulesInv, Fresh
<1>3. grid \in [Square -> Color]
  <2>1. Left \in SUBSET Square /\ grid \in [Left -> Color] /\ IsFiniteSet(Square)
    BY GamemodesAssumption DEF GamemodesAssumption, RulesInv, TypeOK
  <2>2. Len(popped) = 0
    BY <1>1, <1>2
  <2>3. Cardinality(Left) = Cardinality(Square)
    BY <2>2, SquaresCounted DEF RulesInv, NumSquares
  <2>4. Left = Square
    BY <2>1, <2>3, FS_Subset
  <2>. QED  BY <2>1, <2>4
<1>4. grid' \in [Square -> Color]
  BY <1>3, LaidOut DEF SwitchReady
<1>5. m = "odd-one-out" => \E s \in Square : \A t \in Square \ {s} : grid'[t] # grid'[s]
  BY LaidOut DEF SwitchReady, CriticalMode
<1>6. mode' \in Mode /\ status' = "ready"
  BY <1>1
<1>7. NewBoard'
  BY <1>1, <1>2, <1>4, <1>5, <1>6 DEF NewBoard
<1>. QED  BY <1>7, FreshRules, PTL

LEMMA NewGameRules ==
  ASSUME RulesInv, NEW m \in Mode, NewGame(m)
  PROVE  RulesInv'
<1>1. /\ mode' = m /\ lastColor' = NoColor /\ status' = "ready"
      /\ popped' = <<>> /\ draws' = <<>> /\ grid' \in InitialSquares(m)
  BY DEF NewGame, Reset
<1>2. /\ grid' \in [Square -> Color]
      /\ m = "odd-one-out" => \E s \in Square : \A t \in Square \ {s} : grid'[t] # grid'[s]
  BY <1>1, LaidOut
<1>3. NewBoard'
  BY <1>1, <1>2 DEF NewBoard
<1>. QED  BY <1>3, FreshRules, PTL

-----------------------------------------------------------------------------
(* A click, by what the gamemode makes of it.                                *)
OddOneOutStep(s) ==
  /\ mode = "odd-one-out"
  /\ status' = IF SomeLeft(s, grid[s]) THEN "lose" ELSE WinIfNone(s)
  /\ IF status' = "ongoing" /\ Cardinality(Rest(s)) > 1
     THEN grid' \in GenSquares(Rest(s))
     ELSE grid' = Without(s)
  /\ UNCHANGED <<lastColor, draws>>

SameSquareStep(s) ==
  /\ mode = "same-square" /\ grid' = Without(s)
  /\ IF lastColor \notin {NoColor, grid[s]} /\ SomeLeft(s, lastColor)
     THEN status' = "lose" /\ UNCHANGED lastColor
     ELSE status' = WinIfNone(s) /\ lastColor' = grid[s]
  /\ UNCHANGED draws

RandomCountStep(s) ==
  /\ mode = "random" /\ grid' = Without(s)
  /\ IF Cardinality(Rest(s)) > 1
     THEN \E n \in 0 .. Cardinality(Rest(s)) :
            /\ draws' = Append(draws, n)
            /\ status' = IF n = Cardinality(Rest(s)) THEN "lose" ELSE "ongoing"
     ELSE UNCHANGED draws /\ status' = WinIfNone(s)
  /\ UNCHANGED lastColor

PassthroughStep(s) ==
  /\ mode = "passthrough" /\ grid' = Without(s)
  /\ status' = WinIfNone(s)
  /\ UNCHANGED <<lastColor, draws>>

ProgressStep(s) ==
  /\ Playing
  /\ OddOneOutStep(s) \/ SameSquareStep(s) \/ RandomCountStep(s) \/ PassthroughStep(s)
  /\ popped' = Append(popped, grid[s])
  /\ UNCHANGED mode

LEMMA ProgressByMode ==
  ASSUME TypeOK, NEW s \in Left, Progress(s)
  PROVE  ProgressStep(s)
<1>1. PICK o \in Outcomes(s) :
        grid' = o.grid /\ lastColor' = o.lastColor /\ status' = o.status /\ draws' = o.draws
  BY DEF Progress
<1>2. Playing /\ popped' = Append(popped, grid[s]) /\ UNCHANGED mode /\ mode \in Mode
  BY DEF Progress, TypeOK
<1>3. CASE mode = "odd-one-out"
  <2>1. o \in OddOneOut(s)
    BY <1>3 DEF Outcomes
  <2>. QED  BY <1>1, <1>2, <1>3, <2>1 DEF ProgressStep, OddOneOutStep, OddOneOut, Outcome
<1>4. CASE mode = "same-square"
  <2>1. o \in SameSquare(s)
    BY <1>4 DEF Outcomes
  <2>. QED  BY <1>1, <1>2, <1>4, <2>1 DEF ProgressStep, SameSquareStep, SameSquare, Outcome
<1>5. CASE mode = "random"
  <2>1. o \in RandomCount(s)
    BY <1>5 DEF Outcomes
  <2>. QED  BY <1>1, <1>2, <1>5, <2>1 DEF ProgressStep, RandomCountStep, RandomCount, Outcome
<1>6. CASE mode = "passthrough"
  <2>1. o \in Passthrough(s)
    BY <1>6 DEF Outcomes
  <2>. QED  BY <1>1, <1>2, <1>6, <2>1 DEF ProgressStep, PassthroughStep, Passthrough, Outcome
<1>. QED  BY <1>2, <1>3, <1>4, <1>5, <1>6 DEF Mode

(* A click takes one square away, and is remembered.                        *)
LEMMA ClickFacts ==
  ASSUME TypeOK, NEW s \in Left, ProgressStep(s)
  PROVE  /\ mode' = mode /\ status \in {"ready", "ongoing"}
         /\ status' \in {"ongoing", "win", "lose"}
         /\ Left' = Rest(s) /\ grid' \in [Rest(s) -> Color]
         /\ mode # "odd-one-out" => grid' = Without(s)
         /\ grid[s] \in Color /\ popped \in Seq(Color) /\ popped' = Append(popped, grid[s])
         /\ TypeOK'
<1>1. /\ mode' = mode /\ status \in {"ready", "ongoing"} /\ mode \in Mode
      /\ Left \in SUBSET Square /\ grid \in [Left -> Color] /\ draws \in Seq(Nat)
      /\ lastColor \in Color \union {NoColor}
      /\ popped \in Seq(Color) /\ popped' = Append(popped, grid[s])
  BY DEF ProgressStep, Playing, TypeOK
<1>2. Rest(s) \in SUBSET Left /\ Rest(s) \in SUBSET Square
  BY <1>1 DEF Rest
<1>3. Without(s) \in [Rest(s) -> Color] /\ grid[s] \in Color
  BY <1>1, <1>2 DEF Without
<1>4. mode # "odd-one-out" => grid' = Without(s)
  BY DEF ProgressStep, OddOneOutStep, SameSquareStep, RandomCountStep, PassthroughStep
<1>5. mode = "odd-one-out" => OddOneOutStep(s)
  BY DEF ProgressStep, SameSquareStep, RandomCountStep, PassthroughStep
<1>6. grid' \in [Rest(s) -> Color]
  BY <1>2, <1>3, <1>4, <1>5, OneIsOdd DEF OddOneOutStep
<1>7. Left' = Rest(s)
  BY <1>6 DEF Left
<1>8. status' \in {"ongoing", "win", "lose"}
  <2>1. WinIfNone(s) \in {"ongoing", "win"}
    BY DEF WinIfNone
  <2>2. CASE OddOneOutStep(s)
    BY <2>1, <2>2 DEF OddOneOutStep
  <2>3. CASE SameSquareStep(s)
    BY <2>1, <2>3 DEF SameSquareStep
  <2>4. CASE RandomCountStep(s)
    BY <2>1, <2>4 DEF RandomCountStep
  <2>5. CASE PassthroughStep(s)
    BY <2>1, <2>5 DEF PassthroughStep
  <2>. QED  BY <2>2, <2>3, <2>4, <2>5 DEF ProgressStep
<1>9. lastColor' \in Color \union {NoColor}
  BY <1>1, <1>3 DEF ProgressStep, OddOneOutStep, SameSquareStep, RandomCountStep, PassthroughStep
<1>10. draws' \in Seq(Nat)
  <2>1. CASE mode # "random"
    BY <1>1, <2>1 DEF ProgressStep, OddOneOutStep, SameSquareStep, RandomCountStep, PassthroughStep
  <2>2. CASE mode = "random"
    <3>1. RandomCountStep(s)
      BY <2>2 DEF ProgressStep, OddOneOutStep, SameSquareStep, PassthroughStep
    <3>2. draws' = draws \/ \E n \in Nat : draws' = Append(draws, n)
      <4>1. Cardinality(Rest(s)) \in Nat
        BY SquaresCounted
      <4>2. \A n \in 0 .. Cardinality(Rest(s)) : n \in Nat
        BY <4>1
      <4>. QED  BY <3>1, <4>2 DEF RandomCountStep
    <3>3. ASSUME NEW n \in Nat PROVE Append(draws, n) \in Seq(Nat)
      BY <1>1, AppendProperties
    <3>. QED  BY <1>1, <3>2, <3>3
  <2>. QED  BY <2>1, <2>2
<1>11. popped' \in Seq(Color) /\ Len(popped') = NumSquares - Cardinality(Left')
  <2>1. popped' \in Seq(Color) /\ Len(popped') = Len(popped) + 1
    BY <1>1, <1>3, AppendProperties
  <2>2. /\ NumSquares \in Nat /\ Len(popped) \in Nat
        /\ Cardinality(Rest(s)) = NumSquares - Len(popped) - 1
    BY SquaresCounted
  <2>3. Cardinality(Left') = NumSquares - Len(popped) - 1
    BY <1>7, <2>2
  <2>. QED  BY <2>1, <2>2, <2>3
<1>12. TypeOK'
  <2>1. Left' \subseteq Square /\ grid' \in [Left' -> Color] /\ mode' \in Mode
    BY <1>1, <1>2, <1>6, <1>7
  <2>2. status' \in {"ready", "ongoing", "win", "lose"}
    BY <1>8
  <2>3. NumSquares' = NumSquares
    BY DEF NumSquares
  <2>. QED  BY <1>9, <1>10, <1>11, <2>1, <2>2, <2>3 DEF TypeOK
<1>. QED  BY <1>1, <1>3, <1>4, <1>6, <1>7, <1>8, <1>12

(* A game is won with its last square and never lost with it.               *)
LEMMA ClickEnds ==
  ASSUME TypeOK, NEW s \in Left, ProgressStep(s)
  PROVE  EndsFitGame'
<1>1. mode' = mode /\ Left' = Rest(s)
  BY ClickFacts
<1>2. WinIfNone(s) = IF Rest(s) = {} THEN "win" ELSE "ongoing"
  BY DEF WinIfNone
<1>3. \A c : SomeLeft(s, c) => Rest(s) # {}
  BY DEF SomeLeft
<1>4. CASE OddOneOutStep(s)
  BY <1>1, <1>2, <1>3, <1>4 DEF OddOneOutStep, EndsFitGame
<1>5. CASE SameSquareStep(s)
  BY <1>1, <1>2, <1>3, <1>5 DEF SameSquareStep, EndsFitGame
<1>6. CASE RandomCountStep(s)
  <2>1. mode = "random"
    BY <1>6 DEF RandomCountStep
  <2>2. CASE Cardinality(Rest(s)) > 1
    <3>1. Rest(s) # {}
      <4>1. (Rest(s) = {} <=> Cardinality(Rest(s)) = 0)
        BY SquaresCounted
      <4>. QED  BY <2>2, <4>1
    <3>2. status' \in {"lose", "ongoing"}
      BY <1>6, <2>2 DEF RandomCountStep
    <3>. QED  BY <1>1, <2>1, <2>2, <3>1, <3>2 DEF EndsFitGame
  <2>3. CASE ~(Cardinality(Rest(s)) > 1)
    <3>1. status' = WinIfNone(s)
      BY <1>6, <2>3 DEF RandomCountStep
    <3>. QED  BY <1>1, <1>2, <3>1 DEF EndsFitGame
  <2>. QED  BY <2>2, <2>3
<1>7. CASE PassthroughStep(s)
  BY <1>1, <1>2, <1>7 DEF PassthroughStep, EndsFitGame
<1>. QED  BY <1>4, <1>5, <1>6, <1>7 DEF ProgressStep

(* Odd One Out lays out what is left again, unless one square is left.      *)
LEMMA ClickLeavesOdd ==
  ASSUME TypeOK, NEW s \in Left, ProgressStep(s)
  PROVE  OddOneExists'
<1> SUFFICES ASSUME mode = "odd-one-out", status' \in {"ready", "ongoing"}, Rest(s) # {}
             PROVE  \E o \in Rest(s) : \A t \in Rest(s) \ {o} : grid'[t] # grid'[o]
  BY ClickFacts DEF OddOneExists, Playing
<1>1. OddOneOutStep(s) /\ status' = "ongoing" /\ Rest(s) \in SUBSET Square
  BY ClickFacts, SquaresCounted DEF ProgressStep, SameSquareStep, RandomCountStep, PassthroughStep
<1>2. CASE Cardinality(Rest(s)) > 1
  <2>1. grid' \in GenSquares(Rest(s))
    BY <1>1, <1>2 DEF OddOneOutStep
  <2>. QED  BY <1>1, <2>1, OneIsOdd
<1>3. CASE ~(Cardinality(Rest(s)) > 1)
  <2>1. Cardinality(Rest(s)) \in Nat /\ Cardinality(Rest(s)) # 0
    BY SquaresCounted
  <2>2. Cardinality(Rest(s)) = 1
    BY <1>3, <2>1
  <2>3. PICK t : Rest(s) = {t}
    BY <2>2, SquaresCounted
  <2>. QED  BY <2>3
<1>. QED  BY <1>2, <1>3

(* Gleich is lost when the last square's colour was left, and no sequence    *)
(* before it was broken: the game would have been over.                     *)
LEMMA ClickIsFair ==
  ASSUME RulesInv, NEW s \in Left, ProgressStep(s)
  PROVE  LastKept' /\ GleichIsFair'
<1> DEFINE n == Len(popped)
<1>0. /\ mode' = mode /\ status \in {"ready", "ongoing"} /\ status' \in {"ongoing", "win", "lose"}
      /\ Left' = Rest(s) /\ grid[s] \in Color
      /\ popped \in Seq(Color) /\ popped' = Append(popped, grid[s])
  BY ClickFacts DEF RulesInv
<1> SUFFICES ASSUME mode = "same-square" PROVE LastKept' /\ GleichIsFair'
  BY <1>0 DEF LastKept, GleichIsFair
<1>1. /\ SameSquareStep(s) /\ \A t \in Rest(s) : grid'[t] = grid[t] /\ t \in Left
  BY DEF ProgressStep, OddOneOutStep, SameSquareStep, RandomCountStep, PassthroughStep, Without, Rest
<1>2. /\ n \in Nat /\ Len(popped') = n + 1
      /\ \A i \in 1 .. n : popped'[i] = popped[i]
      /\ popped'[n + 1] = grid[s]
  BY <1>0, AppendProperties
<1>3. \A i \in 1 .. n + 1 : i \in 1 .. n \/ i = n + 1
  BY <1>2
<1>4. 1 .. n \subseteq 1 .. n + 1
  BY <1>2
<1>5. IF status = "ready" THEN n = 0 /\ lastColor = NoColor ELSE n \in 1 .. n /\ lastColor = popped[n]
  <2>1. CASE status = "ready"
    BY <2>1 DEF RulesInv, Fresh
  <2>2. CASE status = "ongoing"
    <3>1. popped # <<>> /\ lastColor = popped[n]
      BY <2>2 DEF RulesInv, Fresh, LastKept
    <3>2. n # 0
      BY <1>0, <3>1
    <3>. QED  BY <1>2, <2>2, <3>1, <3>2
  <2>. QED  BY <1>0, <2>1, <2>2
<1>6. \A i \in 1 .. n, t \in Left : popped[i] = grid[t] => popped[i] = lastColor
  <2>1. CASE status = "ready"
    <3>1. 1 .. n = {}
      BY <1>5, <2>1
    <3>. QED  BY <3>1
  <2>2. CASE status = "ongoing"
    BY <1>5, <2>2 DEF RulesInv, GleichIsFair
  <2>. QED  BY <1>0, <2>1, <2>2
<1>7. (\E i \in 1 .. Len(popped'), t \in Left' : popped'[i] = grid'[t] /\ popped'[Len(popped')] # popped'[i])
      <=> \E i \in 1 .. n, t \in Rest(s) : popped[i] = grid[t] /\ grid[s] # popped[i]
  <2>1. /\ Len(popped') = n + 1 /\ popped'[Len(popped')] = grid[s]
    BY <1>2
  <2>2. (\E i \in 1 .. n + 1, t \in Rest(s) : popped'[i] = grid'[t] /\ grid[s] # popped'[i])
        <=> \E i \in 1 .. n, t \in Rest(s) : popped[i] = grid[t] /\ grid[s] # popped[i]
    BY <1>1, <1>2, <1>3, <1>4
  <2>. QED  BY <1>0, <2>1, <2>2
<1> HIDE DEF n
<1>8. CASE lastColor \notin {NoColor, grid[s]} /\ SomeLeft(s, lastColor)
  <2>1. status' = "lose"
    BY <1>1, <1>8 DEF SameSquareStep
  <2>2. \E i \in 1 .. n, t \in Rest(s) : popped[i] = grid[t] /\ grid[s] # popped[i]
    <3>1. n \in 1 .. n /\ lastColor = popped[n]
      BY <1>5, <1>8
    <3>. QED  BY <1>8, <3>1 DEF SomeLeft
  <2>. QED  BY <1>7, <2>1, <2>2 DEF LastKept, GleichIsFair
<1>9. CASE ~(lastColor \notin {NoColor, grid[s]} /\ SomeLeft(s, lastColor))
  <2>1. status' # "lose" /\ lastColor' = grid[s]
    BY <1>1, <1>9 DEF SameSquareStep, WinIfNone
  <2>2. ~\E i \in 1 .. n, t \in Rest(s) : popped[i] = grid[t] /\ grid[s] # popped[i]
    <3> SUFFICES ASSUME NEW i \in 1 .. n, NEW t \in Rest(s), popped[i] = grid[t], grid[s] # popped[i]
                 PROVE  FALSE
      OBVIOUS
    <3>1. popped[i] = lastColor /\ SomeLeft(s, lastColor)
      BY <1>1, <1>6 DEF SomeLeft
    <3>2. grid[t] \in Color
      BY <1>1 DEF RulesInv, TypeOK
    <3>3. lastColor # NoColor
      BY <3>1, <3>2, GamemodesAssumption DEF GamemodesAssumption
    <3>. QED  BY <1>9, <3>1, <3>3
  <2>3. lastColor' = popped'[Len(popped')]
    BY <1>2, <2>1
  <2>. QED  BY <1>7, <2>1, <2>2, <2>3 DEF LastKept, GleichIsFair
<1>. QED  BY <1>8, <1>9

(* Mystery draws while more than one square is left after a click.          *)
LEMMA ClickDraws ==
  ASSUME RulesInv, NEW s \in Left, ProgressStep(s)
  PROVE  Drawn'
<1> DEFINE n == NumSquares
           k == Len(popped)
           lost == (status' = "lose")
<1>0. mode' = mode
  BY ClickFacts DEF RulesInv
<1> SUFFICES ASSUME mode = "random" PROVE Drawn'
  BY <1>0 DEF Drawn
<1>1. /\ n \in Nat /\ n > 1 /\ k \in Nat
      /\ Cardinality(Rest(s)) = n - k - 1 /\ Cardinality(Rest(s)) \in Nat
  BY SquaresCounted DEF RulesInv
<1>2. Len(popped') = k + 1
  BY ClickFacts, AppendProperties DEF RulesInv
<1>3. n' = n /\ draws \in Seq(Nat) /\ Len(draws) \in Nat
  BY DEF NumSquares, RulesInv, TypeOK
<1>4. status \in {"ready", "ongoing"} /\ RandomCountStep(s)
  BY DEF ProgressStep, Playing, OddOneOutStep, SameSquareStep, RandomCountStep, PassthroughStep
<1>5. /\ Len(draws) = IF k <= n - 2 THEN k ELSE n - 2
      /\ \A i \in 1 .. Len(draws) : draws[i] # n - i
  BY <1>4 DEF RulesInv, Drawn
<1>6. CASE n - k - 1 > 1
  <2>1. PICK d \in 0 .. n - k - 1 :
          draws' = Append(draws, d) /\ status' = IF d = n - k - 1 THEN "lose" ELSE "ongoing"
    BY <1>1, <1>4, <1>6 DEF RandomCountStep
  <2>2. lost <=> d = n - k - 1
    BY <2>1
  <2> HIDE DEF n, k, lost
  <2>3. Len(draws) = k /\ k + 1 <= n - 2 /\ d \in Nat
    BY <1>1, <1>5, <1>6
  <2>4. /\ Len(draws') = k + 1 /\ draws'[k + 1] = d
        /\ \A i \in 1 .. k : draws'[i] = draws[i]
    BY <1>3, <2>1, <2>3, AppendProperties
  <2>5. ASSUME NEW i \in 1 .. k + 1 PROVE draws'[i] = n - i <=> lost /\ i = k + 1
    <3>1. CASE i \in 1 .. k
      <4>1. draws'[i] = draws[i] /\ draws[i] # n - i /\ i # k + 1
        BY <1>1, <1>5, <2>3, <2>4, <3>1
      <4>. QED  BY <4>1
    <3>2. CASE i = k + 1
      <4>1. n - i = n - k - 1 /\ draws'[i] = d
        BY <1>1, <2>4, <3>2
      <4>. QED  BY <2>2, <3>2, <4>1
    <3>. QED  BY <1>1, <3>1, <3>2
  <2>6. Len(draws') = IF Len(popped') <= n - 2 THEN Len(popped') ELSE n - 2
    BY <1>2, <2>3, <2>4
  <2>. QED  BY <1>3, <2>4, <2>5, <2>6 DEF Drawn, n, lost
<1>7. CASE ~(n - k - 1 > 1)
  <2>1. draws' = draws /\ ~lost
    BY <1>1, <1>4, <1>7 DEF RandomCountStep, WinIfNone
  <2>2. Len(draws) = n - 2 /\ Len(draws) = IF k + 1 <= n - 2 THEN k + 1 ELSE n - 2
    <3> HIDE DEF n, k, lost
    <3>. QED  BY <1>1, <1>5, <1>7
  <2>. QED  BY <1>2, <1>3, <1>5, <2>1, <2>2 DEF Drawn
<1>. QED  BY <1>6, <1>7

(* The rules hold whatever is clicked, chosen and played.                   *)
LEMMA ProgressRules ==
  ASSUME RulesInv, NEW s \in Left, Progress(s)
  PROVE  RulesInv'
<1>0. ProgressStep(s)
  BY ProgressByMode DEF RulesInv
<1>1. TypeOK' /\ popped' = Append(popped, grid[s]) /\ status' # "ready"
  BY <1>0, ClickFacts DEF RulesInv
<1>2. popped' # <<>>
  BY <1>0, <1>1, ClickFacts, AppendProperties DEF RulesInv
<1>3. Fresh'
  BY <1>1, <1>2 DEF Fresh
<1>4. EndsFitGame' /\ OddOneExists'
  BY <1>0, ClickEnds, ClickLeavesOdd DEF RulesInv
<1>5. LastKept' /\ GleichIsFair' /\ Drawn'
  BY <1>0, ClickIsFair, ClickDraws
<1>. QED  BY <1>1, <1>3, <1>4, <1>5 DEF RulesInv

(* What the rules' instances remember fits the game's clicks, on any board   *)
(* and in any order of games and gamemodes (gamemode/*.ts).                  *)
THEOREM RulesInvariant == Spec => []RulesInv
<1>1. RulesInv /\ [Next]_vars => RulesInv'
  <2> SUFFICES ASSUME RulesInv, [Next]_vars PROVE RulesInv'
    OBVIOUS
  <2>1. ASSUME NEW m \in Mode, SwitchReady(m) PROVE RulesInv'
    BY <2>1, SwitchRules
  <2>2. ASSUME NEW m \in Mode, NewGame(m) PROVE RulesInv'
    BY <2>2, NewGameRules
  <2>3. ASSUME NEW s \in Left, Progress(s) PROVE RulesInv'
    BY <2>3, ProgressRules
  <2>4. CASE UNCHANGED vars
    BY <2>4 DEF vars, RulesInv, TypeOK, Fresh, EndsFitGame, OddOneExists, LastKept, GleichIsFair,
                Drawn, Left, Playing, NumSquares
  <2>. QED  BY <2>1, <2>2, <2>3, <2>4 DEF Next
<1>. QED  BY <1>1, InitRules, PTL DEF Spec

(* Every board that is played has a square to go on with: the odd one, one   *)
(* of the colour that is remembered, or any.                                *)
LEMMA SquareToGoOnWith ==
  ASSUME RulesInv, Playing
  PROVE  \E s \in Left : \E o \in Outcomes(s) : o.status # "lose"
<1>1. /\ mode \in Mode /\ Left # {} /\ TypeOK
      /\ \A s \in Left : /\ Rest(s) \in SUBSET Square /\ Cardinality(Rest(s)) \in Nat
  BY SquaresCounted DEF RulesInv, TypeOK, EndsFitGame, Playing
<1>2. \A s : WinIfNone(s) # "lose"
  BY DEF WinIfNone
<1>3. CASE mode = "odd-one-out"
  <2>1. PICK s \in Left : \A t \in Left \ {s} : grid[t] # grid[s]
    BY <1>1, <1>3 DEF RulesInv, OddOneExists
  <2>2. ~SomeLeft(s, grid[s])
    BY <2>1 DEF SomeLeft, Rest
  <2>. DEFINE laidOut == WinIfNone(s) = "ongoing" /\ Cardinality(Rest(s)) > 1
              boards == IF laidOut THEN GenSquares(Rest(s)) ELSE {Without(s)}
  <2>3. PICK g \in boards : TRUE
    BY <1>1, CanLayOut
  <2>4. Outcomes(s) = {Outcome(h, lastColor, WinIfNone(s), draws) : h \in boards}
    BY <1>3, <2>2 DEF Outcomes, OddOneOut
  <2>. HIDE DEF boards
  <2>5. Outcome(g, lastColor, WinIfNone(s), draws) \in Outcomes(s)
    BY <2>3, <2>4
  <2>. QED  BY <1>2, <2>5 DEF Outcome
<1>4. CASE mode = "same-square"
  <2>1. PICK s \in Left : (\E t \in Left : grid[t] = lastColor) => grid[s] = lastColor
    BY <1>1
  <2>2. ~(lastColor \notin {NoColor, grid[s]} /\ SomeLeft(s, lastColor))
    BY <2>1 DEF SomeLeft, Rest
  <2>3. Outcome(Without(s), grid[s], WinIfNone(s), draws) \in Outcomes(s)
    BY <1>4, <2>2 DEF Outcomes, SameSquare
  <2>. QED  BY <1>2, <2>3 DEF Outcome
<1>5. CASE mode = "random"
  <2>1. PICK s \in Left : TRUE
    BY <1>1
  <2>2. CASE Cardinality(Rest(s)) > 1
    <3>1. 0 \in 0 .. Cardinality(Rest(s)) /\ 0 # Cardinality(Rest(s))
      BY <1>1, <2>2
    <3>2. Outcome(Without(s), lastColor, "ongoing", Append(draws, 0)) \in Outcomes(s)
      BY <1>5, <2>2, <3>1 DEF Outcomes, RandomCount
    <3>. QED  BY <3>2 DEF Outcome
  <2>3. CASE ~(Cardinality(Rest(s)) > 1)
    <3>1. Outcome(Without(s), lastColor, WinIfNone(s), draws) \in Outcomes(s)
      BY <1>5, <2>3 DEF Outcomes, RandomCount
    <3>. QED  BY <1>2, <3>1 DEF Outcome
  <2>. QED  BY <2>2, <2>3
<1>6. CASE mode = "passthrough"
  <2>1. PICK s \in Left : TRUE
    BY <1>1
  <2>2. Outcome(Without(s), lastColor, WinIfNone(s), draws) \in Outcomes(s)
    BY <1>6 DEF Outcomes, Passthrough
  <2>. QED  BY <1>2, <2>2 DEF Outcome
<1>. QED  BY <1>1, <1>3, <1>4, <1>5, <1>6 DEF Mode

(* In Odd One Out one square has a colour no other has.                     *)
THEOREM OneIsAlwaysOdd == Spec => []OddOneExists
<1>1. RulesInv => OddOneExists
  BY DEF RulesInv
<1>. QED  BY <1>1, RulesInvariant, PTL

(* Gleich is lost exactly when a sequence of one colour was not maximal.     *)
THEOREM GleichFollowsRule == Spec => []GleichIsFair
<1>1. RulesInv => GleichIsFair
  BY DEF RulesInv
<1>. QED  BY <1>1, RulesInvariant, PTL

(* A game is won exactly with its last square; what Game takes for granted.  *)
THEOREM EndsAsGameExpects == Spec => []EndsFitGame
<1>1. RulesInv => EndsFitGame
  BY DEF RulesInv
<1>. QED  BY <1>1, RulesInvariant, PTL

(* No board is a dead end, whatever was laid out, chosen and clicked: while a *)
(* game goes on, some square can be removed without losing it               *)
(* (oddOneOut.ts:17-53, sameSquare.ts:19-40, randomCount.ts:17-22).          *)
THEOREM NoDeadEnds == Spec => []NeverHopeless
<1>1. RulesInv => NeverHopeless
  BY SquareToGoOnWith DEF NeverHopeless
<1>. QED  BY <1>1, RulesInvariant, PTL

(* findwin finds the losing draw, and takes as many as a won game does.      *)
THEOREM FindwinPlaysMystery == Spec => []FindwinAgrees
<1>1. RulesInv => FindwinAgrees
  <2> SUFFICES ASSUME RulesInv, mode = "random" PROVE FindwinAgrees
    BY DEF FindwinAgrees
  <2> DEFINE n == NumSquares
             k == Len(popped)
             lost == (status = "lose")
             L == {i \in 1 .. Len(draws) : RemainingAfter(i - 1) > 1 /\ draws[i] = RemainingAfter(i - 1)}
  <2>1. n \in Nat /\ n > 1 /\ k \in Nat /\ Cardinality(Left) = n - k /\ Len(draws) \in Nat
    BY SquaresCounted DEF RulesInv, TypeOK
  <2>2. /\ Len(draws) = IF k <= n - 2 THEN k ELSE n - 2
        /\ \A i \in 1 .. Len(draws) : draws[i] = n - i <=> lost /\ i = Len(draws)
    BY DEF RulesInv, Drawn
  <2>3. \A i \in 1 .. Len(draws) : RemainingAfter(i - 1) = n - i /\ n - i > 1
    <3> HIDE DEF k
    <3>. QED  BY <2>1, <2>2 DEF RemainingAfter
  <2>4. \A i : i \in L <=> i \in 1 .. Len(draws) /\ lost /\ i = Len(draws)
    <3> HIDE DEF lost
    <3>. QED  BY <2>2, <2>3
  <2>5. LosingDraw(draws) = IF L = {} THEN 0 ELSE CHOOSE i \in L : \A j \in L : i <= j
    BY DEF LosingDraw
  <2> HIDE DEF L
  <2>6. CASE ~lost
    <3>1. L = {}
      BY <2>4, <2>6
    <3>2. LosingDraw(draws) = 0
      BY <2>5, <3>1
    <3>3. status = "win" => Len(draws) = FullGame
      <4> SUFFICES ASSUME status = "win" PROVE Len(draws) = FullGame
        OBVIOUS
      <4>1. n - k = 0
        <5>1. Left = {}
          BY DEF RulesInv, EndsFitGame
        <5>. QED  BY <2>1, <5>1, FS_EmptySet
      <4>2. Len(draws) = n - 2
        <5> HIDE DEF n, k, lost
        <5>. QED  BY <2>1, <2>2, <4>1
      <4>3. {i \in 0 .. n - 2 : RemainingAfter(i) > 1} = 0 .. n - 3
        <5>1. ASSUME NEW i \in 0 .. n - 2 PROVE RemainingAfter(i) > 1 <=> i <= n - 3
          <6>1. RemainingAfter(i) = n - i - 1
            BY DEF RemainingAfter
          <6> HIDE DEF n
          <6>. QED  BY <2>1, <6>1
        <5> HIDE DEF n
        <5>. QED  BY <2>1, <5>1
      <4>4. FullGame = Cardinality(0 .. n - 3)
        BY <4>3 DEF FullGame
      <4>5. Cardinality(0 .. n - 3) = n - 2
        <5> HIDE DEF n, k, lost
        <5>1. 0 \in Int /\ n - 3 \in Int
          BY <2>1
        <5>2. Cardinality(0 .. n - 3) = IF 0 > n - 3 THEN 0 ELSE (n - 3) - 0 + 1
          BY <5>1, FS_Interval
        <5>. QED  BY <2>1, <5>2
      <4>. QED  BY <4>2, <4>4, <4>5
    <3>. QED  BY <2>6, <3>2, <3>3 DEF FindwinAgrees
  <2>7. CASE lost
    <3>1. Cardinality(Left) > 1 /\ popped # <<>>
      BY <2>7 DEF RulesInv, EndsFitGame, Fresh
    <3>2. k # 0
      <4>1. popped \in Seq(Color)
        BY DEF RulesInv, TypeOK
      <4>. QED  BY <3>1, <4>1
    <3>3. Len(draws) \in 1 .. Len(draws)
      <4>1. Cardinality(Left) > 1
        BY <3>1
      <4> HIDE DEF n, k, lost
      <4>. QED  BY <2>1, <2>2, <3>2, <4>1
    <3>4. L = {Len(draws)}
      BY <2>4, <2>7, <3>3
    <3>5. (CHOOSE i \in L : \A j \in L : i <= j) = Len(draws)
      <4>1. \A i : i \in L /\ (\A j \in L : i <= j) <=> i = Len(draws)
        <5>1. Len(draws) <= Len(draws)
          BY <2>1
        <5>. QED  BY <3>4, <5>1
      <4>. QED  BY <4>1
    <3>6. LosingDraw(draws) = Len(draws)
      BY <2>5, <3>4, <3>5
    <3>. QED  BY <2>7, <3>6 DEF FindwinAgrees
  <2>. QED  BY <2>6, <2>7
<1>. QED  BY <1>1, RulesInvariant, PTL

-----------------------------------------------------------------------------
(* sketch.Add stays within its width, and is monotonic.                     *)
LEMMA SaturatedFacts ==
  ASSUME NEW a \in Uint, NEW b \in Nat, NEW x \in Uint, NEW y \in Nat, a <= x, b <= y
  PROVE  /\ Saturated(a, b) \in Uint
         /\ a <= Saturated(a, b)
         /\ Saturated(a, b) <= Saturated(x, y)
  BY DifficultyAssumption DEF DifficultyAssumption, Uint, Saturated

(* What a window does to a difficulty stays within its width, and is         *)
(* monotonic in the difficulty and in the requests: few requests never cost  *)
(* more than many, on either side of the limit.                             *)
LEMMA DecayedFacts ==
  ASSUME NEW d \in Uint, NEW n \in Uint, NEW e \in Uint, NEW m \in Uint, d <= e, n <= m
  PROVE  /\ Decayed(d, n) \in Uint
         /\ Decayed(d, n) <= Decayed(e, m)
<1> USE DifficultyAssumption DEF DifficultyAssumption, Uint, Decay
<1>1. CASE m <= Decay
  BY <1>1 DEF Decayed, Saturated, Lowered
<1>2. CASE n <= Decay /\ ~(m <= Decay)
  <2>1. Decayed(d, n) \in Uint /\ Decayed(d, n) <= d
    BY <1>2 DEF Decayed, Saturated, Lowered
  <2>2. m - Decay \in Uint
    BY <1>2
  <2>3. Growth[m - Decay] \in Uint
    BY <2>2
  <2> DEFINE g == Growth[m - Decay]
  <2>4. Decayed(e, m) = Saturated(e, g)
    BY <1>2 DEF Decayed
  <2> HIDE DEF g
  <2>5. g \in Nat
    BY <2>3 DEF g
  <2>6. Decayed(e, m) \in Uint /\ e <= Decayed(e, m)
    BY <2>4, <2>5 DEF Saturated
  <2>. QED  BY <2>1, <2>6
<1>3. CASE ~(n <= Decay)
  <2>1. n - Decay \in Uint /\ m - Decay \in Uint /\ n - Decay <= m - Decay
    BY <1>3
  <2>2. Growth[n - Decay] \in Uint /\ Growth[m - Decay] \in Uint
        /\ Growth[n - Decay] <= Growth[m - Decay]
    BY <2>1
  <2> DEFINE f == Growth[n - Decay]
             g == Growth[m - Decay]
  <2>3. Decayed(d, n) = Saturated(d, f) /\ Decayed(e, m) = Saturated(e, g)
    BY <1>3 DEF Decayed
  <2> HIDE DEF f, g
  <2>4. f \in Nat /\ g \in Nat /\ f <= g
    BY <2>2 DEF f, g
  <2>. QED  BY <2>3, <2>4 DEF Saturated
<1>. QED  BY <1>1, <1>2, <1>3

-----------------------------------------------------------------------------
(* Every cell is at least each of its clients' own.                         *)
CellsAbove ==
  \A r \in Row, c \in Client :
    /\ reqs[r][Pos[r][c]] >= ownReqs[c]
    /\ decays[r][Pos[r][c]] >= ownDecays[c]

DifficultyInv == DifficultyTypeOK /\ CellsAbove

(* Sketches begin with zeros.                                               *)
LEMMA InitAbove == DifficultyInit => DifficultyInv
<1> SUFFICES ASSUME DifficultyInit PROVE DifficultyInv
  OBVIOUS
<1>1. 0 \in Uint
  BY DifficultyAssumption DEF DifficultyAssumption, Uint
<1>2. DifficultyTypeOK
  BY <1>1 DEF DifficultyInit, DifficultyTypeOK
<1>3. CellsAbove
  BY DifficultyAssumption DEF DifficultyAssumption, DifficultyInit, CellsAbove
<1>. QED  BY <1>2, <1>3 DEF DifficultyInv

(* A request raises one cell of each row, its client's, as much as it       *)
(* raises what is the client's own.                                         *)
LEMMA CreateAbove ==
  ASSUME DifficultyInv, NEW c \in Client, Create(c)
  PROVE  DifficultyInv'
<1> USE DEF DifficultyInv, DifficultyTypeOK
<1>1. PerRequest \in Nat
  BY DEF PerRequest
<1>2. \A r \in Row : Pos[r][c] \in Cell
  BY DifficultyAssumption DEF DifficultyAssumption
<1>3. \A r \in Row, i \in Cell :
        reqs'[r][i] = IF i = Pos[r][c] THEN Saturated(reqs[r][i], PerRequest) ELSE reqs[r][i]
  BY <1>2 DEF Create
<1>4. \A d \in Client :
        ownReqs'[d] = IF d = c THEN Saturated(ownReqs[d], PerRequest) ELSE ownReqs[d]
  BY DEF Create
<1>5. reqs' \in [Row -> [Cell -> Uint]]
  <2>1. ASSUME NEW r \in Row
        PROVE  [reqs[r] EXCEPT ![Pos[r][c]] = Saturated(@, PerRequest)] \in [Cell -> Uint]
    <3>1. reqs[r] \in [Cell -> Uint] /\ reqs[r][Pos[r][c]] \in Uint
      BY <1>2
    <3>2. Saturated(reqs[r][Pos[r][c]], PerRequest) \in Uint
      BY <3>1, <1>1, SaturatedFacts DEF Uint
    <3>. QED  BY <3>1, <3>2
  <2>. QED  BY <2>1 DEF Create
<1>6. ownReqs' \in [Client -> Uint]
  <2>1. Saturated(ownReqs[c], PerRequest) \in Uint
    BY <1>1, SaturatedFacts DEF Uint
  <2>. QED  BY <2>1 DEF Create
<1>7. UNCHANGED <<decays, ownDecays>>
  BY DEF Create
<1>8. DifficultyTypeOK'
  BY <1>5, <1>6, <1>7
<1>9. ASSUME NEW r \in Row, NEW d \in Client
      PROVE  reqs'[r][Pos[r][d]] >= ownReqs'[d]
  <2>1. Pos[r][d] \in Cell
    BY DifficultyAssumption DEF DifficultyAssumption
  <2>2. reqs[r][Pos[r][d]] \in Uint /\ ownReqs[d] \in Uint /\ ownReqs[d] <= reqs[r][Pos[r][d]]
    BY <2>1 DEF CellsAbove, Uint
  <2> DEFINE cell == reqs[r][Pos[r][d]]
             own == ownReqs[d]
  <2>a. cell \in Uint /\ own \in Uint /\ own <= cell /\ cell <= cell /\ PerRequest <= PerRequest
    BY <2>2, <1>1 DEF Uint
  <2> HIDE DEF cell, own
  <2>b. /\ cell <= Saturated(cell, PerRequest)
        /\ Saturated(cell, PerRequest) \in Uint
    BY <2>a, <1>1, SaturatedFacts
  <2>c. /\ Saturated(own, PerRequest) <= Saturated(cell, PerRequest)
        /\ Saturated(own, PerRequest) \in Uint
    BY <2>a, <1>1, SaturatedFacts
  <2>3. /\ reqs[r][Pos[r][d]] <= Saturated(reqs[r][Pos[r][d]], PerRequest)
        /\ Saturated(ownReqs[d], PerRequest) <= Saturated(reqs[r][Pos[r][d]], PerRequest)
        /\ Saturated(ownReqs[d], PerRequest) \in Uint
        /\ Saturated(reqs[r][Pos[r][d]], PerRequest) \in Uint
    BY <2>b, <2>c DEF cell, own
  <2>4. CASE d = c
    BY <2>1, <2>3, <2>4, <1>3, <1>4 DEF Uint
  <2>5. CASE d # c
    BY <2>1, <2>2, <2>3, <2>5, <1>3, <1>4 DEF Uint
  <2>. QED  BY <2>4, <2>5
<1>. QED  BY <1>7, <1>8, <1>9 DEF CellsAbove

(* A window treats a cell as it treats what is its clients' own.            *)
LEMMA TickAbove ==
  ASSUME DifficultyInv, Tick
  PROVE  DifficultyInv'
<1> USE DEF DifficultyInv, DifficultyTypeOK
<1>1. 0 \in Uint
  BY DifficultyAssumption DEF DifficultyAssumption, Uint
<1>2. ASSUME NEW r \in Row, NEW i \in Cell
      PROVE  Decayed(decays[r][i], reqs[r][i]) \in Uint
  <2>1. decays[r][i] \in Uint /\ reqs[r][i] \in Uint
    OBVIOUS
  <2>2. decays[r][i] <= decays[r][i] /\ reqs[r][i] <= reqs[r][i]
    BY <2>1 DEF Uint
  <2>. QED  BY <2>1, <2>2, DecayedFacts
<1>3. ASSUME NEW c \in Client
      PROVE  Decayed(ownDecays[c], ownReqs[c]) \in Uint
  <2>1. ownDecays[c] \in Uint /\ ownReqs[c] \in Uint
    OBVIOUS
  <2>2. ownDecays[c] <= ownDecays[c] /\ ownReqs[c] <= ownReqs[c]
    BY <2>1 DEF Uint
  <2>. QED  BY <2>1, <2>2, DecayedFacts
<1>4. decays' \in [Row -> [Cell -> Uint]] /\ ownDecays' \in [Client -> Uint]
  BY <1>2, <1>3 DEF Tick
<1>5. reqs' \in [Row -> [Cell -> Uint]] /\ ownReqs' \in [Client -> Uint]
  BY <1>1 DEF Tick
<1>6. ASSUME NEW r \in Row, NEW c \in Client
      PROVE  /\ reqs'[r][Pos[r][c]] >= ownReqs'[c]
             /\ decays'[r][Pos[r][c]] >= ownDecays'[c]
  <2>1. Pos[r][c] \in Cell
    BY DifficultyAssumption DEF DifficultyAssumption
  <2>2. reqs'[r][Pos[r][c]] = 0 /\ ownReqs'[c] = 0
    BY <2>1 DEF Tick
  <2>3. /\ {decays[r][Pos[r][c]], reqs[r][Pos[r][c]], ownDecays[c], ownReqs[c]} \subseteq Uint
        /\ ownDecays[c] <= decays[r][Pos[r][c]] /\ ownReqs[c] <= reqs[r][Pos[r][c]]
    BY <2>1 DEF CellsAbove, Uint
  <2>4. Decayed(ownDecays[c], ownReqs[c]) <= Decayed(decays[r][Pos[r][c]], reqs[r][Pos[r][c]])
    BY <2>3, DecayedFacts
  <2>5. /\ decays'[r][Pos[r][c]] = Decayed(decays[r][Pos[r][c]], reqs[r][Pos[r][c]])
        /\ ownDecays'[c] = Decayed(ownDecays[c], ownReqs[c])
    BY <2>1 DEF Tick
  <2>6. decays'[r][Pos[r][c]] \in Uint /\ ownDecays'[c] \in Uint
    BY <2>1, <1>4
  <2>. QED  BY <2>2, <2>4, <2>5, <2>6 DEF Uint
<1>. QED  BY <1>4, <1>5, <1>6 DEF CellsAbove

(* The type invariant, and that every cell is at least each of its clients'  *)
(* own (sketch.go:82-127, handler.go:61-77).                                *)
THEOREM DifficultyInvariant == DifficultySpec => []DifficultyInv
<1>1. DifficultyInit => DifficultyInv
  BY InitAbove
<1>2. DifficultyInv /\ [DifficultyNext]_dVars => DifficultyInv'
  <2> SUFFICES ASSUME DifficultyInv, [DifficultyNext]_dVars PROVE DifficultyInv'
    OBVIOUS
  <2>1. ASSUME NEW c \in Client, Create(c) PROVE DifficultyInv'
    BY <2>1, CreateAbove
  <2>2. CASE Tick
    BY <2>2, TickAbove
  <2>3. CASE UNCHANGED dVars
    BY <2>3 DEF dVars, DifficultyInv, DifficultyTypeOK, CellsAbove
  <2>. QED  BY <2>1, <2>2, <2>3 DEF DifficultyNext
<1>. QED  BY <1>1, <1>2, PTL DEF DifficultySpec

(* Nobody is set an easier challenge than its own requests earned, for any   *)
(* sharing of cells and any width of the counters (handler.go:66-77, 126).   *)
THEOREM NobodyTooEasy == DifficultySpec => []NeverTooEasy
<1>1. DifficultyInv => NeverTooEasy
  BY DEF DifficultyInv, CellsAbove, NeverTooEasy, Count
<1>. QED  BY <1>1, DifficultyInvariant, PTL

-----------------------------------------------------------------------------
(* Each worker of findwin tests counter after counter of its own range, and  *)
(* returns when no game fits in what is left of it.                         *)
SearchTypes ==
  /\ offset \in 0 .. MaxUint /\ search \in {"all", "encountered"}
  /\ next \in [Worker -> Nat] /\ running \in SUBSET Worker
  /\ \A p \in tested : p = <<p[1], p[2]>> /\ p[1] \in Worker /\ p[2] \in Nat

OwnRange ==
  \A i \in Worker :
    /\ Start(i) <= next[i]
    /\ \A c \in Nat : <<i, c>> \in tested =>
         Start(i) <= c /\ c < next[i] /\ InRange(c + Reads - 1, Limit(i))
    /\ search = "all" => \A c \in Start(i) .. next[i] - 1 : <<i, c>> \in tested

SearchEnds ==
  /\ reader = "reads" => \A i \in Worker \ running : ~InRange(next[i] + Reads - 1, Limit(i))
  /\ returned => running = {}

SearchInv == SearchTypes /\ OwnRange /\ SearchEnds

-----------------------------------------------------------------------------
(* Numbers have a least one.                                                *)
LEMMA LeastOf ==
  ASSUME NEW S \in SUBSET Nat, S # {}
  PROVE  \E n \in S : \A m \in S : n <= m
<1> DEFINE R == {p \in Nat \X Nat : p[1] < p[2]}
<1>1. IsWellFoundedOn(R, Nat)
  <2>1. OpToRel(<, Nat) = R
    BY DEF OpToRel
  <2>. QED  BY <2>1, NatLessThanWellFounded
<1>2. PICK n \in S : \A m \in S : ~(<<m, n>> \in R)
  <2> HIDE DEF R
  <2>. QED  BY <1>1, WFMin
<1>3. ASSUME NEW m \in S PROVE n <= m
  <2>1. m \in Nat /\ n \in Nat
    OBVIOUS
  <2>2. ~(m < n)
    BY <1>2, <2>1
  <2>. QED  BY <2>1, <2>2
<1>. QED  BY <1>3

(* Division and products, for the split of the counters.                    *)
LEMMA Divided ==
  ASSUME NEW d \in Nat, NEW p \in Nat \ {0}
  PROVE  /\ d \div p \in Nat /\ d % p \in 0 .. p - 1
         /\ d = p * (d \div p) + (d % p)
OBVIOUS

LEMMA Times ==
  ASSUME NEW a \in Nat, NEW b \in Nat, NEW w \in Nat, a < b
  PROVE  /\ a * w \in Nat /\ b * w \in Nat
         /\ (a + 1) * w = a * w + w /\ a * w + w <= b * w
OBVIOUS

(* What parallel() makes of the counters; Ends(i) is worker i's last one.    *)
Ends(i) == Start(i) + Workload + Comp(i) - 1

LEMMA SplitFacts ==
  ASSUME offset \in 0 .. MaxUint
  PROVE  /\ offset \in Nat /\ Workload \in Nat /\ Remainder \in 0 .. Procs - 1
         /\ Mask = offset + Procs * Workload + Remainder
         /\ \A i \in Worker : i \in Nat /\ Comp(i) \in {0, 1} /\ CompPrev(i) \in {0, 1}
         /\ \A i \in Worker : i * Workload \in Nat /\ Start(i) \in Nat /\ offset <= Start(i)
         /\ \A i \in Worker : Start(i) = offset + i * Workload + CompPrev(i)
<1>1. /\ Procs \in Nat \ {0} /\ MaxUint \in Nat /\ Mask \in Nat /\ Mask = MaxUint + 1
      /\ offset \in Nat /\ Domain \in Nat /\ Domain = Mask - offset
  BY FindWinAssumption DEF FindWinAssumption, Mask, Domain
<1>2. /\ Workload \in Nat /\ Remainder \in 0 .. Procs - 1
      /\ Domain = Procs * Workload + Remainder
  BY <1>1, Divided DEF Workload, Remainder
<1>3. Procs * Workload \in Nat
  BY <1>1, <1>2
<1>4. Mask = offset + Procs * Workload + Remainder
  BY <1>1, <1>2, <1>3
<1>5. \A i \in Worker : i \in Nat /\ Comp(i) \in {0, 1} /\ CompPrev(i) \in {0, 1}
  BY <1>1 DEF Worker, Comp, CompPrev
<1>6. \A i \in Worker : i * Workload \in Nat
  BY <1>2, <1>5
<1>7. ASSUME NEW i \in Worker PROVE Start(i) \in Nat /\ offset <= Start(i)
  BY <1>1, <1>5, <1>6 DEF Start
<1>. QED  BY <1>1, <1>2, <1>4, <1>5, <1>6, <1>7 DEF Start

(* A range ends before the next begins, or with its first counter; the last  *)
(* range ends before the last Remainder counters.                           *)
LEMMA RangesMeet ==
  ASSUME offset \in 0 .. MaxUint, NEW i \in Worker
  PROVE  /\ Ends(i) \in Int
         /\ i + 1 \in Worker => Ends(i) \in {Start(i + 1) - 1, Start(i + 1)} /\ Start(i + 1) \in Nat
         /\ i = Procs - 1 => Ends(i) + 1 >= Mask - Remainder
<1>1. /\ offset \in Nat /\ Workload \in Nat /\ Remainder \in 0 .. Procs - 1 /\ Procs \in Nat /\ Procs > 1
      /\ Mask = offset + Procs * Workload + Remainder /\ Procs * Workload \in Nat
      /\ i \in Nat /\ Comp(i) \in {0, 1} /\ CompPrev(i) \in {0, 1}
      /\ i * Workload \in Nat /\ Start(i) \in Nat
      /\ Start(i) = offset + i * Workload + CompPrev(i)
      /\ (i + 1) * Workload = i * Workload + Workload
  BY SplitFacts, Times, FindWinAssumption DEF FindWinAssumption
<1>2. Ends(i) = offset + (i + 1) * Workload + CompPrev(i) + Comp(i) - 1
  BY <1>1 DEF Ends
<1>3. Ends(i) \in Int
  BY <1>1, <1>2
<1>4. ASSUME i + 1 \in Worker
      PROVE  Ends(i) \in {Start(i + 1) - 1, Start(i + 1)} /\ Start(i + 1) \in Nat
  <2>1. CompPrev(i + 1) = Comp(i)
    BY <1>1 DEF Comp, CompPrev
  <2>2. Start(i + 1) = offset + (i + 1) * Workload + Comp(i) /\ Start(i + 1) \in Nat
    BY <1>4, <2>1, SplitFacts
  <2>3. Ends(i) = Start(i + 1) + CompPrev(i) - 1
    BY <1>1, <1>2, <2>2
  <2>. QED  BY <1>1, <2>2, <2>3
<1>5. ASSUME i = Procs - 1 PROVE Ends(i) + 1 >= Mask - Remainder
  <2>1. (i + 1) * Workload = Procs * Workload
    <3>1. i + 1 = Procs
      BY <1>1, <1>5
    <3>. QED  BY <3>1
  <2>2. PICK x \in Nat : x = Procs * Workload
    BY <1>1
  <2>3. Ends(i) = offset + x + CompPrev(i) + Comp(i) - 1
    BY <1>2, <2>1, <2>2, Zenon
  <2>4. Mask = offset + x + Remainder
    BY <1>1, <2>2, Zenon
  <2>5. offset \in Nat /\ Remainder \in Nat /\ Comp(i) \in Nat /\ CompPrev(i) \in Nat
    BY <1>1
  <2>. QED  BY <2>3, <2>4, <2>5
<1>. QED  BY <1>3, <1>4, <1>5

(* Later workers begin later, when there is a counter for each.             *)
LEMMA StartsGrow ==
  ASSUME offset \in 0 .. MaxUint, NEW i \in Worker, NEW j \in Worker, i < j, Workload # 0
  PROVE  i + 1 \in Worker /\ Start(i + 1) <= Start(j)
<1>1. /\ offset \in Nat /\ Workload \in Nat \ {0}
      /\ i \in Nat /\ j \in Nat /\ i + 1 <= j
  BY SplitFacts
<1>2. i + 1 \in Worker
  BY <1>1, FindWinAssumption DEF FindWinAssumption, Worker
<1>3. CASE i + 1 = j
  BY <1>2, <1>3, SplitFacts
<1>4. CASE i + 1 < j
  <2>1. (i + 1) * Workload + Workload <= j * Workload
        /\ (i + 1) * Workload \in Nat /\ j * Workload \in Nat
    BY <1>1, <1>4, Times
  <2>2. /\ Start(i + 1) = offset + (i + 1) * Workload + CompPrev(i + 1)
        /\ Start(j) = offset + j * Workload + CompPrev(j)
        /\ CompPrev(i + 1) \in {0, 1} /\ CompPrev(j) \in {0, 1}
    BY <1>2, SplitFacts
  <2>. QED  BY <1>1, <1>2, <2>1, <2>2
<1>. QED  BY <1>1, <1>2, <1>3, <1>4

(* When there is a counter for each worker, no limit leaves the mask.       *)
LEMMA LimitIsEnd ==
  ASSUME offset \in 0 .. MaxUint, NEW i \in Worker, Workload # 0
  PROVE  Limit(i) = Ends(i)
<1>0. Procs \in Nat /\ Procs > 1 /\ Mask \in Nat \ {0} /\ i \in 0 .. Procs - 1
  BY FindWinAssumption DEF FindWinAssumption, Mask, Worker
<1>1. /\ offset \in Nat /\ Workload \in Nat \ {0} /\ Remainder \in 0 .. Procs - 1
      /\ Procs \in Nat /\ Procs > 1 /\ Mask \in Nat \ {0}
      /\ Mask = offset + Procs * Workload + Remainder /\ Procs * Workload \in Nat
      /\ i \in 0 .. Procs - 1 /\ Comp(i) \in {0, 1} /\ CompPrev(i) \in {0, 1}
      /\ i * Workload \in Nat /\ Start(i) \in Nat
      /\ Start(i) = offset + i * Workload + CompPrev(i)
      /\ (i + 1) * Workload = i * Workload + Workload
  BY <1>0, SplitFacts, Times
<1>2. Ends(i) = offset + (i + 1) * Workload + CompPrev(i) + Comp(i) - 1
  BY <1>1 DEF Ends
<1>3. 0 <= Ends(i)
  BY <1>1, <1>2
<1>4. Ends(i) < Mask
  <2>1. CASE i = Procs - 1
    <3>1. Comp(i) = 0
      BY <1>1, <2>1 DEF Comp
    <3>2. CompPrev(i) = 1 => 0 < Remainder
      BY <1>1 DEF CompPrev
    <3>3. (i + 1) * Workload = Procs * Workload
      BY <1>1, <2>1
    <3>. QED  BY <1>1, <1>2, <3>1, <3>2, <3>3
  <2>2. CASE i + 1 < Procs
    <3>1. (i + 1) * Workload + Workload <= Procs * Workload /\ (i + 1) * Workload \in Nat
      BY <1>1, <2>2, Times
    <3>2. CompPrev(i) + Comp(i) <= 1 + Remainder
      BY <1>1 DEF Comp, CompPrev
    <3>. QED  BY <1>1, <1>2, <3>1, <3>2
  <2>. QED  BY <1>1, <2>1, <2>2
<1>5. Limit(i) = Ends(i) % Mask
  BY DEF Limit, Ends
<1>6. Ends(i) \in Nat
  BY <1>3, RangesMeet
<1>. QED  BY <1>1, <1>4, <1>5, <1>6

-----------------------------------------------------------------------------
(* What a worker does keeps to its range.                                   *)
LEMMA InitSearch == FindWinInit => SearchInv
<1> SUFFICES ASSUME FindWinInit PROVE SearchInv
  OBVIOUS
<1>1. offset \in 0 .. MaxUint /\ next = [i \in Worker |-> Start(i)] /\ tested = {}
      /\ search \in {"all", "encountered"} /\ running = Worker /\ returned = FALSE
  BY DEF FindWinInit
<1>2. \A i \in Worker : Start(i) \in Nat
  BY <1>1, SplitFacts
<1>3. SearchTypes
  BY <1>1, <1>2 DEF SearchTypes
<1>4. OwnRange
  <2>1. \A i \in Worker : next[i] = Start(i) /\ Start(i) <= next[i]
    BY <1>1, <1>2
  <2>2. ASSUME NEW i \in Worker PROVE Start(i) .. next[i] - 1 = {}
    BY <1>2, <2>1
  <2>. QED  BY <1>1, <2>1, <2>2 DEF OwnRange
<1>5. SearchEnds
  BY <1>1 DEF SearchEnds
<1>. QED  BY <1>3, <1>4, <1>5 DEF SearchInv

LEMMA TestKeeps ==
  ASSUME SearchInv, NEW i \in Worker, Test(i)
  PROVE  SearchInv'
<1>1. /\ i \in running /\ InRange(next[i] + Reads - 1, Limit(i))
      /\ tested' = tested \union {<<i, next[i]>>}
      /\ UNCHANGED <<search, offset, running, reader, returned>>
  BY DEF Test
<1>2. PICK n \in After(next[i]) : next' = [next EXCEPT ![i] = n]
  BY DEF Test
<1>3. next[i] \in Nat /\ next \in [Worker -> Nat]
  BY DEF SearchInv, SearchTypes
<1>4. n \in Nat /\ next[i] < n /\ (search = "all" => n = next[i] + 1)
  <2>1. CASE search = "all"
    <3>1. n = next[i] + 1
      BY <1>2, <2>1 DEF After
    <3>. QED  BY <1>3, <3>1
  <2>2. CASE search # "all"
    <3>1. PICK k \in 1 .. GameSize - 1 : n = next[i] + GameSize + k
      BY <1>2, <2>2 DEF After
    <3>2. n \in Nat /\ next[i] < n
      BY <1>3, <3>1, FindWinAssumption DEF FindWinAssumption
    <3>. QED  BY <2>2, <3>2
  <2>. QED  BY <2>1, <2>2
<1>5. SearchTypes'
  <2>1. next' \in [Worker -> Nat]
    BY <1>2, <1>3, <1>4
  <2>2. \A p \in tested' : p = <<p[1], p[2]>> /\ p[1] \in Worker /\ p[2] \in Nat
    BY <1>1, <1>3 DEF SearchInv, SearchTypes
  <2>. QED  BY <1>1, <2>1, <2>2 DEF SearchInv, SearchTypes
<1>6. /\ \A j \in Worker : Start(j)' = Start(j) /\ Limit(j)' = Limit(j)
      /\ Reads' = Reads
  BY <1>1 DEF Start, Limit, Workload, Comp, CompPrev, Remainder, Domain, Reads
<1>7. ASSUME NEW j \in Worker
      PROVE  /\ Start(j) <= next'[j]
             /\ \A c \in Nat : <<j, c>> \in tested' =>
                  Start(j) <= c /\ c < next'[j] /\ InRange(c + Reads - 1, Limit(j))
             /\ search = "all" => \A c \in Start(j) .. next'[j] - 1 : <<j, c>> \in tested'
  <2>0. /\ Start(j) <= next[j] /\ Start(j) \in Nat /\ next[j] \in Nat
        /\ \A c \in Nat : <<j, c>> \in tested =>
             Start(j) <= c /\ c < next[j] /\ InRange(c + Reads - 1, Limit(j))
        /\ search = "all" => \A c \in Start(j) .. next[j] - 1 : <<j, c>> \in tested
    BY <1>3, SplitFacts DEF SearchInv, SearchTypes, OwnRange
  <2>1. CASE j # i
    <3>1. next'[j] = next[j] /\ \A c : <<j, c>> \in tested' <=> <<j, c>> \in tested
      BY <1>1, <1>2, <1>3, <2>1
    <3>. QED  BY <2>0, <3>1
  <2>2. CASE j = i
    <3>1. next'[j] = n /\ \A c : <<j, c>> \in tested' <=> <<j, c>> \in tested \/ c = next[i]
      BY <1>1, <1>2, <1>3, <2>2
    <3>2. Start(j) <= next'[j]
      BY <1>4, <2>0, <2>2, <3>1
    <3>3. ASSUME NEW c \in Nat, <<j, c>> \in tested'
          PROVE  Start(j) <= c /\ c < next'[j] /\ InRange(c + Reads - 1, Limit(j))
      <4>1. CASE <<j, c>> \in tested
        <5>1. Start(j) <= c /\ c < next[j] /\ InRange(c + Reads - 1, Limit(j))
          BY <2>0, <4>1
        <5>. QED  BY <1>4, <2>0, <2>2, <3>1, <5>1
      <4>2. CASE c = next[i]
        BY <1>1, <1>4, <2>0, <2>2, <3>1, <4>2
      <4>. QED  BY <3>1, <3>3, <4>1, <4>2
    <3>4. ASSUME search = "all", NEW c \in Start(j) .. next'[j] - 1 PROVE <<j, c>> \in tested'
      <4>1. n = next[j] + 1
        BY <1>4, <2>2, <3>4
      <4>2. c \in Start(j) .. next[j] - 1 \/ c = next[j]
        BY <2>0, <3>1, <4>1
      <4>. QED  BY <2>0, <2>2, <3>1, <3>4, <4>2
    <3>. QED  BY <3>2, <3>3, <3>4
  <2>. QED  BY <2>1, <2>2
<1>8. OwnRange'
  BY <1>1, <1>6, <1>7 DEF OwnRange, InRange
<1>9. SearchEnds'
  <2>1. \A j \in Worker \ running : next'[j] = next[j]
    BY <1>1, <1>2, <1>3
  <2>. QED  BY <1>1, <1>6, <2>1 DEF SearchInv, SearchEnds, InRange
<1>. QED  BY <1>5, <1>8, <1>9 DEF SearchInv

(* The others return, or hand over what was found.                          *)
LEMMA OthersKeep ==
  ASSUME SearchInv, UNCHANGED <<search, offset, next, tested>>, running' \in SUBSET running,
         reader' = "reads" => reader = "reads" /\ \A i \in running \ running' :
           ~InRange(next[i] + Reads - 1, Limit(i)),
         returned' => returned \/ running = {}
  PROVE  SearchInv'
<1>1. /\ \A j \in Worker : Start(j)' = Start(j) /\ Limit(j)' = Limit(j)
      /\ Reads' = Reads
  BY DEF Start, Limit, Workload, Comp, CompPrev, Remainder, Domain, Reads
<1>2. SearchTypes'
  BY DEF SearchInv, SearchTypes
<1>3. OwnRange'
  BY <1>1 DEF SearchInv, OwnRange, InRange
<1>4. SearchEnds'
  BY <1>1 DEF SearchInv, SearchEnds, InRange
<1>. QED  BY <1>2, <1>3, <1>4 DEF SearchInv

LEMMA SearchKeeps ==
  ASSUME SearchInv, [FindWinNext]_fVars
  PROVE  SearchInv'
<1>1. ASSUME NEW i \in Worker, Done(i) PROVE SearchInv'
  BY <1>1, OthersKeep DEF Done, Return
<1>2. ASSUME NEW i \in Worker, Send(i) PROVE SearchInv'
  BY <1>2, OthersKeep DEF Send
<1>3. ASSUME NEW i \in Worker, SeeStop(i) PROVE SearchInv'
  BY <1>3, OthersKeep DEF SeeStop, Return
<1>4. CASE Read
  BY <1>4, OthersKeep DEF Read
<1>5. CASE Finish
  BY <1>5, OthersKeep DEF Finish
<1>6. CASE UNCHANGED fVars
  BY <1>6, OthersKeep DEF fVars
<1>. QED  BY <1>1, <1>2, <1>3, <1>4, <1>5, <1>6, TestKeeps DEF FindWinNext, WorkerStep

-----------------------------------------------------------------------------
(* A game that lies in the mask and was tested lies in its worker's range.   *)
LEMMA TestedWithin ==
  ASSUME SearchInv, NEW i \in Worker, NEW c \in Game, <<i, c>> \in tested
  PROVE  Workload # 0 /\ Start(i) <= c /\ c + 2 <= Ends(i) + 1
<1>1. /\ offset \in 0 .. MaxUint /\ offset \in Nat /\ MaxUint \in Nat /\ Mask = MaxUint + 1
      /\ Procs \in Nat \ {0} /\ Procs <= Mask
  BY FindWinAssumption DEF FindWinAssumption, Mask, SearchInv, SearchTypes
<1>2. Reads \in Nat /\ Reads >= 2
  BY FindWinAssumption DEF FindWinAssumption, Reads
<1>3. c \in Nat /\ offset <= c /\ c + Reads - 1 <= MaxUint
  BY <1>1, <1>2 DEF Game
<1>4. Start(i) <= c /\ InRange(c + Reads - 1, Limit(i))
  BY <1>3 DEF SearchInv, OwnRange
<1>5. c + Reads - 1 <= Limit(i)
  <2>1. PICK r \in Nat : r = c + Reads - 1
    BY <1>2, <1>3
  <2>2. r % Mask = r
    BY <1>1, <1>3, <2>1
  <2>. QED  BY <1>4, <2>1, <2>2 DEF InRange
<1>6. Workload # 0
  <2> SUFFICES ASSUME Workload = 0 PROVE FALSE
    OBVIOUS
  <2>1. /\ Remainder \in 0 .. Procs - 1 /\ Mask = offset + Procs * Workload + Remainder
        /\ Comp(i) \in {0, 1} /\ CompPrev(i) \in {0, 1} /\ i \in Nat
        /\ Start(i) = offset + i * Workload + CompPrev(i)
    BY <1>1, SplitFacts
  <2>2. Procs * Workload = 0 /\ i * Workload = 0
    BY <1>1, <2>1
  <2>3. /\ Mask = offset + Remainder /\ offset >= 1
        /\ Start(i) = offset + CompPrev(i) /\ Ends(i) = offset + CompPrev(i) + Comp(i) - 1
    BY <1>1, <2>1, <2>2 DEF Ends
  <2>4. Limit(i) = Ends(i) % Mask
    BY DEF Limit, Ends
  <2>5. CASE Ends(i) < Mask
    <3>1. Ends(i) \in Nat
      BY <1>1, <2>1, <2>3
    <3>2. Limit(i) = Ends(i)
      BY <1>1, <2>4, <2>5, <3>1
    <3>. QED  BY <1>1, <1>2, <1>3, <1>4, <1>5, <2>1, <2>3, <3>2
  <2>6. CASE ~(Ends(i) < Mask)
    <3>1. Ends(i) = Mask
      BY <1>1, <2>1, <2>3, <2>6
    <3>2. Limit(i) = 0
      BY <1>1, <2>4, <3>1
    <3>. QED  BY <1>2, <1>3, <1>5, <2>3, <3>2
  <2>. QED  BY <2>5, <2>6
<1>7. Limit(i) = Ends(i) /\ Ends(i) \in Int
  BY <1>1, <1>6, LimitIsEnd, RangesMeet
<1>. QED  BY <1>2, <1>3, <1>4, <1>5, <1>6, <1>7

(* Two workers have no game in common: where ranges overlap, it is by one    *)
(* counter, and a game takes two.                                           *)
LEMMA RangesApart ==
  ASSUME SearchInv, NEW i \in Worker, NEW j \in Worker, i < j,
         NEW c \in Game, <<i, c>> \in tested, <<j, c>> \in tested
  PROVE  FALSE
<1>1. offset \in 0 .. MaxUint
  BY DEF SearchInv, SearchTypes
<1>2. Workload # 0 /\ c + 2 <= Ends(i) + 1 /\ Start(j) <= c
  BY TestedWithin
<1>3. i + 1 \in Worker /\ Start(i + 1) <= Start(j)
  BY <1>1, <1>2, StartsGrow
<1>4. /\ Ends(i) \in {Start(i + 1) - 1, Start(i + 1)}
      /\ Start(i + 1) \in Nat /\ Start(j) \in Nat
  BY <1>1, <1>3, RangesMeet, SplitFacts
<1>5. c \in Int
  BY <1>1, FindWinAssumption DEF Game, FindWinAssumption
<1>. QED  BY <1>2, <1>3, <1>4, <1>5

(* The last worker that begins at a counter or before.                      *)
LEMMA WorkerOf ==
  ASSUME offset \in 0 .. MaxUint, NEW c \in Nat, offset <= c
  PROVE  \E i \in Worker : Start(i) <= c /\ (i + 1 \in Worker => c < Start(i + 1))
<1>1. Procs \in Nat \ {0} /\ 0 \in Worker
  BY FindWinAssumption DEF FindWinAssumption, Worker
<1> DEFINE S == {d \in 0 .. Procs - 1 : Start(Procs - 1 - d) <= c}
<1>2. Start(0) <= c
  <2>1. Start(0) = offset + 0 * Workload + CompPrev(0) /\ Workload \in Nat /\ offset \in Nat
    BY <1>1, SplitFacts
  <2>2. CompPrev(0) = 0 /\ 0 * Workload = 0
    BY <2>1 DEF CompPrev
  <2>. QED  BY <2>1, <2>2
<1>3. S \in SUBSET Nat /\ S # {}
  <2>1. Procs - 1 \in 0 .. Procs - 1 /\ Procs - 1 - (Procs - 1) = 0
    BY <1>1
  <2>2. Start(Procs - 1 - (Procs - 1)) = Start(0)
    BY <2>1
  <2>3. Procs - 1 \in S
    BY <1>2, <2>1, <2>2
  <2>4. 0 .. Procs - 1 \subseteq Nat
    BY <1>1
  <2>. QED  BY <2>3, <2>4
<1>4. PICK d \in S : \A e \in S : d <= e
  BY <1>3, LeastOf
<1>5. d \in 0 .. Procs - 1 /\ Start(Procs - 1 - d) <= c
  BY <1>4
<1>6. PICK i \in Worker : i = Procs - 1 - d
  BY <1>1, <1>5 DEF Worker
<1>7. ASSUME i + 1 \in Worker PROVE c < Start(i + 1)
  <2>1. d - 1 \in 0 .. Procs - 1 /\ Procs - 1 - (d - 1) = i + 1
    BY <1>1, <1>5, <1>6, <1>7 DEF Worker
  <2>2. d - 1 \notin S
    BY <1>1, <1>4, <1>5
  <2>3. ~(Start(i + 1) <= c)
    BY <2>1, <2>2
  <2>. QED  BY <1>7, <2>3, SplitFacts
<1>. QED  BY <1>5, <1>6, <1>7

(* Every game that spans no split, and does not end in the last Remainder    *)
(* counters, was tested when the search of all of them is over.             *)
LEMMA AllTested ==
  ASSUME SearchInv, returned, reader = "reads", search = "all",
         NEW c \in Game, ~Splits(c), ~(c + Reads - 1 > MaxUint - Remainder)
  PROVE  \E i \in Worker : <<i, c>> \in tested
<1>1. /\ offset \in 0 .. MaxUint /\ offset \in Nat /\ MaxUint \in Nat /\ Mask = MaxUint + 1
      /\ Procs \in Nat \ {0} /\ Reads \in Nat /\ Reads >= 2
  BY FindWinAssumption DEF FindWinAssumption, Mask, SearchInv, SearchTypes, Reads
<1>2. c \in Nat /\ offset <= c /\ c + Reads - 1 <= MaxUint
  BY <1>1 DEF Game
<1>3. PICK i \in Worker : Start(i) <= c /\ (i + 1 \in Worker => c < Start(i + 1))
  BY <1>1, <1>2, WorkerOf
<1>4. /\ Remainder \in 0 .. Procs - 1 /\ Workload \in Nat
      /\ Mask = offset + Procs * Workload + Remainder /\ Start(i) \in Nat /\ i \in Nat
  BY <1>1, SplitFacts
<1>5. Workload # 0
  <2> SUFFICES ASSUME Workload = 0 PROVE FALSE
    OBVIOUS
  <2>1. Procs * Workload = 0
    BY <1>1
  <2>2. Mask = offset + Remainder
    BY <1>1, <1>4, <2>1
  <2>. QED  BY <1>1, <1>2, <1>4, <2>2
<1>6. Limit(i) = Ends(i) /\ Ends(i) \in Int
  BY <1>1, <1>5, LimitIsEnd, RangesMeet
<1>7. c + Reads - 1 <= Ends(i)
  <2>1. CASE i + 1 \in Worker
    <3>1. Ends(i) \in {Start(i + 1) - 1, Start(i + 1)} /\ Start(i + 1) \in Nat
      BY <1>1, <2>1, RangesMeet
    <3>2. ~(c < Start(i + 1) /\ Start(i + 1) <= c + Reads - 1)
      <4>1. i + 1 \in Worker \ {0}
        BY <1>4, <2>1
      <4>. QED  BY <4>1 DEF Splits
    <3>. QED  BY <1>1, <1>2, <1>3, <2>1, <3>1, <3>2
  <2>2. CASE i + 1 \notin Worker
    <3>1. i = Procs - 1
      BY <1>1, <2>2 DEF Worker
    <3>2. Ends(i) + 1 >= Mask - Remainder
      BY <1>1, <3>1, RangesMeet
    <3>. QED  BY <1>1, <1>2, <1>4, <1>6, <3>2
  <2>. QED  BY <2>1, <2>2
<1>8. next[i] \in Nat /\ ~InRange(next[i] + Reads - 1, Limit(i))
  BY DEF SearchInv, SearchTypes, SearchEnds
<1>9. c < next[i]
  <2> SUFFICES ASSUME next[i] <= c PROVE FALSE
    BY <1>2, <1>8
  <2>1. PICK r \in Nat : r = next[i] + Reads - 1
    BY <1>1, <1>8
  <2>2. r <= c + Reads - 1 /\ r < Mask
    BY <1>1, <1>2, <1>8, <2>1
  <2>3. r % Mask = r
    BY <1>1, <2>2
  <2>4. r <= Limit(i)
    BY <1>1, <1>2, <1>6, <1>7, <2>2
  <2>. QED  BY <1>8, <2>1, <2>3, <2>4 DEF InRange
<1>10. c \in Start(i) .. next[i] - 1
  BY <1>2, <1>3, <1>4, <1>8, <1>9
<1>. QED  BY <1>10 DEF SearchInv, OwnRange

(* The workers keep to their ranges, for any number of them and of counters. *)
THEOREM SearchInvariant == FindWinSpec => []SearchInv
BY InitSearch, SearchKeeps, PTL DEF FindWinSpec

(* No game is tested twice; and those left out are the ones that span a      *)
(* split or end in the last Remainder counters (main.go:237-290).           *)
THEOREM EachTestedOnce == FindWinSpec => []TestedOnce
<1>1. SearchInv => TestedOnce
  <2> SUFFICES ASSUME SearchInv PROVE TestedOnce
    OBVIOUS
  <2>1. ASSUME NEW c \in Game PROVE Cardinality({i \in Worker : <<i, c>> \in tested}) <= 1
    <3> DEFINE T == {i \in Worker : <<i, c>> \in tested}
    <3>1. \A i, j \in T : i = j
      <4> SUFFICES ASSUME NEW i \in T, NEW j \in T, i # j PROVE FALSE
        OBVIOUS
      <4>1. i \in Int /\ j \in Int /\ i \in Worker /\ j \in Worker
        BY DEF Worker
      <4>2. CASE i < j
        BY <4>1, <4>2, RangesApart
      <4>3. CASE j < i
        BY <4>1, <4>3, RangesApart
      <4>. QED  BY <4>1, <4>2, <4>3
    <3> HIDE DEF T
    <3>2. CASE T = {}
      <4>1. Cardinality(T) = 0
        BY <3>2, FS_EmptySet
      <4>. QED  BY <4>1 DEF T
    <3>3. CASE T # {}
      <4>1. PICK i \in T : TRUE
        BY <3>3
      <4>2. T = {i}
        BY <3>1, <4>1
      <4>3. Cardinality(T) = 1
        BY <4>2, FS_Singleton
      <4>. QED  BY <4>3 DEF T
    <3>. QED  BY <3>2, <3>3
  <2>2. ASSUME returned, reader = "reads", search = "all", NEW c \in Game
        PROVE  \/ Splits(c) \/ c + Reads - 1 > MaxUint - Remainder
               \/ \E i \in Worker : <<i, c>> \in tested
    BY <2>2, AllTested
  <2>. QED  BY <2>1, <2>2 DEF TestedOnce
<1>. QED  BY <1>1, SearchInvariant, PTL
-----------------------------------------------------------------------------
(* Trace.                                                                   *)
PlainType == Dedup \union {"metadata", "pause", "resume", "forceEnd", "prepare"}
PointedType == {"removeSquare", "pointerMove"}
PlainInput == [type : PlainType]
PointedInput == [type : PointedType, dev : Device, time : Nat \ {0}]
Input == PlainInput \union PointedInput

Pointer == [dev : Device, move : BOOLEAN]
PackedEvent == [index : Nat, delta : Nat]
Removal == [type : {"removeSquare"}, dev : Device, time : Nat, pev : Nat]
TraceRecord ==
  [events : Seq(PlainInput \union Removal), pointers : Seq(Pointer), pevs : Seq(PackedEvent),
   first : Nat, last : Nat]

IsPointed(in) == in.type \in PointedType

(* Pointer inputs come in the order of their times, none later than now.     *)
InTime(s, now) ==
  \A i \in 1 .. Len(s) : IsPointed(s[i]) =>
    /\ s[i].time <= now
    /\ \A j \in i .. Len(s) : IsPointed(s[j]) => s[i].time <= s[j].time

TypesOf(s) == {s[i].type : i \in 1 .. Len(s)}

TraceTypes ==
  /\ inputs \in Seq(Input) /\ enabled \in BOOLEAN
  /\ stage \in {"initial", "ready", "ongoing"} /\ paused \in BOOLEAN
  /\ subs \in Nat /\ subscribed \in BOOLEAN /\ (subscribed => subs > 0)
  /\ clock \in Nat \ {0}

(* A game that was made ready has traced all the server asks for.            *)
KeysTraced == stage # "initial" => enabled /\ Dedup \subseteq TypesOf(inputs)

TraceInv == TraceTypes /\ InTime(inputs, clock) /\ KeysTraced /\ TraceReadable /\ TraceBounded

-----------------------------------------------------------------------------
(* What flush() has made of some of the inputs.                             *)

(* The server's time of the event that k others precede, for the browser's.  *)
OnTime(t, k, time) ==
  TimeOf(t, k + 1) \in (time * TickNanos - (k * TickNanos + 1)) .. time * TickNanos

(* A removal leads to the pointer and the time of its click.                 *)
LeadsBack(t, e) ==
  /\ e.pev < Len(t.pevs) /\ e.time <= t.last
  /\ t.pointers[t.pevs[e.pev + 1].index + 1] = [dev |-> e.dev, move |-> FALSE]
  /\ e.time * Micros < DeltaRange => OnTime(t, e.pev, e.time)

GoodTrace(t) ==
  /\ t \in TraceRecord
  /\ (t.last = 0 <=> t.pevs = <<>>)
  /\ (t.last = 0 <=> t.first = 0)
  /\ \A i \in 1 .. Len(t.pevs) : t.pevs[i].index < Len(t.pointers)
  /\ \A i \in 1 .. Len(t.events) : t.events[i].type = "removeSquare" => LeadsBack(t, t.events[i])
  /\ t.pevs # <<>> /\ t.last * Micros < DeltaRange => OnTime(t, Len(t.pevs) - 1, t.last)

(* No more than one event for each input that is told one by one, and one    *)
(* for each type that is not.                                               *)
ToldOf(s, k) == {i \in 1 .. k : s[i].type \notin Untold}
Few(t, s, k) ==
  Len(t.events) <= Cardinality(ToldOf(s, k)) + Cardinality(Dedup \intersect TypesOf(t.events))

(* An input adds an event at most: its own, unless one of its type is there. *)
GrowsBy(t, u, in) ==
  \/ Len(u.events) = Len(t.events)
  \/ /\ Len(u.events) = Len(t.events) + 1
     /\ in.type \notin Untold \/ in.type \in Dedup \ TypesOf(t.events)

(* Times and remainders.                                                    *)
LEMMA SmallRemainder ==
  ASSUME NEW x \in Nat, NEW r \in Nat \ {0}, x < r
  PROVE  x % r = x
OBVIOUS
LEMMA RemainderSmall ==
  ASSUME NEW x \in Nat, NEW r \in Nat \ {0}
  PROVE  x % r \in Nat /\ x % r <= x
OBVIOUS
LEMMA MoreTimes ==
  ASSUME NEW m \in Nat \ {0}, NEW a \in Nat, NEW d \in Nat
  PROVE  (a + d) * m = a * m + d * m /\ a * m \in Nat /\ d * m \in Nat /\ d <= d * m
OBVIOUS
LEMMA Products ==
  ASSUME NEW m \in Nat \ {0}, NEW n \in Nat \ {0}, NEW d \in Nat
  PROVE  (d * m) * n = d * (m * n) /\ m * n \in Nat \ {0}
OBVIOUS
LEMMA LaterTime ==
  ASSUME NEW a \in Nat, NEW b \in Nat, NEW d \in Nat, a + d <= b, b * Micros < DeltaRange
  PROVE  /\ a * Micros < DeltaRange
         /\ (((d % DeltaRange) * Micros) % DeltaRange) * Nanos = d * TickNanos
<1>. DEFINE r == b - a - d
<1>0. Micros \in Nat \ {0} /\ DeltaRange \in Nat \ {0} /\ Nanos \in Nat \ {0}
  BY TraceAssumption
<1>1. r \in Nat /\ b = (a + d) + r /\ a + d \in Nat
  OBVIOUS
<1>. HIDE DEF r
<1>2. /\ b * Micros = (a + d) * Micros + r * Micros /\ r * Micros \in Nat /\ (a + d) * Micros \in Nat
      /\ (a + d) * Micros = a * Micros + d * Micros /\ a * Micros \in Nat /\ d * Micros \in Nat
      /\ d <= d * Micros
  BY <1>0, <1>1, MoreTimes
<1>3. d < DeltaRange /\ d * Micros < DeltaRange /\ a * Micros < DeltaRange
  <2>. DEFINE bm == b * Micros am == a * Micros dm == d * Micros rm == r * Micros cm == (a + d) * Micros
  <2>1. /\ bm = cm + rm /\ cm = am + dm /\ rm \in Nat /\ am \in Nat /\ dm \in Nat
        /\ d <= dm /\ bm < DeltaRange
    BY <1>2
  <2>. HIDE DEF bm, am, dm, rm, cm
  <2>2. d < DeltaRange /\ dm < DeltaRange /\ am < DeltaRange
    BY <1>0, <2>1
  <2>. QED BY <2>2 DEF dm, am
<1>4. d % DeltaRange = d
  BY <1>0, <1>3, SmallRemainder
<1>5. (d * Micros) % DeltaRange = d * Micros
  BY <1>0, <1>2, <1>3, SmallRemainder
<1>6. ((d % DeltaRange) * Micros) % DeltaRange = d * Micros
  BY <1>4, <1>5, Zenon
<1>7. (d * Micros) * Nanos = d * TickNanos
  BY <1>0, Products DEF TickNanos
<1>. QED  BY <1>3, <1>6, <1>7, Zenon

(* A delta that falls short by a tick at most, after a time that is early by *)
(* as much for each event before it.                                        *)
LEMMA EarlyByMore ==
  ASSUME NEW m \in Nat, NEW a \in Nat, NEW b \in Nat, NEW d \in Nat, NEW k \in Nat,
         a + d <= b, b <= a + d + 1, NEW x \in (a * m - (k * m + 1)) .. a * m
  PROVE  x + d * m \in (b * m - ((k + 1) * m + 1)) .. b * m
<1>. DEFINE r == b - a - d
<1>1. r \in {0, 1} /\ b = (a + d) + r
  OBVIOUS
<1>2. b * m = a * m + d * m + r * m /\ (k + 1) * m = k * m + m
  BY <1>1
<1>3. r * m = 0 \/ r * m = m
  BY <1>1
<1>. DEFINE am == a * m  bm == b * m  dm == d * m  km == k * m  rm == r * m  lm == (k + 1) * m
<1>4. am \in Int /\ bm \in Int /\ dm \in Int /\ km \in Int
  OBVIOUS
<1>5. bm = am + dm + rm /\ lm = km + m /\ (rm = 0 \/ rm = m) /\ x \in (am - (km + 1)) .. am
  BY <1>2, <1>3
<1>. HIDE DEF am, bm, dm, km, rm, lm, r
<1>6. x + dm \in (bm - (lm + 1)) .. bm
  BY <1>4, <1>5
<1>. QED  BY <1>6 DEF am, bm, dm, km, lm

-----------------------------------------------------------------------------
(* The server's clock: TimeOf folds the packed deltas.                       *)
LEMMA TimeIsSum ==
  ASSUME NEW t, NEW i
  PROVE  TimeOf(t, i) = TimeSum!FoldLeft(LaterBy, Timestamp(t.first), SubSeq(t.pevs, 1, i))
<1>. DEFINE base == Timestamp(t.first)  s == SubSeq(t.pevs, 1, i)
<1>1. TimeOf(t, i) = FoldLeft(LAMBDA sum, p : sum + ((p.delta * Micros) % DeltaRange) * Nanos, base, s)
  BY DEF TimeOf
<1>. HIDE DEF base, s
<1>2. FoldLeft(LAMBDA sum, p : sum + ((p.delta * Micros) % DeltaRange) * Nanos, base, s)
        = TimeSum!FoldLeft(LaterBy, base, s)
  BY DEF LaterBy, FoldLeft, MapThenFoldSet, Max, TimeSum!FoldLeft, TimeSum!MapThenFoldSet, TimeSum!Max
<1>. QED  BY <1>1, <1>2 DEF base, s

LEMMA TimeAtFirst ==
  ASSUME NEW t, t.pevs \in Seq(PackedEvent)
  PROVE  TimeOf(t, 0) = Timestamp(t.first)
<1>1. SubSeq(t.pevs, 1, 0) = <<>>
  OBVIOUS
<1>2. TimeSum!FoldLeft(LaterBy, Timestamp(t.first), <<>>) = Timestamp(t.first)
  BY TimeSum!FoldOfNothing
<1>. QED  BY <1>1, <1>2, TimeIsSum

(* A pointer event that is packed leaves the times of those before it.       *)
LEMMA TimeOfMore ==
  ASSUME NEW t, NEW u, t.pevs \in Seq(PackedEvent), NEW p \in PackedEvent,
         u.pevs = Append(t.pevs, p), u.first = t.first
  PROVE  /\ \A i \in 0 .. Len(t.pevs) : TimeOf(u, i) = TimeOf(t, i)
         /\ TimeOf(u, Len(t.pevs) + 1) = LaterBy(TimeOf(t, Len(t.pevs)), p)
<1>. DEFINE s == t.pevs  n == Len(s)
<1>1. n \in Nat /\ s \in Seq(PackedEvent)
  OBVIOUS
<1>2. ASSUME NEW i \in 0 .. n PROVE SubSeq(Append(s, p), 1, i) = SubSeq(s, 1, i)
  <2>. HIDE DEF s
  <2>1. Append(s, p) \in Seq(PackedEvent) /\ Len(Append(s, p)) = n + 1
    BY <1>1
  <2>2. SubSeq(Append(s, p), 1, i) \in Seq(PackedEvent) /\ SubSeq(s, 1, i) \in Seq(PackedEvent)
    BY <1>1, <2>1
  <2>3. Len(SubSeq(Append(s, p), 1, i)) = i /\ Len(SubSeq(s, 1, i)) = i
    BY <1>1, <2>1
  <2>4. \A j \in 1 .. i : SubSeq(Append(s, p), 1, i)[j] = SubSeq(s, 1, i)[j]
    BY <1>1, <2>1
  <2>. QED  BY <2>2, <2>3, <2>4, SeqEqual
<1>3. SubSeq(Append(s, p), 1, n + 1) = Append(s, p) /\ SubSeq(s, 1, n) = s
  <2>. HIDE DEF s
  <2>1. \A q \in Seq(PackedEvent) : SubSeq(q, 1, Len(q)) = q
    <3>. SUFFICES ASSUME NEW q \in Seq(PackedEvent) PROVE SubSeq(q, 1, Len(q)) = q
      OBVIOUS
    <3>1. SubSeq(q, 1, Len(q)) \in Seq(PackedEvent) /\ Len(SubSeq(q, 1, Len(q))) = Len(q)
      OBVIOUS
    <3>2. \A j \in 1 .. Len(q) : SubSeq(q, 1, Len(q))[j] = q[j]
      OBVIOUS
    <3>. QED  BY <3>1, <3>2, SeqEqual
  <2>2. Append(s, p) \in Seq(PackedEvent) /\ Len(Append(s, p)) = n + 1
    BY <1>1
  <2>. QED  BY <1>1, <2>1, <2>2
<1>4. \A i \in 0 .. n : TimeOf(u, i) = TimeOf(t, i)
  <2>. HIDE DEF s
  <2>1. ASSUME NEW i \in 0 .. n PROVE TimeOf(u, i) = TimeOf(t, i)
    <3>1. SubSeq(u.pevs, 1, i) = SubSeq(t.pevs, 1, i)
      BY <1>2 DEF s
    <3>. QED  BY <3>1, TimeIsSum
  <2>. QED  BY <2>1
<1>5. TimeOf(u, n + 1) = LaterBy(TimeOf(t, n), p)
  <2>1. TimeOf(u, n + 1) = TimeSum!FoldLeft(LaterBy, Timestamp(t.first), Append(s, p))
    BY <1>3, TimeIsSum
  <2>2. TimeOf(t, n) = TimeSum!FoldLeft(LaterBy, Timestamp(t.first), s)
    BY <1>3, TimeIsSum
  <2>3. TimeSum!FoldLeft(LaterBy, Timestamp(t.first), Append(s, p))
          = LaterBy(TimeSum!FoldLeft(LaterBy, Timestamp(t.first), s), p)
    <3>. DEFINE base == Timestamp(t.first)
    <3>. HIDE DEF s, base
    <3>1. TimeSum!FoldLeft(LaterBy, base, Append(s, p)) = LaterBy(TimeSum!FoldLeft(LaterBy, base, s), p)
      BY <1>1, TimeSum!FoldOfMore
    <3>. QED  BY <3>1 DEF base
  <2>. QED  BY <2>1, <2>2, <2>3
<1>. QED  BY <1>4, <1>5

(* Any event of a trace that says it is a removal is one.                    *)
LEMMA EventIsRemoval ==
  ASSUME NEW e \in PlainInput \union Removal, e.type = "removeSquare"
  PROVE  e \in Removal /\ e.pev \in Nat /\ e.time \in Nat /\ e.dev \in Device
<1>1. "removeSquare" \notin PlainType
  BY DEF PlainType, Dedup
<1>2. e \notin PlainInput
  BY <1>1 DEF PlainInput
<1>. QED  BY <1>2 DEF Removal

(* The ticks since an earlier event: none is missing, or one is.             *)
LEMMA TicksShort ==
  ASSUME NEW a \in Nat, NEW b \in Nat, a <= b
  PROVE  Ticks(a, b) \in Nat /\ a + Ticks(a, b) <= b /\ b <= a + Ticks(a, b) + 1
<1>1. CASE <<a, b>> \in Short
  <2>1. a < b
    BY <1>1, TraceAssumption
  <2>. QED  BY <1>1, <2>1 DEF Ticks
<1>2. CASE <<a, b>> \notin Short
  BY <1>2 DEF Ticks
<1>. QED  BY <1>1, <1>2

(* What a packed event points to: its pointer, which stays where it is.      *)
LEMMA PointersFacts ==
  ASSUME NEW t \in TraceRecord, NEW in \in PointedInput, t.last <= in.time
  PROVE  /\ Pointers(t, in) \in Seq(Pointer) /\ Pointers(t, in) # <<>>
         /\ Len(t.pointers) <= Len(Pointers(t, in))
         /\ \A i \in 1 .. Len(t.pointers) : Pointers(t, in)[i] = t.pointers[i]
         /\ Packed(t, in) \in PackedEvent
         /\ Packed(t, in).index < Len(Pointers(t, in))
         /\ Pointers(t, in)[Packed(t, in).index + 1] = PointerOf(in)
<1>. DEFINE s == t.pointers  o == PointerOf(in)  q == Pointers(t, in)
            c == CHOOSE i \in DOMAIN q : q[i] = o
<1>1. s \in Seq(Pointer) /\ o \in Pointer /\ t.last \in Nat /\ in.time \in Nat
  BY DEF TraceRecord, PointerOf, Pointer, PointedInput
<1>2. q = IF \E i \in 1 .. Len(s) : s[i] = o THEN s ELSE Append(s, o)
  BY DEF Pointers, Contains
<1>. HIDE DEF s, o, q
<1>3. /\ q \in Seq(Pointer) /\ Len(s) <= Len(q) /\ \A i \in 1 .. Len(s) : q[i] = s[i]
      /\ \E i \in 1 .. Len(q) : q[i] = o
  <2>1. CASE \E i \in 1 .. Len(s) : s[i] = o
    BY <1>1, <1>2, <2>1
  <2>2. CASE ~(\E i \in 1 .. Len(s) : s[i] = o)
    <3>1. q = Append(s, o)
      BY <1>2, <2>2
    <3>2. /\ Append(s, o) \in Seq(Pointer) /\ Len(Append(s, o)) = Len(s) + 1
          /\ Append(s, o)[Len(s) + 1] = o /\ Len(s) \in Nat
          /\ \A i \in 1 .. Len(s) : Append(s, o)[i] = s[i]
      BY <1>1
    <3>. QED  BY <3>1, <3>2
  <2>. QED  BY <2>1, <2>2
<1>4. c \in 1 .. Len(q) /\ q[c] = o
  <2>1. DOMAIN q = 1 .. Len(q)
    BY <1>3
  <2>. QED  BY <1>3, <2>1
<1>. HIDE DEF c
<1>5. Packed(t, in) = [index |-> c - 1,
                       delta |-> IF t.last = 0 THEN 0 ELSE Ticks(t.last, in.time) % DeltaRange]
  BY DEF Packed, c, q, o
<1>6. Ticks(t.last, in.time) % DeltaRange \in Nat
  <2>1. Ticks(t.last, in.time) \in Nat /\ DeltaRange \in Nat \ {0}
    BY <1>1, TicksShort, TraceAssumption
  <2>. QED  BY <2>1, RemainderSmall
<1>7. Len(q) \in Nat
  BY <1>3
<1>8. c - 1 \in Nat /\ c - 1 < Len(q) /\ (c - 1) + 1 = c
  BY <1>4, <1>7
<1>9. Packed(t, in) \in PackedEvent /\ Packed(t, in).index = c - 1
  BY <1>5, <1>6, <1>8 DEF PackedEvent
<1>10. q # <<>>
  BY <1>4, <1>7
<1>. QED  BY <1>3, <1>4, <1>8, <1>9, <1>10 DEF q, s, o

(* What the clock of the server says after one more packed event.            *)
LEMMA ClockGoesOn ==
  ASSUME NEW t, GoodTrace(t), NEW in \in PointedInput, t.last <= in.time,
         NEW u, u.first = IF t.last = 0 THEN in.time ELSE t.first,
         u.pevs = Append(t.pevs, Packed(t, in))
  PROVE  /\ \A i \in 1 .. Len(t.pevs) : TimeOf(u, i) = TimeOf(t, i)
         /\ in.time * Micros < DeltaRange => OnTime(u, Len(t.pevs), in.time)
<1>. DEFINE p == Packed(t, in)  n == Len(t.pevs)  d == Ticks(t.last, in.time)
<1>1. /\ t \in TraceRecord /\ t.pevs \in Seq(PackedEvent) /\ t.last \in Nat /\ n \in Nat
      /\ in.time \in Nat \ {0} /\ p \in PackedEvent
      /\ p.delta = IF t.last = 0 THEN 0 ELSE d % DeltaRange
  <2>1. t \in TraceRecord
    BY DEF GoodTrace
  <2>2. p \in PackedEvent
    BY <2>1, PointersFacts
  <2>3. t.pevs \in Seq(PackedEvent) /\ t.last \in Nat /\ in.time \in Nat \ {0}
    BY <2>1 DEF TraceRecord, PointedInput
  <2>4. p.delta = IF t.last = 0 THEN 0 ELSE d % DeltaRange
    BY DEF Packed
  <2>. QED  BY <2>1, <2>2, <2>3, <2>4
<1>0. Micros \in Nat \ {0} /\ DeltaRange \in Nat \ {0} /\ Nanos \in Nat \ {0} /\ TickNanos \in Nat \ {0}
  BY TraceAssumption, Products DEF TickNanos
<1>2. CASE t.last = 0
  <2>. DEFINE v == [first |-> in.time, pevs |-> t.pevs]
  <2>1. t.pevs = <<>> /\ n = 0
    BY <1>2 DEF GoodTrace
  <2>2. u.first = v.first /\ u.pevs = Append(v.pevs, p) /\ v.pevs = t.pevs
    BY <1>2
  <2>3. TimeOf(v, 0) = Timestamp(in.time)
    <3>1. v.pevs \in Seq(PackedEvent) /\ v.first = in.time
      BY <1>1
    <3>. HIDE DEF v
    <3>. QED  BY <3>1, TimeAtFirst
  <2>4. TimeOf(u, 0 + 1) = LaterBy(Timestamp(in.time), p)
    <3>. HIDE DEF v, p
    <3>1. Len(v.pevs) = 0
      BY <2>1, <2>2
    <3>2. TimeOf(u, Len(v.pevs) + 1) = LaterBy(TimeOf(v, Len(v.pevs)), p)
      BY <1>1, <2>2, TimeOfMore
    <3>. QED  BY <2>3, <3>1, <3>2
  <2>5. Timestamp(in.time) \in Int /\ LaterBy(Timestamp(in.time), p) = Timestamp(in.time)
    <3>1. 0 * Micros = 0 /\ 0 % DeltaRange = 0 /\ 0 * Nanos = 0 /\ Timestamp(in.time) \in Int
      BY <1>0, <1>1 DEF Timestamp
    <3>2. ((p.delta * Micros) % DeltaRange) * Nanos = 0
      BY <1>1, <1>2, <3>1
    <3>. QED  BY <3>1, <3>2 DEF LaterBy
  <2>6. OnTime(u, 0, in.time)
    <3>. DEFINE x == in.time * TickNanos
    <3>1. x \in Int /\ Timestamp(in.time) \in {x, x - 1} /\ 0 * TickNanos = 0
      BY <1>0, <1>1 DEF Timestamp
    <3>2. TimeOf(u, 0 + 1) = Timestamp(in.time)
      BY <2>4, <2>5
    <3>3. TimeOf(u, 0 + 1) \in (x - (0 * TickNanos + 1)) .. x
      <4>. HIDE DEF x
      <4>. QED  BY <3>1, <3>2
    <3>. QED  BY <3>3 DEF OnTime
  <2>. QED  BY <2>1, <2>6
<1>3. CASE t.last # 0
  <2>. HIDE DEF p, d
  <2>1. /\ \A i \in 0 .. n : TimeOf(u, i) = TimeOf(t, i)
        /\ TimeOf(u, n + 1) = LaterBy(TimeOf(t, n), p)
    <3>1. u.first = t.first /\ u.pevs = Append(t.pevs, p)
      BY <1>3 DEF p
    <3>. QED  BY <1>1, <3>1, TimeOfMore
  <2>2. t.pevs # <<>> /\ n - 1 \in Nat /\ (n - 1) + 1 = n
    <3>1. t.pevs # <<>>
      BY <1>3 DEF GoodTrace
    <3>. QED  BY <1>1, <3>1
  <2>3. d \in Nat /\ t.last + d <= in.time /\ in.time <= t.last + d + 1
    BY <1>1, TicksShort DEF d
  <2>4. ASSUME in.time * Micros < DeltaRange PROVE OnTime(u, n, in.time)
    <3>. DEFINE a == t.last  b == in.time  k == n - 1  x == TimeOf(t, n)
    <3>1. a \in Nat /\ b \in Nat /\ b * Micros < DeltaRange /\ k \in Nat
      BY <1>1, <2>2, <2>4
    <3>2. a + d <= b /\ b <= a + d + 1
      BY <2>3
    <3>3. /\ a * Micros < DeltaRange
          /\ (((d % DeltaRange) * Micros) % DeltaRange) * Nanos = d * TickNanos
      <4>. HIDE DEF a, b
      <4>. QED  BY <2>3, <3>1, <3>2, LaterTime
    <3>4. x \in (a * TickNanos - (k * TickNanos + 1)) .. a * TickNanos
      <4>1. OnTime(t, n - 1, t.last)
        BY <2>2, <3>3 DEF GoodTrace
      <4>. QED  BY <2>2, <4>1 DEF OnTime
    <3>5. TimeOf(u, n + 1) = x + d * TickNanos
      <4>1. p.delta = d % DeltaRange
        BY <1>1, <1>3
      <4>2. LaterBy(x, p) = x + d * TickNanos
        BY <3>3, <4>1, Zenon DEF LaterBy
      <4>. QED  BY <2>1, <4>2
    <3>6. x + d * TickNanos \in (b * TickNanos - ((k + 1) * TickNanos + 1)) .. b * TickNanos
      <4>. HIDE DEF a, b, k, x
      <4>. QED  BY <1>0, <2>3, <3>1, <3>2, <3>4, EarlyByMore
    <3>. QED  BY <2>2, <3>5, <3>6 DEF OnTime
  <2>5. \A i \in 1 .. n : i \in 0 .. n
    BY <1>1
  <2>. QED  BY <2>1, <2>4, <2>5
<1>. QED  BY <1>2, <1>3

(* What is true of the removals of a trace is true after another pointer is  *)
(* listed, or another event packed.                                         *)
LEMMA StillLeadsBack ==
  ASSUME NEW t, GoodTrace(t), NEW e \in Removal, LeadsBack(t, e),
         NEW u \in TraceRecord, t.last <= u.last, Len(t.pevs) <= Len(u.pevs),
         Len(t.pointers) <= Len(u.pointers),
         \A i \in 1 .. Len(t.pevs) : u.pevs[i] = t.pevs[i] /\ TimeOf(u, i) = TimeOf(t, i),
         \A i \in 1 .. Len(t.pointers) : u.pointers[i] = t.pointers[i]
  PROVE  LeadsBack(u, e)
<1>. DEFINE k == e.pev + 1  j == t.pevs[k].index + 1
<1>1. /\ Len(t.pevs) \in Nat /\ Len(u.pevs) \in Nat /\ Len(t.pointers) \in Nat
      /\ e.pev \in Nat /\ e.time \in Nat /\ t.last \in Nat /\ u.last \in Nat
      /\ t.pevs \in Seq(PackedEvent)
  BY DEF GoodTrace, TraceRecord, Removal
<1>2. /\ e.pev < Len(t.pevs) /\ e.time <= t.last
      /\ t.pointers[j] = [dev |-> e.dev, move |-> FALSE]
      /\ e.time * Micros < DeltaRange => OnTime(t, e.pev, e.time)
  BY DEF LeadsBack
<1>3. k \in 1 .. Len(t.pevs)
  BY <1>1, <1>2
<1>4. t.pevs[k].index \in Nat /\ t.pevs[k].index < Len(t.pointers)
  <2>1. t.pevs[k] \in PackedEvent
    BY <1>1, <1>3
  <2>. QED  BY <1>3, <2>1 DEF GoodTrace, PackedEvent
<1>5. j \in 1 .. Len(t.pointers)
  BY <1>1, <1>4
<1>6. u.pevs[k] = t.pevs[k] /\ TimeOf(u, k) = TimeOf(t, k) /\ u.pointers[j] = t.pointers[j]
  BY <1>3, <1>5
<1>7. e.pev < Len(u.pevs) /\ e.time <= u.last
  BY <1>1, <1>2
<1>8. OnTime(t, e.pev, e.time) => OnTime(u, e.pev, e.time)
  BY <1>6 DEF OnTime
<1>. QED  BY <1>2, <1>6, <1>7, <1>8 DEF LeadsBack

(* An event that is packed, and the removal that it may be of.               *)
LEMMA PackedGood ==
  ASSUME NEW t, GoodTrace(t), NEW in \in PointedInput, t.last <= in.time,
         NEW u, u.events \in Seq(PlainInput \union Removal),
         u = [events |-> u.events, pointers |-> Pointers(t, in),
              pevs |-> Append(t.pevs, Packed(t, in)),
              first |-> IF t.last = 0 THEN in.time ELSE t.first, last |-> in.time],
         NEW e, e = [type |-> "removeSquare", time |-> in.time, dev |-> in.dev, pev |-> Len(t.pevs)],
         \/ u.events = t.events
         \/ in.type = "removeSquare" /\ u.events = Append(t.events, e)
  PROVE  GoodTrace(u) /\ u.first > 0 /\ u.pointers # <<>>
<1>. DEFINE n == Len(t.pevs)  p == Packed(t, in)  q == Pointers(t, in)
<1>1. /\ t \in TraceRecord /\ t.pevs \in Seq(PackedEvent) /\ t.last \in Nat /\ t.first \in Nat
      /\ n \in Nat /\ in.time \in Nat \ {0} /\ in.dev \in Device
      /\ t.events \in Seq(PlainInput \union Removal) /\ t.pointers \in Seq(Pointer)
  BY DEF GoodTrace, TraceRecord, PointedInput
<1>2. /\ q \in Seq(Pointer) /\ q # <<>>
      /\ Len(t.pointers) <= Len(q)
      /\ \A i \in 1 .. Len(t.pointers) : q[i] = t.pointers[i]
      /\ p \in PackedEvent /\ p.index < Len(q) /\ q[p.index + 1] = PointerOf(in)
  BY <1>1, PointersFacts
<1>3. /\ u.pointers = q /\ u.pevs = Append(t.pevs, p) /\ u.last = in.time
      /\ u.first = IF t.last = 0 THEN in.time ELSE t.first
  OBVIOUS
<1>4. /\ \A i \in 1 .. n : TimeOf(u, i) = TimeOf(t, i)
      /\ in.time * Micros < DeltaRange => OnTime(u, n, in.time)
  BY <1>3, ClockGoesOn
<1>. HIDE DEF p, q
<1>5. /\ u.pevs \in Seq(PackedEvent) /\ Len(u.pevs) = n + 1 /\ u.pevs[n + 1] = p
      /\ \A i \in 1 .. n : u.pevs[i] = t.pevs[i]
  BY <1>1, <1>2, <1>3
<1>6. u.first \in Nat \ {0}
  BY <1>1, <1>3 DEF GoodTrace
<1>7. u \in TraceRecord
  <2>1. u = [events |-> u.events, pointers |-> u.pointers, pevs |-> u.pevs, first |-> u.first, last |-> u.last]
    BY <1>3
  <2>2. u.pointers \in Seq(Pointer) /\ u.last \in Nat
    BY <1>1, <1>2, <1>3
  <2>. QED  BY <1>5, <1>6, <2>1, <2>2 DEF TraceRecord
<1>8. u.last # 0 /\ u.pevs # <<>>
  <2>1. u.last # 0
    BY <1>1, <1>3
  <2>2. n + 1 # 0 /\ Len(<<>>) = 0
    BY <1>1
  <2>. QED  BY <1>5, <2>1, <2>2
<1>9. \A i \in 1 .. Len(u.pevs) : u.pevs[i].index < Len(u.pointers)
  <2>1. ASSUME NEW i \in 1 .. n PROVE u.pevs[i].index < Len(u.pointers)
    <3>1. t.pevs[i].index < Len(t.pointers) /\ t.pevs[i] \in PackedEvent
      BY <1>1 DEF GoodTrace
    <3>2. t.pevs[i].index \in Nat /\ Len(t.pointers) \in Nat /\ Len(q) \in Nat
      <4>1. t.pevs[i].index \in Nat
        BY <3>1 DEF PackedEvent
      <4>. QED  BY <1>1, <1>2, <4>1
    <3>. QED  BY <1>2, <1>3, <1>5, <3>1, <3>2
  <2>2. u.pevs[n + 1].index < Len(u.pointers)
    BY <1>2, <1>3, <1>5
  <2>. QED  BY <1>1, <1>5, <2>1, <2>2
<1>10. ASSUME NEW i \in 1 .. Len(t.events), t.events[i].type = "removeSquare"
       PROVE  LeadsBack(u, t.events[i])
  <2>1. t.events[i] \in Removal
    BY <1>1, <1>10, EventIsRemoval
  <2>2. LeadsBack(t, t.events[i])
    BY <1>10 DEF GoodTrace
  <2>3. t.last <= u.last /\ n <= Len(u.pevs)
    BY <1>1, <1>3, <1>5
  <2>. QED  BY <1>2, <1>3, <1>4, <1>5, <1>7, <2>1, <2>2, <2>3, StillLeadsBack
<1>11. ASSUME in.type = "removeSquare" PROVE LeadsBack(u, e)
  <2>1. e.pev = n /\ e.time = in.time /\ e.dev = in.dev
    OBVIOUS
  <2>2. u.pointers[u.pevs[n + 1].index + 1] = [dev |-> in.dev, move |-> FALSE]
    <3>1. PointerOf(in) = [dev |-> in.dev, move |-> FALSE]
      <4>1. (in.type = "pointerMove") = FALSE
        BY <1>11
      <4>. QED  BY <4>1 DEF PointerOf
    <3>. QED  BY <1>2, <1>3, <1>5, <3>1
  <2>3. e.pev < Len(u.pevs) /\ e.time <= u.last
    BY <1>1, <1>3, <1>5, <2>1
  <2>. QED  BY <1>4, <2>1, <2>2, <2>3 DEF LeadsBack
<1>12. \A i \in 1 .. Len(u.events) : u.events[i].type = "removeSquare" => LeadsBack(u, u.events[i])
  <2>1. CASE u.events = t.events
    BY <1>10, <2>1
  <2>2. CASE in.type = "removeSquare" /\ u.events = Append(t.events, e)
    <3>1. /\ Len(u.events) = Len(t.events) + 1 /\ Len(t.events) \in Nat
          /\ u.events[Len(t.events) + 1] = e
          /\ \A i \in 1 .. Len(t.events) : u.events[i] = t.events[i]
      BY <1>1, <2>2
    <3>2. ASSUME NEW i \in 1 .. Len(u.events), u.events[i].type = "removeSquare"
          PROVE  LeadsBack(u, u.events[i])
      <4>1. CASE i \in 1 .. Len(t.events)
        BY <1>10, <3>1, <3>2, <4>1
      <4>2. CASE i = Len(t.events) + 1
        BY <1>11, <2>2, <3>1, <4>2
      <4>. QED  BY <3>1, <4>1, <4>2
    <3>. QED  BY <3>2
  <2>. QED  BY <2>1, <2>2
<1>13. u.last * Micros < DeltaRange => OnTime(u, Len(u.pevs) - 1, u.last)
  <2>1. Len(u.pevs) - 1 = n
    BY <1>1, <1>5
  <2>. QED  BY <1>3, <1>4, <2>1
<1>14. (u.last = 0 <=> u.pevs = <<>>) /\ (u.last = 0 <=> u.first = 0)
  BY <1>6, <1>8
<1>15. u.first > 0 /\ u.pointers # <<>>
  BY <1>2, <1>3, <1>6
<1>. QED  BY <1>7, <1>9, <1>12, <1>13, <1>14, <1>15 DEF GoodTrace

(* What flush() makes of a trace with a pointer event, field by field.       *)
Record(events, pointers, pevs, first, last) ==
  [events |-> events, pointers |-> pointers, pevs |-> pevs, first |-> first, last |-> last]

LEMMA TracedRecord ==
  ASSUME NEW t \in TraceRecord, NEW in, NEW f, f = IF t.last = 0 THEN in.time ELSE t.first,
         NEW e, in.type = "removeSquare" =>
                  e = [type |-> in.type, time |-> in.time, dev |-> in.dev, pev |-> Len(t.pevs)]
  PROVE  Traced(t, in) =
           IF in.type = "removeSquare"
           THEN Record(Append(t.events, e), Pointers(t, in), Append(t.pevs, Packed(t, in)), f, in.time)
           ELSE IF t.last = 0 \/ Packed(t, in).delta >= SmoothGap
           THEN Record(t.events, Pointers(t, in), Append(t.pevs, Packed(t, in)), f, in.time)
           ELSE Record(t.events, Pointers(t, in), t.pevs, f, t.last)
<1>. DEFINE events == t.events  pevs == t.pevs  last == t.last  first == t.first
            q == Pointers(t, in)  p == Packed(t, in)
            u == [t EXCEPT !.pointers = q, !.first = IF t.last = 0 THEN in.time ELSE @]
            kept == [u EXCEPT !.pevs = Append(@, p), !.last = in.time]
            told == [kept EXCEPT !.events =
                       Append(@, [type |-> in.type, time |-> in.time, dev |-> in.dev, pev |-> Len(t.pevs)])]
            ended == [kept EXCEPT !.events = Append(@, e)]
<1>1. Traced(t, in) = IF in.type = "removeSquare" THEN told
                      ELSE IF t.last = 0 \/ p.delta >= SmoothGap THEN kept ELSE u
  BY DEF Traced
<1>2. in.type = "removeSquare" => told = ended
  <2>. HIDE DEF kept
  <2>. QED  OBVIOUS
<1>3. t = Record(events, t.pointers, pevs, first, last)
  BY DEF TraceRecord, Record
<1>4. t.last = last /\ t.first = first /\ f = IF last = 0 THEN in.time ELSE first
  OBVIOUS
<1>. HIDE DEF events, pevs, last, first, q, p
<1>5. [t EXCEPT !.pointers = q] = Record(events, q, pevs, first, last)
  <2>. DEFINE o == t.pointers
  <2>1. t = Record(events, o, pevs, first, last)
    BY <1>3
  <2>. HIDE DEF o
  <2>. QED  BY <2>1 DEF Record
<1>6. [Record(events, q, pevs, first, last) EXCEPT !.first = f] = Record(events, q, pevs, f, last)
  BY DEF Record
<1>7. u = [[t EXCEPT !.pointers = q] EXCEPT !.first = f]
  <2>1. u = [[t EXCEPT !.pointers = q] EXCEPT !.first = IF t.last = 0 THEN in.time ELSE @]
    OBVIOUS
  <2>2. [t EXCEPT !.pointers = q].first = first
    BY <1>5 DEF Record
  <2>3. [[t EXCEPT !.pointers = q] EXCEPT !.first = IF t.last = 0 THEN in.time ELSE @]
          = [[t EXCEPT !.pointers = q] EXCEPT !.first = f]
    BY <1>4, <2>2
  <2>. QED  BY <2>1, <2>3
<1>8. u = Record(events, q, pevs, f, last)
  BY <1>5, <1>6, <1>7
<1>. HIDE DEF u
<1>9. kept = Record(events, q, Append(pevs, p), f, in.time)
  <2>1. [u EXCEPT !.pevs = Append(@, p)] = Record(events, q, Append(pevs, p), f, last)
    BY ONLY <1>8 DEF Record
  <2>2. [Record(events, q, Append(pevs, p), f, last) EXCEPT !.last = in.time]
          = Record(events, q, Append(pevs, p), f, in.time)
    BY DEF Record
  <2>3. kept = [[u EXCEPT !.pevs = Append(@, p)] EXCEPT !.last = in.time]
    OBVIOUS
  <2>. QED  BY <2>1, <2>2, <2>3
<1>. HIDE DEF kept
<1>10. ended = Record(Append(events, e), q, Append(pevs, p), f, in.time)
  <2>. DEFINE s == Append(pevs, p)  y == in.time
  <2>1. kept = Record(events, q, s, f, y)
    BY <1>9
  <2>. HIDE DEF s, y
  <2>2. ended = Record(Append(events, e), q, s, f, y)
    BY <2>1 DEF Record
  <2>. QED  BY <2>2 DEF s, y
<1>. HIDE DEF ended, told
<1>11. Traced(t, in) =
         IF in.type = "removeSquare" THEN Record(Append(events, e), q, Append(pevs, p), f, in.time)
         ELSE IF t.last = 0 \/ p.delta >= SmoothGap
         THEN Record(events, q, Append(pevs, p), f, in.time)
         ELSE Record(events, q, pevs, f, last)
  BY <1>1, <1>2, <1>8, <1>9, <1>10
<1>. QED  BY <1>11 DEF events, pevs, last, q, p

(* removeSquare and pointerMove.                                            *)
LEMMA TracedGood ==
  ASSUME NEW t, GoodTrace(t), NEW in \in PointedInput, t.last <= in.time
  PROVE  /\ GoodTrace(Traced(t, in))
         /\ Traced(t, in).last \in {t.last, in.time}
         /\ TypesOf(t.events) \subseteq TypesOf(Traced(t, in).events)
         /\ GrowsBy(t, Traced(t, in), in)
         /\ in.type = "removeSquare" =>
              /\ "removeSquare" \in TypesOf(Traced(t, in).events)
              /\ Traced(t, in).first > 0 /\ Traced(t, in).pointers # <<>>
<1>. DEFINE n == Len(t.pevs)  p == Packed(t, in)  q == Pointers(t, in)
            f == IF t.last = 0 THEN in.time ELSE t.first
            e == [type |-> "removeSquare", time |-> in.time, dev |-> in.dev, pev |-> n]
            Kept(events) == [events |-> events, pointers |-> q, pevs |-> Append(t.pevs, p),
                             first |-> f, last |-> in.time]
            dropped == [events |-> t.events, pointers |-> q, pevs |-> t.pevs,
                        first |-> f, last |-> t.last]
<1>1. /\ t \in TraceRecord /\ t.pevs \in Seq(PackedEvent) /\ t.last \in Nat /\ t.first \in Nat
      /\ n \in Nat /\ in.time \in Nat \ {0} /\ in.dev \in Device /\ in.type \in PointedType
      /\ t.events \in Seq(PlainInput \union Removal) /\ t.pointers \in Seq(Pointer)
  BY DEF GoodTrace, TraceRecord, PointedInput
<1>2. Traced(t, in) =
        IF in.type = "removeSquare" THEN Kept(Append(t.events, e))
        ELSE IF t.last = 0 \/ p.delta >= SmoothGap THEN Kept(t.events) ELSE dropped
  <2>1. in.type = "removeSquare" =>
          e = [type |-> in.type, time |-> in.time, dev |-> in.dev, pev |-> Len(t.pevs)]
    OBVIOUS
  <2>2. f = IF t.last = 0 THEN in.time ELSE t.first
    OBVIOUS
  <2>. HIDE DEF e, f
  <2>. QED  BY <1>1, <2>1, <2>2, TracedRecord DEF Record
<1>3. ASSUME NEW events \in Seq(PlainInput \union Removal),
             \/ events = t.events
             \/ in.type = "removeSquare" /\ events = Append(t.events, e)
      PROVE  GoodTrace(Kept(events)) /\ Kept(events).first > 0 /\ Kept(events).pointers # <<>>
  <2>. DEFINE u == Kept(events)
  <2>1. /\ u.events = events
        /\ u = [events |-> u.events, pointers |-> Pointers(t, in),
                pevs |-> Append(t.pevs, Packed(t, in)),
                first |-> IF t.last = 0 THEN in.time ELSE t.first, last |-> in.time]
    OBVIOUS
  <2>2. e = [type |-> "removeSquare", time |-> in.time, dev |-> in.dev, pev |-> Len(t.pevs)]
    OBVIOUS
  <2>. HIDE DEF u, e
  <2>3. u.events \in Seq(PlainInput \union Removal)
    BY <2>1
  <2>4. \/ u.events = t.events
        \/ in.type = "removeSquare" /\ u.events = Append(t.events, e)
    BY <1>3, <2>1
  <2>5. GoodTrace(u) /\ u.first > 0 /\ u.pointers # <<>>
    BY <2>1, <2>2, <2>3, <2>4, PackedGood
  <2>. QED  BY <2>5 DEF u
<1>4. ASSUME t.last # 0 PROVE GoodTrace(dropped)
  <2>1. /\ q \in Seq(Pointer) /\ Len(t.pointers) <= Len(q)
        /\ \A i \in 1 .. Len(t.pointers) : q[i] = t.pointers[i]
    BY <1>1, PointersFacts
  <2>. HIDE DEF q
  <2>2. /\ dropped.events = t.events /\ dropped.pointers = q /\ dropped.pevs = t.pevs
        /\ dropped.first = t.first /\ dropped.last = t.last /\ dropped \in TraceRecord
    BY <1>1, <1>4, <2>1 DEF TraceRecord
  <2>. HIDE DEF dropped
  <2>3. \A i : TimeOf(dropped, i) = TimeOf(t, i)
    BY <2>2 DEF TimeOf
  <2>4. ASSUME NEW i \in 1 .. n PROVE dropped.pevs[i].index < Len(dropped.pointers)
    <3>1. t.pevs[i].index < Len(t.pointers) /\ t.pevs[i] \in PackedEvent
      BY <1>1 DEF GoodTrace
    <3>2. t.pevs[i].index \in Nat
      BY <3>1 DEF PackedEvent
    <3>. QED  BY <1>1, <2>1, <2>2, <3>1, <3>2
  <2>5. ASSUME NEW i \in 1 .. Len(t.events), t.events[i].type = "removeSquare"
        PROVE  LeadsBack(dropped, t.events[i])
    <3>1. t.events[i] \in Removal
      BY <1>1, <2>5, EventIsRemoval
    <3>2. LeadsBack(t, t.events[i])
      BY <2>5 DEF GoodTrace
    <3>3. t.last <= dropped.last /\ Len(t.pevs) <= Len(dropped.pevs)
      BY <1>1, <2>2
    <3>. QED  BY <2>1, <2>2, <2>3, <3>1, <3>2, <3>3, StillLeadsBack
  <2>6. /\ (t.last = 0 <=> t.pevs = <<>>) /\ (t.last = 0 <=> t.first = 0)
        /\ t.pevs # <<>> /\ t.last * Micros < DeltaRange => OnTime(t, Len(t.pevs) - 1, t.last)
    BY DEF GoodTrace
  <2>7. \A k, time : OnTime(t, k, time) => OnTime(dropped, k, time)
    BY <2>3 DEF OnTime
  <2>. QED  BY <2>2, <2>4, <2>5, <2>6, <2>7 DEF GoodTrace
<1>5. /\ Append(t.events, e) \in Seq(PlainInput \union Removal)
      /\ Len(Append(t.events, e)) = Len(t.events) + 1
      /\ TypesOf(t.events) \subseteq TypesOf(Append(t.events, e))
      /\ "removeSquare" \in TypesOf(Append(t.events, e))
  <2>1. e \in PlainInput \union Removal /\ e.type = "removeSquare"
    BY <1>1 DEF Removal
  <2>. HIDE DEF e
  <2>. QED  BY <1>1, <2>1 DEF TypesOf
<1>. HIDE DEF p, q, e
<1>6. CASE in.type = "removeSquare"
  <2>1. Traced(t, in) = Kept(Append(t.events, e))
    BY <1>2, <1>6
  <2>2. /\ GoodTrace(Kept(Append(t.events, e))) /\ Kept(Append(t.events, e)).first > 0
        /\ Kept(Append(t.events, e)).pointers # <<>>
    BY <1>3, <1>5, <1>6
  <2>3. /\ Kept(Append(t.events, e)).last = in.time
        /\ Kept(Append(t.events, e)).events = Append(t.events, e)
    OBVIOUS
  <2>4. "removeSquare" \notin Untold
    BY DEF Untold, Dedup
  <2>5. GrowsBy(t, Traced(t, in), in)
    BY <1>5, <1>6, <2>1, <2>3, <2>4 DEF GrowsBy
  <2>. QED  BY <1>5, <2>1, <2>2, <2>3, <2>5
<1>7. CASE in.type # "removeSquare" /\ (t.last = 0 \/ p.delta >= SmoothGap)
  <2>1. Traced(t, in) = Kept(t.events)
    BY <1>2, <1>7
  <2>2. GoodTrace(Kept(t.events))
    BY <1>1, <1>3
  <2>3. Kept(t.events).last = in.time /\ Kept(t.events).events = t.events
    OBVIOUS
  <2>. QED  BY <1>7, <2>1, <2>2, <2>3 DEF GrowsBy
<1>8. CASE in.type # "removeSquare" /\ ~(t.last = 0 \/ p.delta >= SmoothGap)
  <2>1. Traced(t, in) = dropped /\ t.last # 0
    BY <1>2, <1>8
  <2>2. GoodTrace(dropped)
    BY <1>4, <2>1
  <2>3. dropped.last = t.last /\ dropped.events = t.events
    OBVIOUS
  <2>. QED  BY <1>8, <2>1, <2>2, <2>3 DEF GrowsBy
<1>. QED  BY <1>6, <1>7, <1>8

(* Any other input: it is added, or takes the place of an event that is of   *)
(* its type or not to be deduplicated.                                      *)
LEMMA DeduplicatedGood ==
  ASSUME NEW t, GoodTrace(t), NEW in \in PlainInput
  PROVE  /\ GoodTrace(Deduplicated(t, in))
         /\ Deduplicated(t, in).last = t.last
         /\ Dedup \intersect TypesOf(t.events) \subseteq TypesOf(Deduplicated(t, in).events)
         /\ in.type \in TypesOf(Deduplicated(t, in).events)
         /\ \/ Len(Deduplicated(t, in).events) = Len(t.events)
            \/ /\ Len(Deduplicated(t, in).events) = Len(t.events) + 1
               /\ in.type \notin TypesOf(t.events)
<1>. DEFINE u == Deduplicated(t, in)  s == t.events
            k == CHOOSE i \in Stops(t, in) : \A j \in Stops(t, in) : j <= i
            D == PlainInput \union Removal
<1>1. t \in TraceRecord /\ s \in Seq(D) /\ Len(s) \in Nat /\ in \in D
  BY DEF GoodTrace, TraceRecord
<1>2. /\ Stops(t, in) \subseteq 1 .. Len(s)
      /\ \A i \in Stops(t, in) : s[i].type \notin Dedup \/ s[i].type = in.type
  BY <1>1 DEF Stops
<1>3. ASSUME Stops(t, in) # {} PROVE k \in Stops(t, in)
  <2>. DEFINE Back == {Len(s) - i : i \in Stops(t, in)}
  <2>1. Back \in SUBSET Nat /\ Back # {}
    BY <1>1, <1>2, <1>3
  <2>2. PICK b \in Back : \A c \in Back : b <= c
    <3>. HIDE DEF Back
    <3>. QED  BY <2>1, TimeSum!LeastNumber
  <2>3. PICK i \in Stops(t, in) : b = Len(s) - i
    OBVIOUS
  <2>4. ASSUME NEW j \in Stops(t, in) PROVE j <= i
    <3>1. Len(s) - j \in Back
      OBVIOUS
    <3>2. Len(s) - i <= Len(s) - j
      BY <2>2, <2>3, <3>1
    <3>. QED  BY <1>1, <1>2, <3>2
  <2>. QED  BY <2>4
<1>. HIDE DEF k
<1>4. /\ u = [t EXCEPT !.events = u.events] /\ u.events \in Seq(D)
      /\ \A i \in 1 .. Len(u.events) : u.events[i] = in \/ (i \in 1 .. Len(s) /\ u.events[i] = s[i])
      /\ \E i \in 1 .. Len(u.events) : u.events[i] = in
      /\ \A i \in 1 .. Len(s) :
           /\ i \in 1 .. Len(u.events)
           /\ u.events[i] = s[i] \/ (u.events[i] = in /\ (s[i].type \notin Dedup \/ s[i].type = in.type))
      /\ Len(u.events) = Len(s) \/ (Len(u.events) = Len(s) + 1 /\ Stops(t, in) = {})
  <2>1. CASE Stops(t, in) = {}
    <3>1. u = [t EXCEPT !.events = Append(@, in)]
      BY <2>1 DEF Deduplicated
    <3>. HIDE DEF u
    <3>2. u.events = Append(s, in)
      BY <1>1, <3>1 DEF TraceRecord
    <3>3. u = [t EXCEPT !.events = u.events]
      BY <3>1, <3>2
    <3>. HIDE DEF s, D
    <3>4. /\ Append(s, in) \in Seq(D) /\ Len(Append(s, in)) = Len(s) + 1
          /\ Append(s, in)[Len(s) + 1] = in
          /\ \A i \in 1 .. Len(s) : Append(s, in)[i] = s[i]
      BY <1>1
    <3>. QED  BY <1>1, <2>1, <3>2, <3>3, <3>4
  <2>2. CASE Stops(t, in) # {}
    <3>1. u = [t EXCEPT !.events[k] = in]
      BY <2>2 DEF Deduplicated, k
    <3>. HIDE DEF u
    <3>2. u.events = [s EXCEPT ![k] = in]
      BY <1>1, <3>1 DEF TraceRecord
    <3>3. u = [t EXCEPT !.events = u.events]
      BY <3>1, <3>2
    <3>4. k \in 1 .. Len(s) /\ (s[k].type \notin Dedup \/ s[k].type = in.type)
      BY <1>2, <1>3, <2>2
    <3>. HIDE DEF s, D
    <3>5. /\ u.events \in Seq(D) /\ Len(u.events) = Len(s) /\ u.events[k] = in
          /\ \A i \in 1 .. Len(s) : i # k => u.events[i] = s[i]
      BY <1>1, <3>2, <3>4
    <3>. QED  BY <3>3, <3>4, <3>5
  <2>. QED  BY <2>1, <2>2
<1>. HIDE DEF u
<1>5. /\ u \in TraceRecord /\ u.pointers = t.pointers /\ u.pevs = t.pevs
      /\ u.first = t.first /\ u.last = t.last
  BY <1>1, <1>4 DEF TraceRecord
<1>6. \A n, time : OnTime(t, n, time) => OnTime(u, n, time)
  <2>1. \A i : TimeOf(u, i) = TimeOf(t, i)
    BY <1>5 DEF TimeOf
  <2>. QED  BY <2>1 DEF OnTime
<1>7. in.type # "removeSquare"
  BY DEF PlainInput, PlainType, Dedup
<1>8. ASSUME NEW i \in 1 .. Len(u.events), u.events[i].type = "removeSquare"
      PROVE  LeadsBack(u, u.events[i])
  <2>1. i \in 1 .. Len(s) /\ u.events[i] = s[i]
    BY <1>4, <1>7, <1>8
  <2>2. LeadsBack(t, s[i])
    BY <1>8, <2>1 DEF GoodTrace
  <2>. QED  BY <1>5, <1>6, <2>1, <2>2 DEF LeadsBack
<1>9. GoodTrace(u)
  BY <1>5, <1>6, <1>8 DEF GoodTrace
<1>10. in.type \in TypesOf(u.events)
  BY <1>4 DEF TypesOf
<1>11. ASSUME NEW x \in Dedup \intersect TypesOf(s) PROVE x \in TypesOf(u.events)
  <2>1. PICK i \in 1 .. Len(s) : s[i].type = x
    BY DEF TypesOf
  <2>2. \/ u.events[i] = s[i]
        \/ u.events[i] = in /\ s[i].type = in.type
    BY <1>4, <1>11, <2>1
  <2>3. u.events[i].type = x /\ i \in 1 .. Len(u.events)
    BY <1>4, <2>1, <2>2
  <2>. QED  BY <2>3 DEF TypesOf
<1>12. Stops(t, in) = {} => in.type \notin TypesOf(s)
  BY <1>1 DEF Stops, TypesOf
<1>. QED  BY <1>4, <1>5, <1>9, <1>10, <1>11, <1>12 DEF u

(* One more input of any kind.                                              *)
LEMMA FlushOneGood ==
  ASSUME NEW t, GoodTrace(t), NEW in \in Input, IsPointed(in) => t.last <= in.time
  PROVE  /\ GoodTrace(FlushOne(t, in))
         /\ \/ FlushOne(t, in).last = t.last
            \/ IsPointed(in) /\ FlushOne(t, in).last = in.time
         /\ Dedup \intersect TypesOf(t.events) \subseteq TypesOf(FlushOne(t, in).events)
         /\ in.type \in Dedup => in.type \in TypesOf(FlushOne(t, in).events)
         /\ in.type = "removeSquare" =>
              /\ "removeSquare" \in TypesOf(FlushOne(t, in).events)
              /\ FlushOne(t, in).first > 0 /\ FlushOne(t, in).pointers # <<>>
         /\ GrowsBy(t, FlushOne(t, in), in)
<1>1. CASE in \in PointedInput
  <2>1. in.type \in {"removeSquare", "pointerMove"} /\ in.type \notin Dedup /\ IsPointed(in)
    BY <1>1 DEF PointedInput, PointedType, IsPointed, Dedup
  <2>2. FlushOne(t, in) = Traced(t, in)
    BY <2>1 DEF FlushOne
  <2>3. t.last <= in.time
    BY <2>1
  <2>4. /\ GoodTrace(Traced(t, in)) /\ Traced(t, in).last \in {t.last, in.time}
        /\ TypesOf(t.events) \subseteq TypesOf(Traced(t, in).events)
        /\ GrowsBy(t, Traced(t, in), in)
        /\ in.type = "removeSquare" =>
             /\ "removeSquare" \in TypesOf(Traced(t, in).events)
             /\ Traced(t, in).first > 0 /\ Traced(t, in).pointers # <<>>
    BY <1>1, <2>3, TracedGood
  <2>. QED  BY <2>1, <2>2, <2>4
<1>2. CASE in \in PlainInput
  <2>1. in.type \notin {"removeSquare", "pointerMove"} /\ in.type \in PlainType
    BY <1>2 DEF PlainInput, PlainType, Dedup
  <2>2. CASE in.type = "metadata"
    <3>1. FlushOne(t, in) = t /\ in.type \notin Dedup
      BY <2>1, <2>2 DEF FlushOne, Dedup
    <3>. QED  BY <2>1, <3>1 DEF GrowsBy
  <2>3. CASE in.type # "metadata"
    <3>1. FlushOne(t, in) = Deduplicated(t, in)
      BY <2>1, <2>3 DEF FlushOne
    <3>2. in.type \notin Untold \/ in.type \in Dedup
      BY <2>1, <2>3 DEF Untold
    <3>3. GrowsBy(t, Deduplicated(t, in), in)
      BY <1>2, <3>2, DeduplicatedGood DEF GrowsBy
    <3>. QED  BY <1>2, <2>1, <3>1, <3>3, DeduplicatedGood
  <2>. QED  BY <2>2, <2>3
<1>. QED  BY <1>1, <1>2 DEF Input

LEMMA FlushIsFold ==
  ASSUME NEW s
  PROVE  Flush(s) = FlushFold!FoldLeft(FlushOne, NoTrace, s)
<1>. DEFINE base == NoTrace
<1>1. Flush(s) = FoldLeft(FlushOne, base, s)
  BY DEF Flush
<1>. HIDE DEF base
<1>2. FoldLeft(FlushOne, base, s) = FlushFold!FoldLeft(FlushOne, base, s)
  BY DEF FoldLeft, MapThenFoldSet, Max, FlushFold!FoldLeft, FlushFold!MapThenFoldSet, FlushFold!Max
<1>. QED  BY <1>1, <1>2 DEF base

LEMMA NoTraceGood == GoodTrace(NoTrace)
<1>1. /\ NoTrace.last = 0 /\ NoTrace.first = 0 /\ NoTrace.pevs = <<>> /\ NoTrace.events = <<>>
      /\ Len(NoTrace.pevs) = 0 /\ Len(NoTrace.events) = 0 /\ NoTrace.pevs \in Seq(PackedEvent)
  BY DEF NoTrace
<1>2. NoTrace \in TraceRecord
  BY DEF NoTrace, TraceRecord
<1>. QED  BY <1>1, <1>2 DEF GoodTrace

(* The types that are deduplicated are a few.                               *)
LEMMA FewTypes ==
  ASSUME NEW t
  PROVE  /\ IsFiniteSet(Dedup \intersect TypesOf(t.events)) /\ Cardinality(Dedup) \in Nat
         /\ Cardinality(Dedup \intersect TypesOf(t.events)) \in Nat
         /\ Cardinality(Dedup \intersect TypesOf(t.events)) <= Cardinality(Dedup)
<1>. DEFINE A == {"gridResize"}  B == A \union {"orientationChange"}  C == B \union {"viewport"}
<1>1. Dedup = C \union {"theme"}
  BY DEF Dedup
<1>2. IsFiniteSet(Dedup)
  <2>1. IsFiniteSet(A)
    BY FS_Singleton
  <2>2. IsFiniteSet(B)
    BY <2>1, FS_AddElement
  <2>3. IsFiniteSet(C)
    BY <2>2, FS_AddElement
  <2>. QED  BY <1>1, <2>3, FS_AddElement
<1>3. Dedup \intersect TypesOf(t.events) \subseteq Dedup
  OBVIOUS
<1>. QED  BY <1>2, <1>3, FS_Subset, FS_CardinalityType

(* Few events stay few.                                                     *)
LEMMA StillFew ==
  ASSUME NEW s \in Seq(Input), NEW k \in Nat, k < Len(s), NEW t, Few(t, s, k),
         NEW u, Len(t.events) \in Nat, GrowsBy(t, u, s[k + 1]),
         Dedup \intersect TypesOf(t.events) \subseteq TypesOf(u.events),
         s[k + 1].type \in Dedup => s[k + 1].type \in TypesOf(u.events)
  PROVE  Few(u, s, k + 1)
<1>. DEFINE in == s[k + 1]
            A == ToldOf(s, k)  B == ToldOf(s, k + 1)
            C == Dedup \intersect TypesOf(t.events)  D == Dedup \intersect TypesOf(u.events)
<1>1. IsFiniteSet(A) /\ IsFiniteSet(B) /\ IsFiniteSet(C) /\ IsFiniteSet(D)
  <2>1. IsFiniteSet(1 .. k) /\ IsFiniteSet(1 .. k + 1)
    BY FS_Interval
  <2>2. A \subseteq 1 .. k /\ B \subseteq 1 .. k + 1
    BY DEF ToldOf
  <2>3. IsFiniteSet(A) /\ IsFiniteSet(B)
    BY <2>1, <2>2, FS_Subset
  <2>. QED  BY <2>3, FewTypes
<1>2. A \subseteq B /\ C \subseteq D
  BY DEF ToldOf
<1>3. in.type \notin Untold => A \union {k + 1} \subseteq B /\ k + 1 \notin A
  BY DEF ToldOf
<1>4. in.type \in Dedup \ TypesOf(t.events) => C \union {in.type} \subseteq D /\ in.type \notin C
  OBVIOUS
<1>5. Len(t.events) <= Cardinality(A) + Cardinality(C)
  BY DEF Few
<1>6. \/ Len(u.events) = Len(t.events)
      \/ /\ Len(u.events) = Len(t.events) + 1
         /\ in.type \notin Untold \/ in.type \in Dedup \ TypesOf(t.events)
  BY DEF GrowsBy
<1>. HIDE DEF A, B, C, D, in
<1>7. /\ Cardinality(A) \in Nat /\ Cardinality(B) \in Nat /\ Cardinality(A) <= Cardinality(B)
      /\ Cardinality(C) \in Nat /\ Cardinality(D) \in Nat /\ Cardinality(C) <= Cardinality(D)
  BY <1>1, <1>2, FS_CardinalityType, FS_Subset
<1>8. in.type \notin Untold => Cardinality(A) + 1 <= Cardinality(B)
  <2>1. ASSUME in.type \notin Untold PROVE Cardinality(A) + 1 <= Cardinality(B)
    <3>1. Cardinality(A \union {k + 1}) = Cardinality(A) + 1
      BY <1>1, <1>3, <2>1, FS_AddElement
    <3>2. Cardinality(A \union {k + 1}) <= Cardinality(B)
      BY <1>1, <1>3, <2>1, FS_Subset
    <3>. QED  BY <3>1, <3>2
  <2>. QED  BY <2>1
<1>9. in.type \in Dedup \ TypesOf(t.events) => Cardinality(C) + 1 <= Cardinality(D)
  <2>1. ASSUME in.type \in Dedup \ TypesOf(t.events) PROVE Cardinality(C) + 1 <= Cardinality(D)
    <3>1. Cardinality(C \union {in.type}) = Cardinality(C) + 1
      BY <1>1, <1>4, <2>1, FS_AddElement
    <3>2. Cardinality(C \union {in.type}) <= Cardinality(D)
      BY <1>1, <1>4, <2>1, FS_Subset
    <3>. QED  BY <3>1, <3>2
  <2>. QED  BY <2>1
<1>10. Len(u.events) <= Cardinality(B) + Cardinality(D)
  BY <1>5, <1>6, <1>7, <1>8, <1>9
<1>. QED  BY <1>10 DEF Few, B, D

(* All the inputs of a game, in the order in which they were traced.         *)
LEMMA FlushGood ==
  ASSUME NEW s \in Seq(Input), NEW now \in Nat, InTime(s, now)
  PROVE  /\ GoodTrace(Flush(s)) /\ Flush(s).last <= now
         /\ Dedup \intersect TypesOf(s) \subseteq TypesOf(Flush(s).events)
         /\ Few(Flush(s), s, Len(s))
<1>. DEFINE n == Len(s)
<1>1. PICK it : /\ it[0] = NoTrace
                /\ \A k \in 1 .. n : it[k] = FlushOne(it[k - 1], s[k])
                /\ FlushFold!FoldLeft(FlushOne, NoTrace, s) = it[n]
  BY FlushFold!FoldRuns
<1>2. n \in Nat /\ \A k \in 1 .. n : s[k] \in Input
  OBVIOUS
<1>. DEFINE From(k) == \E j \in 1 .. k : IsPointed(s[j]) /\ it[k].last = s[j].time
            Kept(k) == \A j \in 1 .. k : s[j].type \in Dedup => s[j].type \in TypesOf(it[k].events)
            S == {k \in 0 .. n : GoodTrace(it[k]) /\ (it[k].last = 0 \/ From(k)) /\ Kept(k)
                                 /\ Few(it[k], s, k)}
<1>3. 0 \in S
  <2>1. it[0].last = 0 /\ Kept(0) /\ 0 \in 0 .. n
    BY <1>1, <1>2 DEF NoTrace
  <2>2. Few(NoTrace, s, 0)
    <3>1. NoTrace.events = <<>> /\ TypesOf(<<>>) = {} /\ ToldOf(s, 0) = {} /\ Len(<<>>) = 0
      BY DEF NoTrace, TypesOf, ToldOf
    <3>2. Dedup \intersect TypesOf(<<>>) = {}
      BY <3>1
    <3>3. 0 <= Cardinality({}) + Cardinality({})
      BY FS_EmptySet
    <3>. QED  BY <3>1, <3>2, <3>3, Zenon DEF Few
  <2>. QED  BY <1>1, <2>1, <2>2, NoTraceGood
<1>4. ASSUME NEW k \in 0 .. n - 1, k \in S PROVE k + 1 \in S
  <2>. DEFINE in == s[k + 1]
  <2>1. k + 1 \in 1 .. n /\ k + 1 \in 0 .. n /\ (k + 1) - 1 = k /\ k \in Nat
    BY <1>2
  <2>2. it[k + 1] = FlushOne(it[k], in) /\ in \in Input
    BY <1>1, <1>2, <2>1
  <2>3. GoodTrace(it[k]) /\ (it[k].last = 0 \/ From(k)) /\ Kept(k) /\ Few(it[k], s, k)
    BY <1>4
  <2>. HIDE DEF S
  <2>4. ASSUME IsPointed(in) PROVE it[k].last <= in.time
    <3>1. CASE it[k].last = 0
      <4>1. in \in PointedInput
        BY <2>2, <2>4 DEF Input, IsPointed, PlainInput, PlainType, PointedType, Dedup
      <4>. QED  BY <3>1, <4>1 DEF PointedInput
    <3>2. CASE From(k)
      <4>1. PICK j \in 1 .. k : IsPointed(s[j]) /\ it[k].last = s[j].time
        BY <3>2
      <4>2. j \in 1 .. n /\ k + 1 \in j .. n
        BY <1>2, <2>1
      <4>3. s[j].time <= s[k + 1].time
        BY <2>4, <4>1, <4>2 DEF InTime
      <4>. QED  BY <4>1, <4>3
    <3>. QED  BY <2>3, <3>1, <3>2
  <2>5. /\ GoodTrace(it[k + 1])
        /\ it[k + 1].last = it[k].last \/ (IsPointed(in) /\ it[k + 1].last = in.time)
        /\ Dedup \intersect TypesOf(it[k].events) \subseteq TypesOf(it[k + 1].events)
        /\ in.type \in Dedup => in.type \in TypesOf(it[k + 1].events)
        /\ GrowsBy(it[k], it[k + 1], in)
    <3>. HIDE DEF in
    <3>. QED  BY <2>2, <2>3, <2>4, FlushOneGood
  <2>6. it[k + 1].last = 0 \/ From(k + 1)
    <3>1. CASE it[k + 1].last = it[k].last
      <4>1. \A j \in 1 .. k : j \in 1 .. k + 1
        BY <2>1
      <4>. QED  BY <2>3, <3>1, <4>1
    <3>2. CASE IsPointed(in) /\ it[k + 1].last = in.time
      <4>1. k + 1 \in 1 .. k + 1
        BY <2>1
      <4>. QED  BY <3>2, <4>1
    <3>. QED  BY <2>5, <3>1, <3>2
  <2>7. Kept(k + 1)
    <3>1. ASSUME NEW j \in 1 .. k + 1, s[j].type \in Dedup PROVE s[j].type \in TypesOf(it[k + 1].events)
      <4>1. CASE j = k + 1
        BY <2>5, <3>1, <4>1
      <4>2. CASE j # k + 1
        <5>1. j \in 1 .. k
          BY <2>1, <4>2
        <5>. QED  BY <2>3, <2>5, <3>1, <5>1
      <4>. QED  BY <4>1, <4>2
    <3>. QED  BY <3>1
  <2>8. Few(it[k + 1], s, k + 1)
    <3>1. k < Len(s) /\ k \in Nat /\ Len(it[k].events) \in Nat
      BY <1>2, <2>1, <2>3 DEF GoodTrace, TraceRecord
    <3>. QED  BY <2>3, <2>5, <3>1, StillFew
  <2>. QED  BY <2>1, <2>5, <2>6, <2>7, <2>8 DEF S
<1>5. n \in S
  <2>1. n \in 0 .. n
    BY <1>2
  <2>. HIDE DEF S
  <2>. QED  BY <1>2, <1>3, <1>4, <2>1, FlushFold!Climb
<1>6. Flush(s) = it[n]
  BY <1>1, FlushIsFold
<1>7. GoodTrace(it[n]) /\ (it[n].last = 0 \/ From(n)) /\ Kept(n) /\ Few(it[n], s, n)
  BY <1>5
<1>8. it[n].last <= now
  <2>1. CASE From(n)
    BY <2>1 DEF InTime
  <2>. QED  BY <1>7, <2>1
<1>9. Dedup \intersect TypesOf(s) \subseteq TypesOf(it[n].events)
  BY <1>7 DEF TypesOf
<1>. QED  BY <1>6, <1>7, <1>8, <1>9

(* The click that ends a game comes last.                                    *)
LEMMA LastClickReadable ==
  ASSUME NEW s \in Seq(Input), NEW now \in Nat, InTime(s, now), Dedup \subseteq TypesOf(s),
         NEW in \in PointedInput, in.type = "removeSquare", now <= in.time,
         NEW t, t = Flush(Append(s, in))
  PROVE  /\ Accepts(t)
         /\ \A e \in RemovalEvents(t) :
              /\ Len(t.pointers) <= IndexRange =>
                   t.pointers[1 + (t.pevs[e.pev + 1].index % IndexRange)] = [dev |-> e.dev, move |-> FALSE]
              /\ e.time * Micros < DeltaRange => OnTime(t, e.pev, e.time)
<1>. DEFINE v == Flush(s)
<1>1. GoodTrace(v) /\ v.last <= now /\ Dedup \subseteq TypesOf(v.events)
  BY FlushGood
<1>2. in \in Input
  BY DEF Input
<1>3. t = FlushOne(v, in)
  <2>. DEFINE base == NoTrace
  <2>1. t = FlushFold!FoldLeft(FlushOne, base, Append(s, in)) /\ v = FlushFold!FoldLeft(FlushOne, base, s)
    BY FlushIsFold
  <2>. HIDE DEF base, v
  <2>2. FlushFold!FoldLeft(FlushOne, base, Append(s, in))
          = FlushOne(FlushFold!FoldLeft(FlushOne, base, s), in)
    BY <1>2, FlushFold!FoldOfMore
  <2>. QED  BY <2>1, <2>2
<1>. HIDE DEF v
<1>4. v.last <= in.time
  BY <1>1 DEF PointedInput, GoodTrace, TraceRecord
<1>5. /\ GoodTrace(t)
      /\ Dedup \intersect TypesOf(v.events) \subseteq TypesOf(t.events)
      /\ "removeSquare" \in TypesOf(t.events) /\ t.first > 0 /\ t.pointers # <<>>
  BY <1>1, <1>2, <1>3, <1>4, FlushOneGood
<1>6. /\ t \in TraceRecord /\ t.events \in Seq(PlainInput \union Removal)
      /\ t.pevs \in Seq(PackedEvent) /\ t.pointers \in Seq(Pointer)
      /\ Len(t.pevs) \in Nat /\ Len(t.pointers) \in Nat
  BY <1>5 DEF GoodTrace, TraceRecord
<1>7. HasKeyEvents(t)
  <2>1. {t.events[i].type : i \in DOMAIN t.events} = TypesOf(t.events)
    BY <1>6 DEF TypesOf
  <2>. QED  BY <1>1, <1>5, <2>1 DEF HasKeyEvents
<1>8. ASSUME NEW i \in 1 .. Len(t.pevs)
      PROVE  /\ t.pevs[i].index % IndexRange < Len(t.pointers)
             /\ Len(t.pointers) <= IndexRange => t.pevs[i].index % IndexRange = t.pevs[i].index
  <2>. DEFINE x == t.pevs[i].index  l == Len(t.pointers)
  <2>1. x \in Nat /\ x < l /\ IndexRange \in Nat \ {0} /\ l \in Nat
    <3>1. t.pevs[i] \in PackedEvent
      BY <1>6
    <3>. QED  BY <1>5, <1>6, <3>1, TraceAssumption DEF GoodTrace, PackedEvent
  <2>. HIDE DEF x, l
  <2>2. x % IndexRange \in Nat /\ x % IndexRange <= x
    BY <2>1, RemainderSmall
  <2>3. x % IndexRange < l
    BY <2>1, <2>2
  <2>4. l <= IndexRange => x % IndexRange = x
    BY <2>1, SmallRemainder
  <2>. QED  BY <2>3, <2>4 DEF x, l
<1>9. ASSUME NEW e \in RemovalEvents(t)
      PROVE  /\ LeadsBack(t, e) /\ e.pev \in Nat /\ e.pev + 1 \in 1 .. Len(t.pevs)
             /\ t.pevs[e.pev + 1].index \in Nat
  <2>1. PICK i \in 1 .. Len(t.events) : e = t.events[i] /\ e.type = "removeSquare"
    BY <1>6 DEF RemovalEvents, ToSet
  <2>2. e.pev \in Nat
    BY <1>6, <2>1, EventIsRemoval
  <2>3. LeadsBack(t, e)
    BY <1>5, <2>1 DEF GoodTrace
  <2>4. e.pev + 1 \in 1 .. Len(t.pevs)
    BY <1>6, <2>2, <2>3 DEF LeadsBack
  <2>5. t.pevs[e.pev + 1] \in PackedEvent
    BY <1>6, <2>4
  <2>. QED  BY <2>2, <2>3, <2>4, <2>5 DEF PackedEvent
<1>10. Accepts(t)
  <2>1. DOMAIN t.pevs = 1 .. Len(t.pevs)
    BY <1>6
  <2>2. \A e \in RemovalEvents(t) : e.pev < Len(t.pevs)
    BY <1>9 DEF LeadsBack
  <2>. QED  BY <1>5, <1>7, <1>8, <2>1, <2>2 DEF Accepts
<1>11. ASSUME NEW e \in RemovalEvents(t), Len(t.pointers) <= IndexRange
       PROVE  t.pointers[1 + (t.pevs[e.pev + 1].index % IndexRange)] = [dev |-> e.dev, move |-> FALSE]
  <2>1. t.pevs[e.pev + 1].index % IndexRange = t.pevs[e.pev + 1].index
    BY <1>8, <1>9, <1>11
  <2>2. 1 + t.pevs[e.pev + 1].index = t.pevs[e.pev + 1].index + 1
    BY <1>9
  <2>. QED  BY <1>9, <2>1, <2>2 DEF LeadsBack
<1>. QED  BY <1>9, <1>10, <1>11 DEF LeadsBack

-----------------------------------------------------------------------------
(* The inputs of a page, action by action.                                  *)
LEMMA InTimeAfter ==
  ASSUME NEW s \in Seq(Input), NEW r \in Seq(Input), NEW now \in Nat, NEW then \in Nat,
         InTime(s, now), now <= then,
         \A i \in 1 .. Len(r) : IsPointed(r[i]) => r[i].time = then
  PROVE  /\ s \o r \in Seq(Input) /\ InTime(s \o r, then)
         /\ TypesOf(s) \union TypesOf(r) \subseteq TypesOf(s \o r)
<1>. DEFINE q == s \o r  n == Len(s)
<1>1. /\ q \in Seq(Input) /\ n \in Nat /\ Len(r) \in Nat /\ Len(q) = n + Len(r)
      /\ \A i \in 1 .. n : q[i] = s[i]
      /\ \A i \in 1 .. Len(r) : q[n + i] = r[i]
  OBVIOUS
<1>. HIDE DEF q, n
<1>2. ASSUME NEW i \in 1 .. Len(q)
      PROVE  (i \in 1 .. n /\ q[i] = s[i]) \/ (i - n \in 1 .. Len(r) /\ q[i] = r[i - n] /\ i > n)
  <2>1. CASE i <= n
    BY <1>1, <2>1
  <2>2. CASE i > n
    <3>1. i - n \in 1 .. Len(r) /\ n + (i - n) = i
      BY <1>1, <2>2
    <3>. QED  BY <1>1, <2>2, <3>1
  <2>. QED  BY <1>1, <2>1, <2>2
<1>3. \A i \in 1 .. n : s[i] \in Input
  BY DEF n
<1>4. ASSUME NEW i \in 1 .. n, IsPointed(s[i]) PROVE s[i].time \in Nat /\ s[i].time <= now
  <2>1. s[i] \in PointedInput
    BY <1>3, <1>4 DEF Input, IsPointed, PlainInput, PlainType, PointedType, Dedup
  <2>. QED  BY <1>4, <2>1 DEF PointedInput, InTime, n
<1>5. ASSUME NEW i \in 1 .. Len(q), IsPointed(q[i])
      PROVE  /\ q[i].time <= then
             /\ \A j \in i .. Len(q) : IsPointed(q[j]) => q[i].time <= q[j].time
  <2>1. CASE i \in 1 .. n /\ q[i] = s[i]
    <3>1. s[i].time \in Nat /\ s[i].time <= now
      BY <1>4, <1>5, <2>1
    <3>2. ASSUME NEW j \in i .. Len(q), IsPointed(q[j]) PROVE q[i].time <= q[j].time
      <4>0. j \in 1 .. Len(q) /\ j >= i
        BY <1>1, <2>1
      <4>1. CASE j \in 1 .. n /\ q[j] = s[j]
        <5>1. j \in i .. n
          BY <4>0, <4>1
        <5>. QED  BY <1>5, <2>1, <3>2, <4>1, <5>1 DEF InTime, n
      <4>2. CASE j - n \in 1 .. Len(r) /\ q[j] = r[j - n]
        <5>1. q[j].time = then
          BY <3>2, <4>2
        <5>. QED  BY <2>1, <3>1, <5>1
      <4>. QED  BY <1>2, <4>0, <4>1, <4>2
    <3>. QED  BY <2>1, <3>1, <3>2
  <2>2. CASE i - n \in 1 .. Len(r) /\ q[i] = r[i - n] /\ i > n
    <3>1. q[i].time = then
      BY <1>5, <2>2
    <3>2. ASSUME NEW j \in i .. Len(q), IsPointed(q[j]) PROVE q[i].time <= q[j].time
      <4>1. j \in 1 .. Len(q) /\ ~(j \in 1 .. n)
        BY <1>1, <2>2
      <4>2. j - n \in 1 .. Len(r) /\ q[j] = r[j - n]
        BY <1>2, <4>1
      <4>3. q[j].time = then
        BY <3>2, <4>2
      <4>. QED  BY <3>1, <4>3
    <3>. QED  BY <3>1, <3>2
  <2>. QED  BY <1>2, <2>1, <2>2
<1>6. InTime(q, then)
  BY <1>5 DEF InTime
<1>7. TypesOf(s) \subseteq TypesOf(q)
  <2>1. ASSUME NEW i \in 1 .. n PROVE s[i].type \in TypesOf(q)
    <3>1. i \in 1 .. Len(q)
      BY <1>1
    <3>. QED  BY <1>1, <3>1 DEF TypesOf
  <2>. QED  BY <2>1 DEF TypesOf, n
<1>8. TypesOf(r) \subseteq TypesOf(q)
  <2>1. ASSUME NEW i \in 1 .. Len(r) PROVE r[i].type \in TypesOf(q)
    <3>1. n + i \in 1 .. Len(q)
      BY <1>1
    <3>. QED  BY <1>1, <3>1 DEF TypesOf
  <2>. QED  BY <2>1 DEF TypesOf
<1>. QED  BY <1>1, <1>6, <1>7, <1>8 DEF q

LEMMA PlainIsInput ==
  ASSUME NEW type \in PlainType
  PROVE  In(type) \in Input /\ ~IsPointed(In(type)) /\ In(type).type = type
BY DEF In, Input, PlainInput, IsPointed, PlainType, PointedType, Dedup

LEMMA PointedIsInput ==
  ASSUME NEW type \in PointedType, NEW dev \in Device, NEW time \in Nat \ {0}
  PROVE  /\ Pointed(type, dev, time) \in PointedInput /\ Pointed(type, dev, time) \in Input
         /\ Pointed(type, dev, time).time = time /\ Pointed(type, dev, time).type = type
BY DEF Pointed, PointedInput, Input

(* #push, whether the tracer is enabled or not.                             *)
LEMMA PushKeeps ==
  ASSUME TraceInv, NEW r \in Seq(Input), Push(r), clock' \in Nat, clock <= clock',
         \A i \in 1 .. Len(r) : IsPointed(r[i]) => r[i].time = clock'
  PROVE  /\ inputs' \in Seq(Input) /\ InTime(inputs', clock')
         /\ TypesOf(inputs) \subseteq TypesOf(inputs')
<1>1. inputs \in Seq(Input) /\ clock \in Nat /\ InTime(inputs, clock)
  BY DEF TraceInv, TraceTypes
<1>2. CASE enabled
  <2>1. inputs' = inputs \o r
    BY <1>2 DEF Push
  <2>. QED  BY <1>1, <2>1, InTimeAfter
<1>3. CASE ~enabled
  <2>1. inputs' = inputs
    BY <1>3 DEF Push
  <2>2. \A i \in 1 .. Len(inputs) : IsPointed(inputs[i]) => inputs[i].time <= clock'
    <3>1. ASSUME NEW i \in 1 .. Len(inputs), IsPointed(inputs[i]) PROVE inputs[i].time <= clock'
      <4>1. inputs[i] \in PointedInput
        <5>1. inputs[i] \in Input
          BY <1>1
        <5>. QED  BY <3>1, <5>1 DEF Input, IsPointed, PlainInput, PlainType, PointedType, Dedup
      <4>2. inputs[i].time \in Nat /\ inputs[i].time <= clock
        BY <1>1, <3>1, <4>1 DEF InTime, PointedInput
      <4>. QED  BY <1>1, <4>2
    <3>. QED  BY <3>1
  <2>3. InTime(inputs, clock')
    BY <1>1, <2>2 DEF InTime
  <2>. QED  BY <1>1, <2>1, <2>3
<1>. QED  BY <1>2, <1>3

LEMMA InitTrace == TraceInit => TraceInv
<1>. SUFFICES ASSUME TraceInit PROVE TraceInv
  OBVIOUS
<1>1. /\ inputs = <<>> /\ enabled = FALSE /\ stage = "initial" /\ subs = 0 /\ subscribed = FALSE
      /\ clock = 1 /\ sent = <<>> /\ paused = FALSE /\ Len(inputs) = 0 /\ inputs \in Seq(Input)
  BY DEF TraceInit
<1>2. InTime(inputs, clock)
  BY <1>1 DEF InTime
<1>3. TraceTypes
  <2>1. 0 \in Nat /\ 1 \in Nat \ {0}
    OBVIOUS
  <2>2. /\ enabled \in BOOLEAN /\ subscribed \in BOOLEAN /\ (subscribed => subs > 0)
        /\ paused \in BOOLEAN
    BY <1>1, Zenon
  <2>. QED  BY <1>1, <2>1, <2>2, Zenon DEF TraceTypes
<1>4. KeysTraced /\ TraceReadable /\ TraceBounded
  BY <1>1 DEF KeysTraced, TraceReadable, TraceBounded
<1>. QED  BY <1>2, <1>3, <1>4 DEF TraceInv

(* What only traces, and leaves the game and the subscriptions alone.        *)
LEMMA OnlyTraced ==
  ASSUME TraceInv, NEW r \in Seq(Input), Push(r), clock' \in Nat \ {0}, clock <= clock',
         \A i \in 1 .. Len(r) : IsPointed(r[i]) => r[i].time = clock',
         UNCHANGED <<enabled, subs, subscribed, sent>>,
         stage' \in {"initial", "ready", "ongoing"}, stage' # "initial" => stage # "initial",
         paused' \in BOOLEAN
  PROVE  TraceInv'
<1>1. /\ inputs' \in Seq(Input) /\ InTime(inputs', clock')
      /\ TypesOf(inputs) \subseteq TypesOf(inputs')
  BY PushKeeps
<1>2. TraceTypes'
  BY <1>1 DEF TraceInv, TraceTypes
<1>3. KeysTraced'
  BY <1>1 DEF TraceInv, KeysTraced
<1>4. TraceReadable' /\ TraceBounded'
  BY DEF TraceInv, TraceReadable, TraceBounded
<1>. QED  BY <1>1, <1>2, <1>3, <1>4 DEF TraceInv

LEMMA OneTraced ==
  ASSUME TraceInv, NEW in \in Input, Push(<<in>>), clock' \in Nat \ {0}, clock <= clock',
         IsPointed(in) => in.time = clock',
         UNCHANGED <<enabled, subs, subscribed, sent>>,
         stage' \in {"initial", "ready", "ongoing"}, stage' # "initial" => stage # "initial",
         paused' \in BOOLEAN
  PROVE  TraceInv'
<1>. DEFINE r == <<in>>
<1>1. Push(r) /\ r \in Seq(Input) /\ Len(r) = 1 /\ r[1] = in
  OBVIOUS
<1>. HIDE DEF r
<1>2. \A i \in 1 .. Len(r) : IsPointed(r[i]) => r[i].time = clock'
  BY <1>1
<1>. QED  BY <1>1, <1>2, OnlyTraced

(* onGameReady, in the task that traced q.                                   *)
LEMMA ReadyTraced ==
  ASSUME TraceInv, NEW q \in Seq(Input), \A i \in 1 .. Len(q) : ~IsPointed(q[i]), OnGameReady(q),
         UNCHANGED <<clock, sent>>, stage' \in {"initial", "ready", "ongoing"}, paused' \in BOOLEAN
  PROVE  TraceInv'
<1>. DEFINE r == Announced
<1>1. /\ inputs \in Seq(Input) /\ clock \in Nat \ {0} /\ subs \in Nat /\ InTime(inputs, clock)
      /\ TraceReadable /\ TraceBounded
  BY DEF TraceInv, TraceTypes
<1>2. inputs' = (inputs \o q) \o r /\ enabled' = TRUE /\ subs' = subs + 1 /\ subscribed' = TRUE
  BY <1>1 DEF OnGameReady
<1>3. \A type \in {"metadata", "theme", "gridResize", "orientationChange", "viewport"} :
        In(type) \in Input /\ ~IsPointed(In(type)) /\ In(type).type = type
  BY PlainIsInput DEF PlainType, Dedup
<1>4. r \in Seq(Input) /\ Len(r) = 5 /\ \A i \in 1 .. 5 : ~IsPointed(r[i])
  BY <1>3 DEF Announced
<1>5. Dedup \subseteq TypesOf(r)
  <2>1. /\ r[2].type = "theme" /\ r[3].type = "gridResize" /\ r[4].type = "orientationChange"
        /\ r[5].type = "viewport"
    BY <1>3 DEF Announced
  <2>2. 2 \in 1 .. Len(r) /\ 3 \in 1 .. Len(r) /\ 4 \in 1 .. Len(r) /\ 5 \in 1 .. Len(r)
    BY <1>4
  <2>. HIDE DEF r
  <2>. QED  BY <2>1, <2>2 DEF Dedup, TypesOf
<1>. HIDE DEF r
<1>6. /\ inputs' \in Seq(Input) /\ InTime(inputs', clock) /\ Dedup \subseteq TypesOf(inputs')
  <2>. DEFINE s == inputs \o q
  <2>1. s \in Seq(Input) /\ InTime(s, clock)
    BY <1>1, InTimeAfter
  <2>. HIDE DEF s
  <2>3. \A i \in 1 .. Len(r) : IsPointed(r[i]) => r[i].time = clock
    BY <1>4
  <2>2. /\ s \o r \in Seq(Input) /\ InTime(s \o r, clock)
        /\ TypesOf(s) \union TypesOf(r) \subseteq TypesOf(s \o r)
    <3>1. r \in Seq(Input) /\ clock \in Nat /\ clock <= clock
      BY <1>1, <1>4
    <3>. QED  BY <2>1, <2>3, <3>1, InTimeAfter
  <2>. QED  BY <1>2, <1>5, <2>2 DEF s
<1>7. TraceTypes'
  BY <1>1, <1>2, <1>6 DEF TraceTypes
<1>8. KeysTraced'
  BY <1>2, <1>6 DEF KeysTraced
<1>9. TraceReadable' /\ TraceBounded'
  BY <1>1 DEF TraceReadable, TraceBounded
<1>. QED  BY <1>6, <1>7, <1>8, <1>9 DEF TraceInv

LEMMA ClickTraced ==
  ASSUME TraceInv, NEW dev \in Device, NEW gap \in Gap, NEW ends \in BOOLEAN, Click(dev, gap, ends)
  PROVE  TraceInv'
<1>. DEFINE in == Pointed("removeSquare", dev, clock + gap)
<1>1. /\ inputs \in Seq(Input) /\ clock \in Nat \ {0} /\ clock + gap \in Nat \ {0}
      /\ subs \in Nat /\ subscribed \in BOOLEAN /\ (subscribed => subs > 0)
      /\ clock <= clock + gap /\ InTime(inputs, clock) /\ KeysTraced /\ paused \in BOOLEAN
  BY TraceAssumption DEF TraceInv, TraceTypes
<1>2. stage # "initial" /\ clock' = clock + gap /\ UNCHANGED paused
  BY DEF Click, Interactive
<1>3. /\ in \in PointedInput /\ in \in Input /\ in.time = clock + gap /\ in.type = "removeSquare"
  BY <1>1, PointedIsInput DEF PointedType
<1>. HIDE DEF in
<1>4. CASE ends
  <2>. DEFINE t == Flush(Append(inputs, in))
  <2>1. /\ sent' = <<[trace |-> t, clicks |-> Append(removed, clock'), told |-> Told(Append(inputs, in))]>>
        /\ inputs' = <<>> /\ enabled' = FALSE /\ stage' = "initial"
        /\ subs' = (IF subscribed THEN subs - 1 ELSE subs) /\ subscribed' = FALSE
    BY <1>4 DEF Click, in
  <2>2. /\ Accepts(t)
        /\ \A e \in RemovalEvents(t) :
             /\ Len(t.pointers) <= IndexRange =>
                  t.pointers[1 + (t.pevs[e.pev + 1].index % IndexRange)] = [dev |-> e.dev, move |-> FALSE]
             /\ e.time * Micros < DeltaRange => OnTime(t, e.pev, e.time)
    <3>1. Dedup \subseteq TypesOf(inputs) /\ clock <= in.time
      BY <1>1, <1>2, <1>3 DEF KeysTraced
    <3>. QED  BY <1>1, <1>3, <3>1, LastClickReadable
  <2>8. Len(t.events) <= Told(Append(inputs, in)) + Cardinality(Dedup)
    <3>. DEFINE s == Append(inputs, in)  r == <<in>>
    <3>1. s = inputs \o r /\ r \in Seq(Input) /\ Len(r) = 1 /\ r[1] = in
      BY <1>1, <1>3
    <3>2. s \in Seq(Input) /\ InTime(s, clock + gap)
      <4>. HIDE DEF r, s
      <4>. QED  BY <1>1, <1>3, <3>1, InTimeAfter
    <3>. HIDE DEF s
    <3>3. Few(Flush(s), s, Len(s)) /\ GoodTrace(Flush(s))
      BY <1>1, <3>2, FlushGood
    <3>4. Told(s) = Cardinality(ToldOf(s, Len(s)))
      BY DEF Told, ToldOf
    <3>5. Len(Flush(s).events) \in Nat /\ Cardinality(ToldOf(s, Len(s))) \in Nat
      <4>1. Len(s) \in Nat
        BY <3>2
      <4>2. IsFiniteSet(1 .. Len(s)) /\ ToldOf(s, Len(s)) \subseteq 1 .. Len(s)
        BY <4>1, FS_Interval DEF ToldOf
      <4>3. IsFiniteSet(ToldOf(s, Len(s)))
        BY <4>2, FS_Subset
      <4>. QED  BY <3>3, <4>3, FS_CardinalityType DEF GoodTrace, TraceRecord
    <3>6. Len(Flush(s).events) <= Told(s) + Cardinality(Dedup)
      <4>. DEFINE x == Cardinality(Dedup \intersect TypesOf(Flush(s).events))
      <4>1. x \in Nat /\ x <= Cardinality(Dedup) /\ Cardinality(Dedup) \in Nat
        BY FewTypes
      <4>2. Len(Flush(s).events) <= Told(s) + x
        BY <3>3, <3>4 DEF Few
      <4>. HIDE DEF x
      <4>. QED  BY <3>4, <3>5, <4>1, <4>2
    <3>. QED  BY <3>6 DEF s
  <2>. HIDE DEF t
  <2>3. sent'[1].trace = t /\ sent'[1].told = Told(Append(inputs, in))
    BY <2>1
  <2>9. TraceBounded'
    BY <2>3, <2>8 DEF TraceBounded
  <2>4. TraceReadable'
    BY <2>2, <2>3 DEF TraceReadable, OnTime, Slack
  <2>5. inputs' \in Seq(Input) /\ InTime(inputs', clock')
    <3>1. inputs' \in Seq(Input) /\ Len(inputs') = 0
      BY <2>1
    <3>. QED  BY <3>1 DEF InTime
  <2>6. TraceTypes'
    <3>1. subs' \in Nat
      BY <1>1, <2>1
    <3>. QED  BY <1>1, <1>2, <2>1, <2>5, <3>1 DEF TraceTypes
  <2>7. KeysTraced'
    BY <2>1 DEF KeysTraced
  <2>. QED  BY <2>4, <2>5, <2>6, <2>7, <2>9 DEF TraceInv
<1>5. CASE ~ends
  <2>1. Push(<<in>>) /\ stage' = "ongoing" /\ UNCHANGED <<enabled, subs, subscribed, sent>>
    BY <1>5 DEF Click, in
  <2>. QED  BY <1>1, <1>2, <1>3, <2>1, OneTraced
<1>. QED  BY <1>4, <1>5

LEMMA TraceKeeps == TraceInv /\ [TraceNext]_tVars => TraceInv'
<1>. SUFFICES ASSUME TraceInv, [TraceNext]_tVars PROVE TraceInv'
  OBVIOUS
<1>1. /\ clock \in Nat \ {0} /\ subs \in Nat /\ stage \in {"initial", "ready", "ongoing"}
      /\ paused \in BOOLEAN
  BY DEF TraceInv, TraceTypes
<1>2. CASE GetReady
  <2>. DEFINE q == <<>>
  <2>1. q \in Seq(Input) /\ \A i \in 1 .. Len(q) : ~IsPointed(q[i])
    OBVIOUS
  <2>2. OnGameReady(q) /\ stage' = "ready" /\ UNCHANGED <<paused, clock, sent>>
    BY <1>2 DEF GetReady
  <2>. HIDE DEF q
  <2>. QED  BY <1>1, <2>1, <2>2, ReadyTraced
<1>3. CASE PickTheme
  <2>. DEFINE r == [i \in 1 .. subs |-> In("theme")]
  <2>1. Push(r) /\ UNCHANGED <<enabled, stage, paused, subs, subscribed, clock, sent>>
    BY <1>3 DEF PickTheme
  <2>2. In("theme") \in Input /\ ~IsPointed(In("theme"))
    BY PlainIsInput DEF PlainType, Dedup
  <2>3. r \in Seq(Input) /\ \A i \in 1 .. Len(r) : ~IsPointed(r[i])
    BY <1>1, <2>2
  <2>. HIDE DEF r
  <2>. QED  BY <1>1, <2>1, <2>3, OnlyTraced
<1>4. ASSUME NEW type \in PlainType, Push(<<In(type)>>),
             UNCHANGED <<enabled, stage, subs, subscribed, clock, sent>>, paused' \in BOOLEAN
      PROVE  TraceInv'
  <2>1. In(type) \in Input /\ ~IsPointed(In(type))
    BY PlainIsInput
  <2>. QED  BY <1>1, <1>4, <2>1, OneTraced
<1>5. ASSUME NEW type \in {"gridResize", "orientationChange", "viewport"}, WindowChange(type)
      PROVE  TraceInv'
  <2>1. type \in PlainType
    BY DEF PlainType, Dedup
  <2>. QED  BY <1>1, <1>4, <1>5, <2>1 DEF WindowChange
<1>6. CASE PauseGame \/ ResumeInVain
  <2>1. "pause" \in PlainType /\ "resume" \in PlainType
    BY DEF PlainType
  <2>2. CASE PauseGame
    BY <1>4, <2>1, <2>2 DEF PauseGame
  <2>3. CASE ResumeInVain
    BY <1>1, <1>4, <2>1, <2>3 DEF ResumeInVain
  <2>. QED  BY <1>6, <2>2, <2>3
<1>10. CASE ResumeGame
  <2>. DEFINE in == In("resume")  q == <<in>>
  <2>1. in \in Input /\ ~IsPointed(in)
    BY PlainIsInput DEF PlainType
  <2>2. q \in Seq(Input) /\ \A i \in 1 .. Len(q) : ~IsPointed(q[i])
    <3>. HIDE DEF in
    <3>. QED  BY <2>1
  <2>3. paused' \in BOOLEAN /\ UNCHANGED <<stage, clock, sent>>
    BY <1>10 DEF ResumeGame
  <2>4. CASE OnGameReady(q)
    <3>. HIDE DEF q
    <3>. QED  BY <1>1, <2>2, <2>3, <2>4, ReadyTraced
  <2>5. CASE Push(q) /\ UNCHANGED <<enabled, attached, subs, subscribed>>
    <3>. HIDE DEF in
    <3>. QED  BY <1>1, <2>1, <2>3, <2>5, OneTraced
  <2>. QED  BY <1>10, <2>4, <2>5 DEF ResumeGame
<1>7. CASE ResetGame
  <2>. DEFINE r == <<In("forceEnd"), In("prepare")>>
  <2>1. Push(r) /\ stage' = "initial" /\ UNCHANGED <<enabled, paused, subs, subscribed, clock, sent>>
    BY <1>7 DEF ResetGame
  <2>2. \A type \in {"forceEnd", "prepare"} : In(type) \in Input /\ ~IsPointed(In(type))
    BY PlainIsInput DEF PlainType
  <2>3. r \in Seq(Input) /\ \A i \in 1 .. Len(r) : ~IsPointed(r[i])
    BY <2>2
  <2>. HIDE DEF r
  <2>. QED  BY <1>1, <2>1, <2>3, OnlyTraced
<1>8. ASSUME NEW dev \in Device, NEW gap \in Gap, Move(dev, gap)
      PROVE  TraceInv'
  <2>. DEFINE in == Pointed("pointerMove", dev, clock')
  <2>1. /\ Push(<<in>>) /\ clock' = clock + gap
        /\ UNCHANGED <<enabled, stage, paused, subs, subscribed, sent>>
    BY <1>8 DEF Move
  <2>2. clock' \in Nat \ {0} /\ clock <= clock'
    BY <1>1, <2>1, TraceAssumption
  <2>3. in \in Input /\ in.time = clock'
    BY <2>2, PointedIsInput DEF PointedType
  <2>. HIDE DEF in
  <2>. QED  BY <1>1, <2>1, <2>2, <2>3, OneTraced
<1>9. CASE UNCHANGED tVars
  <2>1. UNCHANGED <<inputs, enabled, stage, paused, subs, subscribed, clock, sent>>
    BY <1>9 DEF tVars
  <2>2. TraceTypes' /\ InTime(inputs', clock') /\ KeysTraced' /\ TraceReadable' /\ TraceBounded'
    BY <2>1 DEF TraceInv, TraceTypes, KeysTraced, TraceReadable, TraceBounded
  <2>. QED  BY <2>2 DEF TraceInv
<1>. QED  BY <1>2, <1>3, <1>5, <1>6, <1>7, <1>8, <1>9, <1>10, ClickTraced DEF TraceNext

(* The inputs of a page are in the order of their times, and a game that was *)
(* made ready has traced what the server asks for.                          *)
THEOREM TraceInvariant == TraceSpec => []TraceInv
<1>1. TraceInv /\ [TraceNext]_tVars => TraceInv'
  BY TraceKeeps
<1>. QED  BY <1>1, InitTrace, PTL DEF TraceSpec

(* The server accepts the trace of every finished game, and finds for each   *)
(* removal in it the pointer of its click and a time that is never later, and *)
(* earlier by no more than the truncations of its deltas lose, however many  *)
(* inputs, devices, pauses and ticks, and whatever differences fall short    *)
(* (trace.ts:214-257, 282-302, trace.go:24-118).                            *)
THEOREM TracesReadable == TraceSpec => []TraceReadable
<1>1. TraceInv => TraceReadable
  BY DEF TraceInv
<1>. QED  BY <1>1, TraceInvariant, PTL

(* However many subscriptions to the theme have piled up, a trace has one    *)
(* event at most for each input that is told one by one, and one for each    *)
(* type that is deduplicated (index.ts:96-111, trace.ts:263-278).            *)
THEOREM TracesBounded == TraceSpec => []TraceBounded
<1>1. TraceInv => TraceBounded
  BY DEF TraceInv
<1>. QED  BY <1>1, TraceInvariant, PTL
=============================================================================
