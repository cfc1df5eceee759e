------------------------------ MODULE Gamemodes -----------------------------
(***************************************************************************)
(* The rules of src/src/game/gamemode: the board each gamemode lays out    *)
(* and what each click makes of it, game after game on the instances that  *)
(* Game keeps or replaces.  A grid maps the squares that are left to their *)
(* colours.  The generator is a choice among all it may draw.              *)
(***************************************************************************)
EXTENDS Integers, Sequences, FiniteSets

CONSTANTS
  Square,     \* the squares of a full grid
  Color,      \* the colours of a theme
  NoColor     \* `undefined' where a colour may stand

ASSUME GamemodesAssumption ==
  /\ IsFiniteSet(Square) /\ Cardinality(Square) > 1
  /\ IsFiniteSet(Color) /\ Cardinality(Color) > 1
  /\ NoColor \notin Color

VARIABLES
  mode,       \* gamemode.properties.name
  grid,       \* the colour of each square that is left
  lastColor,  \* of the SameSquare instance in use
  status,     \* of the game
  popped,     \* history: the colours of the squares removed in this game
  draws       \* history: the numbers progress() drew in this game

vars == <<mode, grid, lastColor, status, popped, draws>>

Mode == {"random", "same-square", "passthrough", "odd-one-out"}
CriticalMode == {"same-square", "odd-one-out"}
Left == DOMAIN grid
NumSquares == Cardinality(Square)

-----------------------------------------------------------------------------
\* genSquares pulls colours out while at least as many are left as squares
SelectionSize(S) ==
  (IF Cardinality(Color) < Cardinality(S) THEN Cardinality(Color) ELSE Cardinality(S)) - 1

(* MUTANT: the odd colour stays in the selection of the other squares.      *)
GenSquaresUnpulled(S) ==
  {f \in [S -> Color] :
     \E sel \in SUBSET Color, odd \in Color, o \in S :
       /\ Cardinality(sel) = SelectionSize(S)
       /\ f[o] = odd
       /\ \A s \in S \ {o} : f[s] \in sel}

(* OddOneOut.genSquares: the colour pulled out last is one square's, all    *)
(* the others pick from what is left of the selection.                      *)
GenSquares(S) ==
  {f \in [S -> Color] :
     \E sel \in SUBSET Color : \E odd \in Color \ sel, o \in S :
       /\ Cardinality(sel) = SelectionSize(S)
       /\ f[o] = odd
       /\ \A s \in S \ {o} : f[s] \in sel}

InitialSquares(m) ==
  IF m = "odd-one-out" THEN GenSquares(Square) ELSE [Square -> Color]

(* MUTANT: SameSquare keeps its lastColor when a game ends.                 *)
ResetKeeps(c) == c

\* gamemode.reset(), which every Initial state awaits in its transition
Reset(c) == NoColor

Init ==
  /\ mode \in Mode
  /\ grid \in InitialSquares(mode)
  /\ lastColor = NoColor
  /\ status = "ready"
  /\ popped = <<>> /\ draws = <<>>

(* Ready.setGamemode: a new instance; only critical squares are recoloured. *)
SwitchReady(m) ==
  /\ status = "ready"
  /\ mode' = m
  /\ lastColor' = NoColor
  /\ IF m \in CriticalMode THEN grid' \in InitialSquares(m) ELSE UNCHANGED grid
  /\ UNCHANGED <<status, popped, draws>>

(* The next game, with the gamemode at hand or the instance chosen          *)
(* meanwhile: Initial's transition resets it, Ready's lays out the board.   *)
NewGame(m) ==
  /\ status \in {"ongoing", "win", "lose"}
  /\ mode' = m
  /\ grid' \in InitialSquares(m)
  /\ lastColor' = IF m = mode THEN Reset(lastColor) ELSE NoColor
  /\ status' = "ready"
  /\ popped' = <<>> /\ draws' = <<>>

-----------------------------------------------------------------------------
(* gamemode.progress(grid, s, rand), once grid.removeSquare took s away: all *)
(* that may come of it.                                                     *)
Playing == status \in {"ready", "ongoing"}

Rest(s) == Left \ {s}
Without(s) == [t \in Rest(s) |-> grid[t]]
SomeLeft(s, c) == \E t \in Rest(s) : grid[t] = c
WinIfNone(s) == IF Rest(s) = {} THEN "win" ELSE "ongoing"

(* A Progress: what it made of the board, the instance, the game and draws.  *)
Outcome(g, c, st, d) == [grid |-> g, lastColor |-> c, status |-> st, draws |-> d]

OddOneOut(s) ==
  LET st == IF SomeLeft(s, grid[s]) THEN "lose" ELSE WinIfNone(s)
      laidOut == st = "ongoing" /\ Cardinality(Rest(s)) > 1
  IN  {Outcome(g, lastColor, st, draws) :
         g \in IF laidOut THEN GenSquares(Rest(s)) ELSE {Without(s)}}

SameSquare(s) ==
  {IF lastColor \notin {NoColor, grid[s]} /\ SomeLeft(s, lastColor)
   THEN Outcome(Without(s), lastColor, "lose", draws)
   ELSE Outcome(Without(s), grid[s], WinIfNone(s), draws)}

(* MUTANT: Mystery draws whatever is left.                                  *)
RandomCountToTheEnd(s) ==
  LET count == Cardinality(Rest(s))
      After(n) == IF n = count THEN "lose" ELSE WinIfNone(s)
  IN  {Outcome(Without(s), lastColor, After(n), Append(draws, n)) : n \in 0 .. count}

(* RandomCount draws only while more than one square is left.               *)
RandomCount(s) ==
  LET count == Cardinality(Rest(s))
      After(n) == IF n = count THEN "lose" ELSE "ongoing"
  IN  IF count > 1
      THEN {Outcome(Without(s), lastColor, After(n), Append(draws, n)) : n \in 0 .. count}
      ELSE {Outcome(Without(s), lastColor, WinIfNone(s), draws)}

Passthrough(s) == {Outcome(Without(s), lastColor, WinIfNone(s), draws)}

Outcomes(s) ==
  CASE mode = "odd-one-out" -> OddOneOut(s)
    [] mode = "same-square" -> SameSquare(s)
    [] mode = "random" -> RandomCount(s)
    [] mode = "passthrough" -> Passthrough(s)

Progress(s) ==
  /\ Playing
  /\ \E o \in Outcomes(s) :
       grid' = o.grid /\ lastColor' = o.lastColor /\ status' = o.status /\ draws' = o.draws
  /\ popped' = Append(popped, grid[s])
  /\ UNCHANGED mode

Next ==
  \/ \E m \in Mode : SwitchReady(m) \/ NewGame(m)
  \/ \E s \in Left : Progress(s)

Spec == Init /\ [][Next]_vars

-----------------------------------------------------------------------------
(* findwin's playMystery, which replays the draws of a Mystery game: the    *)
(* first that loses, counted from 1, or 0 if none does.                     *)

(* MUTANT: findwin counts the clicked square among the remaining ones.      *)
RemainingAfterOffByOne(i) == NumSquares - i

RemainingAfter(i) == NumSquares - i - 1

LosingDraw(d) ==
  LET lost == {i \in 1 .. Len(d) : RemainingAfter(i - 1) > 1 /\ d[i] = RemainingAfter(i - 1)}
  IN  IF lost = {} THEN 0 ELSE CHOOSE i \in lost : \A j \in lost : i <= j

\* the numbers a whole won game draws
FullGame == Cardinality({i \in 0 .. NumSquares - 2 : RemainingAfter(i) > 1})

-----------------------------------------------------------------------------
(* PROPERTIES *)

TypeOK ==
  /\ mode \in Mode
  /\ Left \subseteq Square /\ grid \in [Left -> Color]
  /\ lastColor \in Color \union {NoColor}
  /\ status \in {"ready", "ongoing", "win", "lose"}
  /\ popped \in Seq(Color) /\ Len(popped) = NumSquares - Cardinality(Left)
  /\ draws \in Seq(Nat)

(* README, Gameplay: in Odd One Out one square has a colour no other has,   *)
(* after every click and every change of gamemode.                          *)
OddOneExists ==
  mode = "odd-one-out" /\ Playing /\ Left # {} =>
    \E s \in Left : \A t \in Left \ {s} : grid[t] # grid[s]

(* README, Gameplay: Gleich is lost exactly when a sequence of one colour   *)
(* is not maximal: a colour was left for another while squares of it        *)
(* remained.  SameSquare compares with one colour it remembers.             *)
GleichIsFair ==
  mode = "same-square" =>
    (status = "lose" <=>
       \E i \in 1 .. Len(popped), s \in Left :
         popped[i] = grid[s] /\ popped[Len(popped)] # popped[i])

(* No board is a dead end: a game that goes on has a square whose removal   *)
(* does not lose it.                                                        *)
NeverHopeless ==
  Playing => \E s \in Left : \E o \in Outcomes(s) : o.status # "lose"

(* What Game's Outcomes takes for granted: a game is won exactly when its   *)
(* grid is empty (a loss leaves squares for its transition to destroy),     *)
(* FFITW is never lost, and Mystery not with the last square.               *)
EndsFitGame ==
  /\ status = "win" <=> Left = {}
  /\ status = "lose" => mode # "passthrough" /\ (mode = "random" => Cardinality(Left) > 1)

(* findwin plays Mystery as the browser does: it loses at the same draw and *)
(* a won game takes as many draws.                                          *)
FindwinAgrees ==
  mode = "random" =>
    /\ LosingDraw(draws) = IF status = "lose" THEN Len(draws) ELSE 0
    /\ status = "win" => Len(draws) = FullGame
=============================================================================
