----------------------------- MODULE MCComponents ---------------------------
(* Four components that share no state, each on a small instance: `part'     *)
(* says which one a behaviour is about, and the others stay where they begin.*)
EXTENDS Gamemodes, FindWin, Trace, Difficulty, TLC

CONSTANTS
  Parts,                       \* the components this run is about
  q1, q2, q3, q4, red, green, blue

VARIABLE part

Squares4 == {q1, q2, q3, q4}
Colors3 == {red, green, blue}
SquareSymmetry == Permutations(Squares4)

(* Three clients in two rows of two cells: each shares a cell with another.  *)
Sharing3 == [r \in 1 .. 2 |-> [c \in 1 .. 3 |-> IF r = 1 THEN (c + 1) \div 2 ELSE c \div 2 + 1]]
Growth5 == [n \in 0 .. 5 |-> IF n < 3 THEN 1 ELSE 2]

(* Which differences and times floating point leaves short of an integer.    *)
ShortPairs == {p \in (0 .. 16) \X (0 .. 16) : p[1] < p[2] /\ (p[1] + p[2]) % 3 # 1}
ShavedTimes == {n \in 1 .. 16 : n % 2 = 0}

gVars == vars
MCInit ==
  /\ part \in Parts
  /\ Init /\ FindWinInit /\ TraceInit /\ DifficultyInit
  /\ part # "gamemodes" => mode = "passthrough" /\ grid = [s \in Square |-> red]
  /\ part # "findwin" => search = "all" /\ offset = 0

MCNext ==
  \/ part = "gamemodes" /\ Next /\ UNCHANGED <<part, fVars, tVars, dVars>>
  \/ part = "findwin" /\ FindWinNext /\ UNCHANGED <<part, gVars, tVars, dVars>>
  \/ part = "trace" /\ TraceNext /\ UNCHANGED <<part, gVars, fVars, dVars>>
  \/ part = "difficulty" /\ DifficultyNext /\ UNCHANGED <<part, gVars, fVars, tVars>>

MCSpec == MCInit /\ [][MCNext]_<<part, gVars, fVars, tVars, dVars>>
=============================================================================
