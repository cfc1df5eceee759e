------------------------------ MODULE Difficulty ----------------------------
(***************************************************************************)
(* How hard a challenge the server sets (src/internal/crypto/altcha): two    *)
(* count-min sketches of 32-bit counters that saturate, one of the requests  *)
(* in this window and one of the difficulty that earlier windows left.       *)
(* Clients share cells; what the sketches stand for is the same bookkeeping  *)
(* with a cell for each client.                                             *)
(***************************************************************************)
EXTENDS Integers, FiniteSets

CONSTANTS
  Client,    \* what HandlerConfig.ID tells apart
  Row,       \* the hash functions: d of them
  Cell,      \* of a row: w of them
  Pos,       \* Pos[r][c]: where row r counts client c
  MaxCounter,   \* 2^32 - 1
  Growth     \* Growth[n]: 1.01^n, cut to an integer and to MaxCounter

Uint == 0 .. MaxCounter

ASSUME DifficultyAssumption ==
  /\ MaxCounter \in Nat \ {0}
  /\ Pos \in [Row -> [Client -> Cell]]
  /\ Growth \in [Uint -> Uint]
  /\ \A m, n \in Uint : m <= n => Growth[m] <= Growth[n]

VARIABLES
  reqs, decays,            \* Handler.reqs and Handler.decays, cell by cell
  ownReqs, ownDecays       \* history: the same for each client alone

dVars == <<reqs, decays, ownReqs, ownDecays>>

Decay == 2
PerRequest == 2

(* sketch.Add and sketch.Sub                                                *)
(* MUTANT: the sum wraps around.                                            *)
SaturatedWrapping(a, b) == (a + b) % (MaxCounter + 1)
Saturated(a, b) == IF a + b > MaxCounter THEN MaxCounter ELSE a + b
Lowered(a, b) == IF a < b THEN 0 ELSE a - b

DifficultyInit ==
  /\ reqs = [r \in Row |-> [i \in Cell |-> 0]]
  /\ decays = reqs
  /\ ownReqs = [c \in Client |-> 0] /\ ownDecays = ownReqs

(* Handler.create: the request is counted before the difficulty is read.     *)
Create(c) ==
  /\ reqs' = [r \in Row |-> [reqs[r] EXCEPT ![Pos[r][c]] = Saturated(@, PerRequest)]]
  /\ ownReqs' = [ownReqs EXCEPT ![c] = Saturated(@, PerRequest)]
  /\ UNCHANGED <<decays, ownDecays>>

(* What a window of n requests makes of the difficulty d.                   *)
Decayed(d, n) ==
  IF n <= Decay THEN Lowered(Saturated(d, n), Decay) ELSE Saturated(d, Growth[n - Decay])

(* Handler.Start, at each tick of the window, with the lock held.           *)
Tick ==
  /\ decays' = [r \in Row |-> [i \in Cell |-> Decayed(decays[r][i], reqs[r][i])]]
  /\ reqs' = [r \in Row |-> [i \in Cell |-> 0]]
  /\ ownDecays' = [c \in Client |-> Decayed(ownDecays[c], ownReqs[c])]
  /\ ownReqs' = [c \in Client |-> 0]

DifficultyNext == (\E c \in Client : Create(c)) \/ Tick
DifficultySpec == DifficultyInit /\ [][DifficultyNext]_dVars

-----------------------------------------------------------------------------
DifficultyTypeOK ==
  /\ {reqs, decays} \subseteq [Row -> [Cell -> Uint]]
  /\ {ownReqs, ownDecays} \subseteq [Client -> Uint]

(* Sketch.Count, over the rows.                                             *)
Count(c, n) == \E r \in Row : /\ decays[r][Pos[r][c]] = n
                              /\ \A s \in Row : n <= decays[s][Pos[s][c]]

(* Nobody is set an easier challenge than its own requests earned, whatever  *)
(* it shares cells with, when counters saturate and when they decay          *)
(* (handler.go:66-77, sketch.go:82-127).                                    *)
NeverTooEasy == \A c \in Client : \A n \in Uint : Count(c, n) => n >= ownDecays[c]
=============================================================================
