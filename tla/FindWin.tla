------------------------------- MODULE FindWin ------------------------------
(***************************************************************************)
(* The search of src/internal/cmd/findwin: parallel() splits the counters    *)
(* that are left of a mask over its workers, each tests one counter after    *)
(* the other as the start of a Mystery game, and what wins goes through a    *)
(* buffered channel to a reader that may have enough.  Whether a counter     *)
(* wins is a choice.                                                        *)
(***************************************************************************)
EXTENDS Integers, FiniteSets, Sequences

CONSTANTS
  Procs,      \* GOMAXPROCS, more than 1
  MaxUint,    \* 2^32 - 1
  GameSize,   \* numSquares
  MaxCount    \* BOUND: how far the workers that never end are followed

\* with fewer counters than workers, two of them could begin at the first
ASSUME FindWinAssumption ==
  /\ Procs \in Nat \ {0, 1} /\ {MaxUint, MaxCount} \subseteq Nat
  /\ Procs <= MaxUint + 1
  /\ GameSize \in Nat \ {0, 1}

Worker == 0 .. Procs - 1
Mask == MaxUint + 1

VARIABLES
  search,   \* searchMystery: "all"; searchMysteryEncountered: "encountered"
  offset,   \* the counter the search begins at
  next,     \* src.Cnt of each worker, without the mask the search is about
  found,    \* workers with a win to hand over
  running,  \* the workers that have not returned
  out,      \* the wins in the channel
  reader,   \* "reads" or "enough"
  returned, \* has the iterator returned?
  tested    \* history: who tested which counter

fVars == <<search, offset, next, found, running, out, reader, returned, tested>>

Domain == Mask - offset
Workload == Domain \div Procs
Remainder == Domain % Procs
Comp(i) == IF i < Remainder THEN 1 ELSE 0
CompPrev(i) == IF i > 0 /\ i - 1 < Remainder THEN 1 ELSE 0
Start(i) == offset + i * Workload + CompPrev(i)
(* MUTANT: the limit is the counter after the last.                         *)
LimitAfter(i) == (Start(i) + Workload + Comp(i)) % Mask
Limit(i) == (Start(i) + Workload + Comp(i) - 1) % Mask

FindWinInit ==
  /\ search \in {"all", "encountered"}
  /\ offset \in 0 .. MaxUint
  /\ next = [i \in Worker |-> Start(i)]
  /\ found = {} /\ running = Worker
  /\ out = 0 /\ reader = "reads" /\ returned = FALSE
  /\ tested = {}

-----------------------------------------------------------------------------
InRange(cnt, limit) == cnt % Mask <= limit

(* What a game reads from a counter on: the board too, for real games.       *)
Reads == IF search = "all" THEN GameSize ELSE 2 * GameSize

(* searchMystery goes on with the next counter; searchMysteryEncountered     *)
(* after the draws of the game, at least one.                               *)
After(cnt) ==
  IF search = "all" THEN {cnt + 1} ELSE {cnt + GameSize + n : n \in 1 .. GameSize - 1}

Test(i) ==
  /\ i \in running \ found /\ next[i] < MaxCount
  /\ InRange(next[i] + Reads - 1, Limit(i))
  /\ tested' = tested \union {<<i, next[i]>>}
  /\ \E n \in After(next[i]) : next' = [next EXCEPT ![i] = n]
  /\ found' \in {found, found \union {i}}
  /\ UNCHANGED <<search, offset, running, out, reader, returned>>

Return(i) == running' = running \ {i}
Done(i) ==
  /\ i \in running \ found /\ ~InRange(next[i] + Reads - 1, Limit(i))
  /\ Return(i)
  /\ UNCHANGED <<search, offset, next, found, out, reader, returned, tested>>

(* yield of a worker: a select over the channel and stop.                   *)
Send(i) ==
  /\ i \in found /\ out < Procs
  /\ out' = out + 1 /\ found' = found \ {i}
  /\ UNCHANGED <<search, offset, next, running, reader, returned, tested>>
SeeStop(i) ==
  /\ i \in found /\ reader = "enough"
  /\ found' = found \ {i} /\ Return(i)
  /\ UNCHANGED <<search, offset, next, out, reader, returned, tested>>

(* The goroutine that reads; it may do so after the iterator returned.      *)
Read ==
  /\ reader = "reads" /\ out > 0
  /\ out' = out - 1 /\ reader' \in {"reads", "enough"}
  /\ UNCHANGED <<search, offset, next, found, running, returned, tested>>

\* wg.Wait(), close(out)
Finish ==
  /\ running = {} /\ ~returned /\ returned' = TRUE
  /\ UNCHANGED <<search, offset, next, found, running, out, reader, tested>>

WorkerStep(i) == Test(i) \/ Done(i) \/ Send(i) \/ SeeStop(i)
FindWinNext == (\E i \in Worker : WorkerStep(i)) \/ Read \/ Finish
FindWinSpec == FindWinInit /\ [][FindWinNext]_fVars

-----------------------------------------------------------------------------
(* The games that lie in the mask, from the counter given on.               *)
Game == {c \in offset .. MaxUint : c + Reads - 1 <= MaxUint}
Splits(c) == \E i \in Worker \ {0} : c < Start(i) /\ Start(i) <= c + Reads - 1

(* No game is tested, and printed, twice, though the ranges overlap; and the *)
(* workers leave out none but those that span a split, as the comment says,  *)
(* and those that end in the last Remainder counters, which the comment at 272    *)
(* would spread over the first workers (main.go:237-290).                   *)
TestedOnce ==
  /\ \A c \in Game : Cardinality({i \in Worker : <<i, c>> \in tested}) <= 1
  /\ returned /\ reader = "reads" /\ search = "all" =>
       \A c \in Game : \/ Splits(c) \/ c + Reads - 1 > MaxUint - Remainder
                      \/ \E i \in Worker : <<i, c>> \in tested
=============================================================================
