----------------------------- MODULE Lifecycle ------------------------------
(***************************************************************************)
(* What a player is promised by the game, without its states, events,      *)
(* transitions or animations: games follow each other, each is laid out    *)
(* before it is played and decided at most once, and a pause lets nothing  *)
(* happen.  Only the loss of the database closes it for good.              *)
(***************************************************************************)

VARIABLES
  phase,   \* of the current game
  paused   \* may the player play?

lifeVars == <<phase, paused>>

Phase == {"setup", "ready", "playing", "decided", "over"}

Init == phase = "setup" /\ paused = FALSE

LaidOut  == phase = "setup" /\ phase' = "ready" /\ UNCHANGED paused
Start    == phase = "ready" /\ ~paused /\ phase' = "playing" /\ UNCHANGED paused
Decide   == phase \in {"ready", "playing"} /\ ~paused /\ phase' = "decided" /\ UNCHANGED paused
Abandon  == phase = "playing" /\ ~paused /\ phase' = "setup" /\ UNCHANGED paused
NextGame == phase = "decided" /\ phase' = "setup" /\ UNCHANGED paused
Toggle   == phase \in {"ready", "playing"} /\ paused' = ~paused /\ UNCHANGED phase
Close    == phase # "over" /\ phase' = "over" /\ paused' = FALSE

Next == LaidOut \/ Start \/ Decide \/ Abandon \/ NextGame \/ Toggle \/ Close

Spec == Init /\ [][Next]_lifeVars /\ WF_lifeVars(LaidOut) /\ WF_lifeVars(NextGame)
=============================================================================
