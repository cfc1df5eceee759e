--------------------------- MODULE GameRefinement ---------------------------
(* The refinement mapping from Game to Lifecycle.  A running transition is  *)
(* what the last event says; without one, the state tells the phase.        *)
EXTENDS Game

phaseBar ==
  IF closed THEN "over"
  ELSE IF event.name = "transitionstart" \/ ~Opened
  THEN IF event.to \in EndName THEN "decided" ELSE "setup"
  ELSE IF cur.name = "ongoing" THEN "playing" ELSE cur.name

L == INSTANCE Lifecycle WITH phase <- phaseBar, paused <- Paused /\ ~closed

(* The game with its transitions, shared properties and event guards        *)
(* implements the lifecycle until the database is closed, and its fairness  *)
(* gives the lifecycle's.                                                   *)
ImplementsLifecycle == L!Spec
=============================================================================
