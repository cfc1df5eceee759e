------------------------------- MODULE MCGame -------------------------------
(* Small instances of Game for TLC.                                         *)
EXTENDS GameRefinement, TLC

CONSTANTS t1, t2, s1, s2

Tokens2 == {t1, t2}
Slots2 == {s1, s2}
Modes == {"random", "odd-one-out"}
CriticalModes == {"odd-one-out"}

=============================================================================
