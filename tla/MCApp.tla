------------------------------- MODULE MCApp --------------------------------
(* Small instances of App for TLC.  Three tokens: one each for the game,    *)
(* the menu and the window, and the owner of the game's is one of the two.  *)
EXTENDS App, TLC

CONSTANTS t1, t2, t3, s1, s2

Tokens3 == {t1, t2, t3}
Slots2 == {s1, s2}
Modes == {"random", "odd-one-out"}
CriticalModes == {"odd-one-out"}
=============================================================================
