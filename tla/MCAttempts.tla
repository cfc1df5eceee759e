----------------------------- MODULE MCAttempts -----------------------------
(* Small instances of Attempts for TLC.                                     *)
EXTENDS Attempts

CONSTANTS tabA, tabB, a1, a2

Tabs2 == {tabA, tabB}
Attempts2 == {a1, a2}
\* a2 was slower, and may come first or last
Durations2 == [a \in Attempts2 |-> IF a = a1 THEN 1 ELSE 2]
=============================================================================
