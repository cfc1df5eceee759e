------------------------------ MODULE MCSession ------------------------------
(* Small instances of Session for TLC.                                      *)
EXTENDS Session

CONSTANTS tabA, tabB

Tabs2 == {tabA, tabB}
(* One page has ended a game, the other has only been opened.               *)
Calls == [t \in Tabs2 |-> IF t = tabA THEN 2 ELSE 1]
OneCall == [t \in Tabs2 |-> 1]
=============================================================================
