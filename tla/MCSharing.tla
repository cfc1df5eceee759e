------------------------------ MODULE MCSharing ------------------------------
(* Small instances of Sharing for TLC.                                      *)
EXTENDS Sharing, TLC

CONSTANTS w1, w2, won, wins, a1, a2, a3

Widgets2 == {w1, w2}
Records2 == {won, wins}
Wins == {wins}
Attempts3 == {a1, a2, a3}
ThemeNames == {"iris", "flowers", "noir"}
Symmetries == Permutations(Attempts3) \union Permutations(Widgets2)
=============================================================================
