------------------------------ MODULE MCBrowser ------------------------------
(* What runs in the browser beside the game, component by component: `part'  *)
(* says which one a behaviour is about, and the others stay where they begin,*)
(* where none of the steps they owe is enabled.                             *)
EXTENDS MCSession, Opening, Animations, SillyName

CONSTANTS pageOld, pageMid, pageMid2, pageNew

VARIABLE part

(* Three versions of the code; two pages run the one between.               *)
Pages4 == {pageOld, pageMid, pageMid2, pageNew}
Versions == [p \in Pages4 |-> IF p = pageOld THEN 1 ELSE IF p = pageNew THEN 4 ELSE 2]

(* Modal: its content, and the button that closes it.                       *)
ModalParent == [e \in {"content", "button"} |-> "modal"]

sVars == vars
MCInit ==
  /\ part \in {"session", "opening", "animations", "footer"}
  /\ Init /\ OpeningInit /\ AnimationsInit /\ SillyNameInit
  /\ part # "footer" => ~flag
MCNext ==
  \/ part = "session" /\ Next /\ UNCHANGED <<part, oVars, aVars, nVars>>
  \/ part = "opening" /\ OpeningNext /\ UNCHANGED <<part, sVars, aVars, nVars>>
  \/ part = "animations" /\ AnimationsNext /\ UNCHANGED <<part, sVars, oVars, nVars>>
  \/ part = "footer" /\ SillyNameNext /\ UNCHANGED <<part, sVars, oVars, aVars>>

MCSpec ==
  /\ MCInit /\ [][MCNext]_<<part, sVars, oVars, aVars, nVars>>
  /\ Fairness /\ OpeningFairness /\ AnimationsFairness /\ SillyNameFairness
=============================================================================
