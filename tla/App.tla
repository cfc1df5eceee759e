-------------------------------- MODULE App ---------------------------------
(***************************************************************************)
(* The page of src/src/index.ts around the game: main(), the visibility    *)
(* listener, the reset gesture and the settings menu (menu/MenuAccess and  *)
(* menu/internal/Gamemode).  Its clients share no state but the game's     *)
(* last event and the menu's stores; each keeps the token its own pause()  *)
(* returned.                                                               *)
(***************************************************************************)
EXTENDS Game

CONSTANT NoSlot   \* no reset is running

ASSUME AppAssumption == NoSlot \notin Slot /\ "stuck" \notin Slot \union {NoSlot}

VARIABLES
  main,         \* how far main() got
  hidden,       \* document.hidden
  windowToken,  \* `token' of the visibilitychange listener
  menu,         \* the menu's modal; "stuck" when the button stays disabled
  menuToken,    \* `token' of the menu's handler
  resetting,    \* the slot whose transitions reset() awaits; "stuck" once it threw
  shown,        \* the store context.gamemode: what the menu button says is played
  chosen        \* the store context.nextGamemode: what the menu shows as picked

stores == <<shown, chosen>>
appVars == <<main, hidden, windowToken, menu, menuToken, resetting, stores>>
allVars == <<vars, appVars>>

\* randString(8) never draws a token that is still known to someone
Fresh == Token \ {token, windowToken, menuToken}

\* the modal covers the page from its creation to its removal
PageReachable == ~hidden /\ menu \in {"closed", "stuck"}

AppInit ==
  /\ Init
  /\ main = "opening" /\ hidden = FALSE
  /\ windowToken = NoToken
  /\ menu = "closed" /\ menuToken = NoToken
  /\ resetting = NoSlot
  /\ shown = props.gamemode /\ chosen = props.gamemode

(* main(): open the database, mount the menu, prepare; the listeners come   *)
(* only when the first game is ready and the title has been animated.       *)
MainPrepare(s) ==
  /\ main = "opening"
  /\ Prepare(s)
  /\ main' = "preparing"
  /\ UNCHANGED <<hidden, windowToken, menu, menuToken, resetting, stores>>

MainListen ==
  /\ main = "prepared"
  /\ main' = "listening"
  /\ UNCHANGED <<vars, hidden, windowToken, menu, menuToken, resetting, stores>>

VersionChange(s) == ForceEnd(s) /\ UNCHANGED appVars

(* MUTANT: doReset does not lower `resetting'.                              *)
EndTransitionKeepsFlag(s) ==
  /\ Complete(s)
  /\ main' = IF main = "preparing" /\ inflight[s].to.name = "ready"
             THEN "prepared" ELSE main
  /\ shown' = IF inflight[s].to.name \in InitialName THEN props.gamemode ELSE shown
  /\ UNCHANGED <<hidden, windowToken, menu, menuToken, resetting, chosen>>

(* MUTANT: onGameReady does not tell the menu of the gamemode a won or lost *)
(* game made way for.                                                       *)
EndTransitionUntold(s) ==
  /\ Complete(s)
  /\ main' = IF main = "preparing" /\ inflight[s].to.name = "ready"
             THEN "prepared" ELSE main
  /\ resetting' = IF resetting = s /\ inflight[s].to.name = "ready"
                  THEN NoSlot ELSE resetting
  /\ shown' = IF inflight[s].to.name = "initial" THEN props.gamemode ELSE shown
  /\ UNCHANGED <<hidden, windowToken, menu, menuToken, chosen>>

(* A transition ends; with a Ready state, so does the prepare that main()   *)
(* or reset() awaits.  The end of an Initial state tells the menu which     *)
(* gamemode is played now: in onGameInit, after a win or a loss in the      *)
(* onGameReady of the prepare that follows at once.                         *)
EndTransition(s) ==
  /\ Complete(s)
  /\ main' = IF main = "preparing" /\ inflight[s].to.name = "ready"
             THEN "prepared" ELSE main
  /\ resetting' = IF resetting = s /\ inflight[s].to.name = "ready"
                  THEN NoSlot ELSE resetting
  /\ shown' = IF inflight[s].to.name \in InitialName THEN props.gamemode ELSE shown
  /\ UNCHANGED <<hidden, windowToken, menu, menuToken, chosen>>

(* game.pause() of a game in the Over state.                                *)
PauseThrows == MayOperate /\ ~Paused /\ cur.name = "over"

(* The visibilitychange listener.  A pause that throws assigns no token.     *)
Hide ==
  /\ ~hidden /\ hidden' = TRUE
  /\ IF main = "listening"
     THEN \E t \in Fresh : /\ CallPause(t)
                           /\ windowToken' = IF PauseThrows THEN windowToken
                                             ELSE IF MayOperate THEN t ELSE NoToken
     ELSE UNCHANGED <<vars, windowToken>>
  /\ UNCHANGED <<main, menu, menuToken, resetting, stores>>

(* MUTANT: the token is forgotten before the game is resumed with it.       *)
ShowForgetsFirst ==
  /\ hidden /\ hidden' = FALSE
  /\ windowToken' = NoToken
  /\ UNCHANGED <<vars, main, menu, menuToken, resetting, stores>>

Show ==
  /\ hidden /\ hidden' = FALSE
  /\ IF main = "listening" THEN CallResume(windowToken) ELSE UNCHANGED vars
  /\ windowToken' = NoToken
  /\ UNCHANGED <<main, menu, menuToken, resetting, stores>>

(* The menu button.  The modal opens whether or not the game was paused;    *)
(* game.pause() throws in the Over state, which leaves the button disabled. *)
OpenMenu ==
  /\ PageReachable /\ Opened /\ menu = "closed" /\ event.name # "error"
  /\ \E t \in Fresh :
       /\ CallPause(t)
       /\ IF PauseThrows
          THEN menu' = "stuck" /\ UNCHANGED menuToken
          ELSE menu' = "open" /\ menuToken' = IF MayOperate THEN t ELSE NoToken
  /\ UNCHANGED <<main, hidden, windowToken, resetting, stores>>

CloseMenu ==
  /\ ~hidden /\ menu = "open"
  /\ menu' = "closing"
  /\ UNCHANGED <<vars, main, hidden, windowToken, menuToken, resetting, stores>>

(* afterClose, at the end of the modal's destroy.  A second click on the    *)
(* close button aborts the first destroy, which then runs afterClose early. *)
AfterClose ==
  /\ menu = "closing"
  /\ CallResume(menuToken)
  /\ \/ menu' = "closed" /\ menuToken' = NoToken
     \/ ~hidden /\ UNCHANGED <<menu, menuToken>>
  /\ UNCHANGED <<main, hidden, windowToken, resetting, stores>>

(* MUTANT: the menu writes the gamemode the game reads.                     *)
PickGamemodeDirectly(g) ==
  /\ ~hidden /\ menu \in {"open", "closing"}
  /\ props' = [props EXCEPT !.gamemode = g]
  /\ UNCHANGED <<cur, token, inflight, event, closed, gridVars, late, appVars>>

(* menu/internal/Gamemode.svelte, onChange, which tells the menu button only *)
(* where setGamemode answers 'now'.  In the Over state setGamemode throws.   *)
PickGamemode(g) ==
  /\ ~hidden /\ menu \in {"open", "closing"}
  /\ chosen' = g
  /\ IF cur.name = "over" THEN UNCHANGED <<vars, shown>>
     ELSE SetGamemode(g) /\ shown' = IF cur.name = "ongoing" THEN shown ELSE g
  /\ UNCHANGED <<main, hidden, windowToken, menu, menuToken, resetting>>

ClickSquare ==
  /\ PageReachable
  /\ \E d \in Draws : ClickOn(d) \/ \E s \in Slot, kind \in EndName : ClickEnd(s, kind, d)
  /\ UNCHANGED appVars

(* The gesture of configureGameReset.  reset() rejects when the last event  *)
(* is an error, and `resetting' is never lowered again.                     *)
ResetGesture ==
  /\ PageReachable /\ main = "listening" /\ resetting = NoSlot
  /\ \/ \E s \in Slot : Reset(s) /\ resetting' = s /\ UNCHANGED shown
     \/ \E s \in Slot : ResetEmpty(s) /\ resetting' = s /\ shown' = props'.gamemode
     \/ event.name = "error" /\ resetting' = "stuck" /\ UNCHANGED <<vars, shown>>
  /\ UNCHANGED <<main, hidden, windowToken, menu, menuToken, chosen>>

AppNext ==
  \/ \E s \in Slot : MainPrepare(s) \/ VersionChange(s) \/ EndTransition(s)
  \/ MainListen \/ Hide \/ Show
  \/ OpenMenu \/ CloseMenu \/ AfterClose
  \/ \E g \in Gamemode : PickGamemode(g)
  \/ ClickSquare \/ ResetGesture

AppFairness ==
  /\ \A s \in Slot : WF_allVars(MainPrepare(s)) /\ WF_allVars(EndTransition(s))

AppSpec == AppInit /\ [][AppNext]_allVars /\ AppFairness

-----------------------------------------------------------------------------
(* PROPERTIES *)

AppTypeOK ==
  /\ TypeOK
  /\ main \in {"opening", "preparing", "prepared", "listening"}
  /\ hidden \in BOOLEAN
  /\ menu \in {"closed", "open", "closing", "stuck"}
  /\ {windowToken, menuToken} \subseteq Token \union {NoToken}
  /\ resetting \in Slot \union {NoSlot, "stuck"}
  /\ {shown, chosen} \subseteq Gamemode

(* "Coming back to the game menu should not resume the game"                *)
(* (Pause.processEvent): a game the menu paused stays paused until the menu *)
(* is closed, however often the player leaves the window and returns.       *)
MenuHoldsGame ==
  ~closed /\ menu = "open" /\ menuToken # NoToken => token = menuToken

(* No resume is lost: whenever the game is paused there is somebody who     *)
(* holds the game's token and is still to let go of it, the open menu or    *)
(* the hidden window; a closed menu and a visible window mean a running     *)
(* game.                                                                    *)
NoLostResume ==
  (~closed /\ Paused) =>
    \/ menu \in {"open", "closing"} /\ token = menuToken
    \/ hidden /\ token = windowToken

(* A reset that was accepted ends, and the next one is accepted again, even *)
(* if the database is closed meanwhile.                                     *)
ResetEnds == resetting \in Slot ~> resetting = NoSlot

(* The menu tells the truth: its button names the gamemode the game is       *)
(* played by, except between the end of a game and the next grid, and its    *)
(* choice is what the next game will be played by, unless it was made during *)
(* a transition.  The game, its callbacks and the menu write these stores.   *)
MenuTellsGamemode ==
  ~closed =>
    /\ (event.name = "transitionstart" => event.to = "ready") => shown = props.gamemode
    /\ ~late => chosen = TakeNext(props).gamemode

(* The page is given up, its menu button disabled and its reset gesture     *)
(* dead, for nothing but the loss of the database.                          *)
PageDiesOnlyOnUpgrade ==
  (menu = "stuck" \/ resetting = "stuck" \/ event.name = "error") => closed
=============================================================================
