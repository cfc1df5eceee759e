----------------------------- MODULE AppProofs ------------------------------
(* Theorems about App: the page's clients keep the game's invariants, no     *)
(* token is mixed up or lost, and the menu tells the gamemode.               *)
EXTENDS App, GameProofs

-----------------------------------------------------------------------------
(* The page uses the game by the game's own operations.                      *)

LEMMA CallPauseIs ==
  ASSUME NEW t \in Token, CallPause(t)
  PROVE  \/ Pause(t) /\ MayOperate /\ ~Paused
         \/ OverError /\ MayOperate /\ ~Paused /\ cur.name = "over"
         \/ UNCHANGED vars /\ (~MayOperate \/ Paused)
BY DEF CallPause, Pause

LEMMA CallResumeIs ==
  ASSUME NEW t \in Token \union {NoToken}, CallResume(t)
  PROVE  \/ t \in Token /\ token = t /\ Resume(t)
         \/ OverError /\ ~Paused /\ cur.name = "over"
         \/ UNCHANGED vars /\ (t = NoToken \/ ~MayOperate \/ token # t)
BY GameAssumption DEF CallResume, Resume, Paused

\* the types a step of the page relies on
TokensTyped == {windowToken, menuToken} \subseteq Token \union {NoToken}

LEMMA AppStepIsGameStep ==
  ASSUME TokensTyped, [AppNext]_allVars
  PROVE  [Next]_vars
<1>1. ASSUME NEW s \in Slot, MainPrepare(s) \/ VersionChange(s) \/ EndTransition(s)
      PROVE Next
  BY <1>1 DEF MainPrepare, VersionChange, EndTransition, Next
<1>2. CASE MainListen \/ CloseMenu
  BY <1>2 DEF MainListen, CloseMenu
<1>3. CASE Hide
  BY <1>3, CallPauseIs DEF Hide, Fresh, Next
<1>4. CASE Show
  BY <1>4, CallResumeIs DEF Show, TokensTyped, Next
<1>5. CASE OpenMenu
  BY <1>5, CallPauseIs DEF OpenMenu, Fresh, Next
<1>6. CASE AfterClose
  BY <1>6, CallResumeIs DEF AfterClose, TokensTyped, Next
<1>7. ASSUME NEW g \in Gamemode, PickGamemode(g) PROVE [Next]_vars
  BY <1>7 DEF PickGamemode, Next
<1>8. CASE ClickSquare
  BY <1>8 DEF ClickSquare, Next
<1>9. CASE ResetGesture
  BY <1>9 DEF ResetGesture, Next
<1>10. CASE UNCHANGED allVars
  BY <1>10 DEF allVars
<1>11. QED
  BY <1>1, <1>2, <1>3, <1>4, <1>5, <1>6, <1>7, <1>8, <1>9, <1>10 DEF AppNext

-----------------------------------------------------------------------------
(* Who holds which token.                                                    *)

TokensInv ==
  /\ TokensTyped
  /\ ~hidden => windowToken = NoToken
  /\ windowToken # NoToken => main = "listening"
  /\ menu \in {"closed", "stuck"} => menuToken = NoToken
  /\ windowToken = menuToken => windowToken = NoToken
  /\ MenuHoldsGame
  /\ NoLostResume

(* A paused game is at rest, and can be resumed.                             *)
LEMMA PausedRests ==
  ASSUME GameInv, Paused, ~closed
  PROVE  /\ event = Ended("pause") /\ MayOperate
         /\ \A s \in Slot : Free(s)
         /\ cur.name \in {"ready", "ongoing"}
<1>1. event = Ended("pause") /\ (\A s \in Slot : Free(s)) /\ cur.name \in {"ready", "ongoing"}
  BY DEF GameInv, WorkFits, PauseInPlay, EventTells, Free, Ended, Starting, InitialName, EndName
<1>2. QED
  BY <1>1 DEF MayOperate, Opened, Ended

(* A step of the game that pauses and resumes nothing leaves a paused game's *)
(* token where it is, unless it closes the game.                             *)
LEMMA TokenStays ==
  ASSUME GameInv,
         \/ UNCHANGED vars
         \/ OverError
         \/ \E g \in Gamemode : SetGamemode(g)
         \/ \E s \in Slot : \/ Prepare(s) \/ Complete(s) \/ ForceEnd(s) \/ Reset(s) \/ ResetEmpty(s)
                            \/ \E kind \in EndName, d \in Draws : ClickEnd(s, kind, d)
         \/ \E d \in Draws : ClickOn(d)
  PROVE  /\ token' \in {token, NoToken}
         /\ closed => closed'
         /\ ~closed' /\ token # NoToken => token' = token
<1>1. ASSUME NEW s \in Slot, Complete(s) PROVE ~Free(s)
  BY <1>1 DEF Complete, EndInitial, EndReady, OverPop, OverDrain, EndOver, Free
<1>2. ASSUME NEW s \in Slot, Complete(s), ~closed', token # NoToken PROVE FALSE
  <2>1. ~closed
    BY <1>2 DEF Complete, EndInitial, EndReady, OverPop, OverDrain, EndOver
  <2>2. QED
    BY <1>1, <1>2, <2>1, PausedRests DEF Paused
<1>3. ASSUME NEW s \in Slot, Complete(s) PROVE token' \in {token, NoToken} /\ closed' = closed
  BY <1>3 DEF Complete, EndInitial, EndReady, OverPop, OverDrain, EndOver
<1>4. ASSUME NEW g \in Gamemode, SetGamemode(g) PROVE token' = token /\ closed' = closed
  BY <1>4 DEF SetGamemode
<1>5. ASSUME NEW s \in Slot, Prepare(s) \/ ForceEnd(s) \/ Reset(s) \/ ResetEmpty(s)
      PROVE token' = token /\ (closed => closed')
  BY <1>5 DEF Prepare, ForceEnd, Reset, ResetEmpty
<1>6. ASSUME NEW d \in Draws,
             \/ ClickOn(d)
             \/ \E s \in Slot, kind \in EndName : ClickEnd(s, kind, d)
      PROVE token' = token /\ closed' = closed
  BY <1>6 DEF ClickOn, ClickEnd
<1>7. ASSUME UNCHANGED vars \/ OverError PROVE token' = token /\ closed' = closed
  BY <1>7 DEF vars, OverError
<1>8. QED
  BY <1>2, <1>3, <1>4, <1>5, <1>6, <1>7

LEMMA TokensInit == AppInit => TokensInv
BY DEF AppInit, Init, TokensInv, TokensTyped, MenuHoldsGame, NoLostResume, Paused

LEMMA TokensStep ==
  ASSUME GameInv, GameInv', TokensInv, [AppNext]_allVars
  PROVE  TokensInv'
<1>a. ASSUME token' \in {token, NoToken}, closed => closed',
             ~closed' /\ token # NoToken => token' = token,
             UNCHANGED <<hidden, windowToken, menu, menuToken>>,
             main' \in {main, "listening"} \/ windowToken = NoToken
      PROVE  TokensInv'
  BY <1>a DEF TokensInv, TokensTyped, MenuHoldsGame, NoLostResume, Paused
<1>1. ASSUME NEW s \in Slot, MainPrepare(s) PROVE TokensInv'
  <2>1. windowToken = NoToken
    BY <1>1 DEF MainPrepare, TokensInv
  <2>2. QED
    BY <1>1, <1>a, <2>1, TokenStays DEF MainPrepare
<1>2. ASSUME NEW s \in Slot, VersionChange(s) PROVE TokensInv'
  BY <1>2, <1>a, TokenStays DEF VersionChange, appVars
<1>3. ASSUME NEW s \in Slot, EndTransition(s) PROVE TokensInv'
  <2>1. main' = main \/ windowToken = NoToken
    BY <1>3 DEF EndTransition, TokensInv
  <2>2. QED
    BY <1>3, <1>a, <2>1, TokenStays DEF EndTransition
<1>4. CASE MainListen
  BY <1>4, <1>a, TokenStays DEF MainListen
<1>5. CASE Hide
  <2>1. windowToken = NoToken /\ ~hidden /\ hidden' /\ UNCHANGED <<main, menu, menuToken>>
    BY <1>5 DEF Hide, TokensInv
  <2>2. CASE main = "listening"
    <3>1. PICK t \in Fresh :
            /\ CallPause(t)
            /\ windowToken' = IF PauseThrows THEN windowToken ELSE IF MayOperate THEN t ELSE NoToken
      BY <1>5, <2>2 DEF Hide
    <3>2. t \in Token /\ t # menuToken
      BY <3>1 DEF Fresh
    <3>3. CASE Pause(t) /\ MayOperate /\ ~Paused
      <4>0. cur.name # "over"
        BY <3>3, TakesMeans DEF Pause, GameInv, TypeInv, TypeOK
      <4>1. token' = t /\ closed' = closed /\ windowToken' = t /\ token = NoToken
        BY <3>1, <3>3, <4>0 DEF Pause, Paused, PauseThrows
      <4>2. ~closed' => ~(menu = "open" /\ menuToken # NoToken)
        BY <4>1, GameAssumption DEF TokensInv, MenuHoldsGame
      <4>3. QED
        BY <2>1, <2>2, <3>2, <4>1, <4>2 DEF TokensInv, TokensTyped, MenuHoldsGame, NoLostResume, Paused
    <3>4. CASE OverError \/ UNCHANGED vars
      <4>1. token' = token /\ closed' = closed /\ windowToken' \in {t, NoToken}
        BY <2>1, <3>1, <3>4 DEF OverError, vars
      <4>2. QED
        BY <2>1, <2>2, <3>2, <4>1 DEF TokensInv, TokensTyped, MenuHoldsGame, NoLostResume, Paused
    <3>5. QED
      BY <3>1, <3>2, <3>3, <3>4, CallPauseIs
  <2>3. CASE main # "listening"
    <3>1. token' = token /\ closed' = closed /\ windowToken' = windowToken
      BY <1>5, <2>3 DEF Hide, vars
    <3>2. QED
      BY <2>1, <3>1 DEF TokensInv, TokensTyped, MenuHoldsGame, NoLostResume, Paused
  <2>4. QED
    BY <2>2, <2>3
<1>6. CASE Show
  <2>1. ~hidden' /\ windowToken' = NoToken /\ UNCHANGED <<main, menu, menuToken>>
    BY <1>6 DEF Show
  <2>2. CASE windowToken # NoToken /\ token = windowToken /\ Resume(windowToken)
    <3>1. token' = NoToken /\ closed' = closed /\ windowToken # menuToken
      BY <2>2 DEF Resume, TokensInv
    <3>2. ~closed' => ~(menu = "open" /\ menuToken # NoToken)
      BY <2>2, <3>1 DEF TokensInv, MenuHoldsGame
    <3>3. QED
      BY <2>1, <3>1, <3>2 DEF TokensInv, TokensTyped, MenuHoldsGame, NoLostResume, Paused
  <2>3. CASE UNCHANGED vars \/ OverError
    <3>1. token' = token /\ closed' = closed
      BY <2>3 DEF vars, OverError
    <3>2. ASSUME ~closed, Paused, token = windowToken PROVE FALSE
      <4>1. main = "listening" /\ windowToken \in Token /\ windowToken # NoToken
        BY <3>2 DEF TokensInv, TokensTyped, Paused
      <4>2. CallResume(windowToken) /\ MayOperate
        BY <1>6, <4>1, <3>2, PausedRests DEF Show
      <4>3. Resume(windowToken)
        BY <4>1, <4>2, <3>2 DEF CallResume
      <4>4. token' = NoToken
        BY <4>3 DEF Resume
      <4>5. QED
        BY <3>1, <3>2, <4>4 DEF Paused
    <3>3. QED
      BY <2>1, <3>1, <3>2 DEF TokensInv, TokensTyped, MenuHoldsGame, NoLostResume, Paused
  <2>4. QED
    BY <1>6, <2>2, <2>3, CallResumeIs, GameAssumption DEF Show, TokensInv, TokensTyped
<1>7. CASE OpenMenu
  <2>1. /\ ~hidden /\ menu = "closed" /\ UNCHANGED <<main, hidden, windowToken>>
        /\ windowToken = NoToken /\ menuToken = NoToken
    BY <1>7 DEF OpenMenu, PageReachable, TokensInv
  <2>2. ~closed => ~Paused
    BY <2>1 DEF TokensInv, NoLostResume
  <2>3. PICK t \in Fresh :
          /\ CallPause(t)
          /\ IF PauseThrows
             THEN menu' = "stuck" /\ UNCHANGED menuToken
             ELSE menu' = "open" /\ menuToken' = IF MayOperate THEN t ELSE NoToken
    BY <1>7 DEF OpenMenu
  <2>4. t \in Token
    BY <2>3 DEF Fresh
  <2>5. CASE Pause(t) /\ MayOperate /\ ~Paused
    <3>1. token' = t /\ cur.name # "over" /\ closed' = closed
      BY <2>5, TakesMeans DEF Pause, GameInv, TypeInv, TypeOK
    <3>2. menu' = "open" /\ menuToken' = t
      BY <2>3, <2>5, <3>1 DEF PauseThrows
    <3>3. QED
      BY <2>1, <2>4, <3>1, <3>2 DEF TokensInv, TokensTyped, MenuHoldsGame, NoLostResume, Paused
  <2>6. CASE OverError /\ cur.name = "over"
    <3>1. closed /\ closed' = closed
      BY <2>6 DEF OverError, GameInv, EventTells
    <3>2. QED
      BY <2>1, <2>3, <2>4, <3>1 DEF TokensInv, TokensTyped, MenuHoldsGame, NoLostResume
  <2>7. CASE UNCHANGED vars /\ (~MayOperate \/ Paused)
    <3>1. token' = token /\ closed' = closed
      BY <2>7 DEF vars
    <3>2. ~closed => menuToken' = NoToken
      BY <2>2, <2>3, <2>7 DEF PauseThrows
    <3>3. QED
      BY <2>1, <2>2, <2>3, <2>4, <3>1, <3>2 DEF TokensInv, TokensTyped, MenuHoldsGame, NoLostResume, Paused
  <2>8. QED
    BY <2>3, <2>4, <2>5, <2>6, <2>7, CallPauseIs
<1>8. CASE CloseMenu
  BY <1>8 DEF CloseMenu, vars, TokensInv, TokensTyped, MenuHoldsGame, NoLostResume, Paused
<1>9. CASE AfterClose
  <2>1. /\ menu = "closing" /\ UNCHANGED <<main, hidden, windowToken>> /\ CallResume(menuToken)
        /\ \/ menu' = "closed" /\ menuToken' = NoToken
           \/ menu' = "closing" /\ menuToken' = menuToken
    BY <1>9 DEF AfterClose
  <2>2. menuToken \in Token \union {NoToken}
    BY DEF TokensInv, TokensTyped
  <2>3. token' \in {token, NoToken} /\ closed' = closed
    BY <2>1, <2>2, CallResumeIs DEF Resume, OverError, vars
  <2>4. ASSUME ~closed, Paused, token = menuToken PROVE token' = NoToken
    <3>1. CallResume(menuToken) /\ MayOperate /\ menuToken # NoToken
      BY <2>1, <2>4, PausedRests DEF Paused
    <3>2. QED
      BY <2>4, <3>1 DEF CallResume, Resume
  <2>5. QED
    BY <2>1, <2>3, <2>4 DEF TokensInv, TokensTyped, MenuHoldsGame, NoLostResume, Paused
<1>10. ASSUME NEW g \in Gamemode, PickGamemode(g) PROVE TokensInv'
  BY <1>10, <1>a, TokenStays DEF PickGamemode
<1>11. CASE ClickSquare
  BY <1>11, <1>a, TokenStays DEF ClickSquare, appVars
<1>12. CASE ResetGesture
  BY <1>12, <1>a, TokenStays DEF ResetGesture
<1>13. CASE UNCHANGED allVars
  BY <1>13, <1>a, TokenStays DEF allVars, appVars
<1>14. QED
  BY <1>1, <1>2, <1>3, <1>4, <1>5, <1>6, <1>7, <1>8, <1>9, <1>10, <1>11, <1>12, <1>13
     DEF AppNext

LEMMA AppGameInv == AppSpec => [](GameInv /\ TokensInv)
<1>1. AppInit => GameInv /\ TokensInv
  BY GameInvInit, TokensInit DEF AppInit
<1>2. GameInv /\ TokensInv /\ [AppNext]_allVars => GameInv' /\ TokensInv'
  BY AppStepIsGameStep, GameInvStep, TokensStep DEF TokensInv
<1>3. QED
  BY <1>1, <1>2, PTL DEF AppSpec

(* A game the menu paused stays paused until the menu is closed.             *)
THEOREM MenuHolds == AppSpec => []MenuHoldsGame
<1>1. TokensInv => MenuHoldsGame
  BY DEF TokensInv
<1>2. QED
  BY <1>1, AppGameInv, PTL

(* A paused game always has somebody who is still to resume it.              *)
THEOREM NoneLost == AppSpec => []NoLostResume
<1>1. TokensInv => NoLostResume
  BY DEF TokensInv
<1>2. QED
  BY <1>1, AppGameInv, PTL

(* Whatever the page's clients do together, the game sees its own operations.*)
THEOREM AppImplementsGameSteps == AppSpec => Init /\ [][Next]_vars
<1>1. AppInit => Init
  BY DEF AppInit
<1>2. TokensInv /\ [AppNext]_allVars => [Next]_vars
  BY AppStepIsGameStep DEF TokensInv
<1>3. QED
  BY <1>1, <1>2, AppGameInv, PTL DEF AppSpec

-----------------------------------------------------------------------------
(* Nothing but the loss of the database makes the game answer with an error, *)
(* and nothing but an error makes the page give up.                          *)
LEMMA StuckStep ==
  ASSUME GameInv, GameInv', PageDiesOnlyOnUpgrade, [Next]_vars, [AppNext]_allVars
  PROVE  PageDiesOnlyOnUpgrade'
<1>1. closed => closed'
  BY DEF Next, vars, Prepare, Complete, EndInitial, EndReady, OverPop, OverDrain,
     EndOver, ForceEnd, Reset, ResetEmpty, Pause, Resume, OverError, ClickOn, ClickEnd, SetGamemode
<1>2. ~closed' => event'.name # "error"
  BY DEF GameInv, EventTells
<1>3. ~closed => event.name # "error" /\ cur.name # "over"
  BY DEF GameInv, EventTells
<1>4. ~closed => menu' = menu \/ menu' # "stuck"
  BY <1>3 DEF AppNext, MainPrepare, VersionChange, EndTransition, MainListen, Hide, Show, OpenMenu, PauseThrows,
     CloseMenu, AfterClose, PickGamemode, ClickSquare, ResetGesture, appVars, allVars
<1>5. ~closed => resetting' = resetting \/ resetting' \in Slot \union {NoSlot}
  BY <1>3 DEF AppNext, MainPrepare, VersionChange, EndTransition, MainListen, Hide, Show, OpenMenu,
     CloseMenu, AfterClose, PickGamemode, ClickSquare, ResetGesture, appVars, allVars
<1>6. QED
  BY <1>1, <1>2, <1>4, <1>5, AppAssumption DEF PageDiesOnlyOnUpgrade

(* The page is given up only with the database.                              *)
THEOREM DiesOnlyOnUpgrade == AppSpec => []PageDiesOnlyOnUpgrade
<1>1. AppInit => PageDiesOnlyOnUpgrade
  BY AppAssumption DEF AppInit, Init, Ended, PageDiesOnlyOnUpgrade
<1>2. GameInv /\ TokensInv /\ PageDiesOnlyOnUpgrade /\ GameInv' /\ [AppNext]_allVars
        => PageDiesOnlyOnUpgrade'
  BY AppStepIsGameStep, StuckStep DEF TokensInv
<1>3. QED
  BY <1>1, <1>2, AppGameInv, PTL DEF AppSpec

-----------------------------------------------------------------------------
(* What the menu shows.  A choice that is not made during a transition waits *)
(* only for as long as a game is being played.                               *)
ChoiceWaits ==
  ~closed /\ ~late /\ (event.name = "transitionstart" \/ cur.name # "ongoing") =>
    props.next = NoMode

MenuInv == MenuTellsGamemode /\ ChoiceWaits

LEMMA MenuStep ==
  ASSUME GameInv, GameInv', TokensInv, MenuInv, [AppNext]_allVars
  PROVE  MenuInv'
<1>t. /\ cur \in State /\ props \in [gamemode: Gamemode, next: Gamemode \union {NoMode}]
      /\ late \in BOOLEAN /\ inflight \in [Slot -> Transition]
      /\ squares \in Nat /\ interactive \in BOOLEAN
  BY GameAssumption DEF GameInv, TypeInv, TypeOK
<1>k. InPlay <=> ~Paused /\ cur.name \in {"ready", "ongoing"}
  BY <1>t, TakesMeans
<1>m. [Next]_vars
  BY AppStepIsGameStep DEF TokensInv
<1>c. closed => closed'
  BY <1>m DEF Next, vars, Prepare, Complete, EndInitial, EndReady, OverPop, OverDrain,
     EndOver, ForceEnd, Reset, ResetEmpty, Pause, Resume, OverError, ClickOn, ClickEnd, SetGamemode
<1> SUFFICES ASSUME ~closed, ~closed' PROVE MenuInv'
  BY <1>c DEF MenuInv, MenuTellsGamemode, ChoiceWaits
<1>n. TakeNext(props).next = NoMode /\ TakeNext(TakeNext(props)) = TakeNext(props)
  BY <1>t DEF TakeNext
<1>q. Clickable => event.name # "transitionstart"
  BY <1>t DEF GameInv, EventTells, Clickable
<1>a. ASSUME UNCHANGED <<props, late, shown, chosen>>, cur'.name = cur.name,
             \/ event' = event
             \/ event'.name # "transitionstart" /\ event.name # "transitionstart"
      PROVE  MenuInv'
  BY <1>a DEF MenuInv, MenuTellsGamemode, ChoiceWaits
<1>b. ASSUME UNCHANGED vars, UNCHANGED stores PROVE MenuInv'
  <2>1. UNCHANGED <<props, late, shown, chosen>> /\ cur' = cur /\ event' = event /\ closed' = closed
    BY <1>b DEF vars, stores
  <2>2. QED
    BY <2>1 DEF MenuInv, MenuTellsGamemode, ChoiceWaits
<1>1. ASSUME NEW s \in Slot, MainPrepare(s) PROVE MenuInv'
  <2>1. /\ UNCHANGED <<props, late, shown, chosen>> /\ cur' = cur
        /\ event = Ended("initial") /\ cur.name = "initial"
    BY <1>1 DEF MainPrepare, Prepare, stores, GameInv, BootQuiet
  <2>2. QED
    BY <2>1 DEF MenuInv, MenuTellsGamemode, ChoiceWaits, Ended
<1>2. ASSUME NEW s \in Slot, VersionChange(s) PROVE MenuInv'
  BY <1>2 DEF VersionChange, ForceEnd
<1>3. ASSUME NEW s \in Slot, EndTransition(s) PROVE MenuInv'
  <2>1. CASE EndInitial(s)
    <3>1. event.name = "transitionstart"
      BY <2>1 DEF EndInitial, GameInv, EventTells, Free
    <3>2. inflight[s].to.name \in InitialName
      BY <2>1 DEF EndInitial, GameInv, WorkFits
    <3>3. UNCHANGED <<props, late, chosen>> /\ shown' = props.gamemode
      BY <1>3, <2>1, <3>2 DEF EndTransition, EndInitial
    <3>4. QED
      BY <3>1, <3>3 DEF MenuInv, MenuTellsGamemode, ChoiceWaits
  <2>2. CASE EndReady(s)
    <3>1. event.name = "transitionstart" /\ event.to = "ready" /\ inflight[s].to.name = "ready"
      BY <2>2 DEF EndReady, GameInv, EventTells, WorkFits, Free
    <3>2. UNCHANGED <<props, late, chosen>> /\ shown' = shown
      BY <1>3, <2>2, <3>1 DEF EndTransition, EndReady, InitialName, EndName
    <3>3. QED
      BY <3>1, <3>2 DEF MenuInv, MenuTellsGamemode, ChoiceWaits
  <2>3. CASE OverPop(s) \/ OverDrain(s) \/ EndOver(s)
    BY <2>3 DEF OverPop, OverDrain, EndOver, GameInv, EventTells, Free
  <2>4. QED
    BY <1>3, <2>1, <2>2, <2>3 DEF EndTransition, Complete
<1>4. CASE MainListen \/ CloseMenu \/ UNCHANGED allVars
  <2>1. UNCHANGED vars /\ UNCHANGED stores
    BY <1>4 DEF MainListen, CloseMenu, allVars, appVars
  <2>2. QED
    BY <1>b, <2>1
<1>5. ASSUME NEW t \in Token, Pause(t) \/ Resume(t), UNCHANGED stores PROVE MenuInv'
  BY <1>5, <1>a DEF Pause, Resume, MayOperate, Ended, stores
<1>6. ASSUME UNCHANGED vars \/ OverError, UNCHANGED stores PROVE MenuInv'
  <2>1. ~OverError
    BY DEF OverError, GameInv, EventTells
  <2>2. QED
    BY <1>6, <1>b, <2>1
<1>7. CASE Hide
  BY <1>5, <1>6, <1>7, CallPauseIs DEF Hide, Fresh
<1>8. CASE Show
  BY <1>5, <1>6, <1>8, CallResumeIs DEF Show, TokensInv, TokensTyped
<1>9. CASE OpenMenu
  BY <1>5, <1>6, <1>9, CallPauseIs DEF OpenMenu, Fresh
<1>10. CASE AfterClose
  BY <1>5, <1>6, <1>10, CallResumeIs DEF AfterClose, TokensInv, TokensTyped
<1>11. ASSUME NEW g \in Gamemode, PickGamemode(g) PROVE MenuInv'
  <2>1. /\ chosen' = g /\ SetGamemode(g)
        /\ shown' = IF cur.name = "ongoing" THEN shown ELSE g
    BY <1>11 DEF PickGamemode, GameInv, EventTells
  <2>2. /\ event' = event /\ (~late' => ~late /\ event.name # "transitionstart")
        /\ Opened /\ g # NoMode
    BY <1>t, <2>1, GameAssumption DEF SetGamemode
  <2>3. CASE SetNow(g)
    <3>1. late' /\ props'.gamemode = g /\ cur.name # "ongoing"
      BY <1>t, <2>2, <2>3 DEF SetNow, GameInv, InitialPasses, InitialName, EndName
    <3>2. QED
      BY <2>1, <3>1 DEF MenuInv, MenuTellsGamemode, ChoiceWaits
  <2>4. CASE SetReady(g)
    <3>1. cur.name = "ready" /\ props'.gamemode = g /\ props'.next = props.next
      BY <1>t, <2>4 DEF SetReady
    <3>2. ~late' => props'.next = NoMode
      BY <2>2, <3>1 DEF MenuInv, ChoiceWaits
    <3>3. QED
      BY <2>1, <3>1, <3>2 DEF MenuInv, MenuTellsGamemode, ChoiceWaits, TakeNext
  <2>5. CASE SetNext(g)
    <3>1. /\ cur.name = "ongoing" /\ cur' = cur /\ shown' = shown
          /\ props'.gamemode = props.gamemode /\ props'.next = g
      BY <1>t, <2>1, <2>5 DEF SetNext
    <3>2. TakeNext(props').gamemode = g
      BY <2>2, <3>1 DEF TakeNext
    <3>3. QED
      BY <2>1, <2>2, <3>1, <3>2 DEF MenuInv, MenuTellsGamemode, ChoiceWaits
  <2>6. QED
    BY <2>1, <2>3, <2>4, <2>5 DEF SetGamemode
<1>12. CASE ClickSquare
  <2>1. ASSUME NEW d \in Draws, ClickOn(d) PROVE MenuInv'
    <3>1. /\ UNCHANGED <<props, late, shown, chosen>> /\ cur'.name = "ongoing"
          /\ event.name # "transitionstart" /\ event'.name # "transitionstart"
      BY <1>12, <1>q, <2>1 DEF ClickSquare, appVars, stores, ClickOn, Ongoing, Ended
    <3>2. QED
      BY <3>1 DEF MenuInv, MenuTellsGamemode, ChoiceWaits
  <2>2. ASSUME NEW d \in Draws, NEW s \in Slot, NEW kind \in EndName, ClickEnd(s, kind, d)
        PROVE MenuInv'
    <3>1. /\ props' = TakeNext(props) /\ late' = late /\ chosen' = chosen
          /\ event'.name = "transitionstart" /\ event'.to # "ready"
      BY <1>12, <2>2 DEF ClickSquare, appVars, stores, ClickEnd, Starting, EndName
    <3>2. QED
      BY <1>n, <3>1 DEF MenuInv, MenuTellsGamemode, ChoiceWaits
  <2>3. QED
    BY <1>12, <2>1, <2>2 DEF ClickSquare
<1>13. CASE ResetGesture
  <2>1. ASSUME NEW s \in Slot, Reset(s) PROVE MenuInv'
    <3>1. /\ props' = TakeNext(props) /\ late' = late /\ chosen' = chosen
          /\ event'.name = "transitionstart" /\ event'.to # "ready"
      BY <1>13, <2>1 DEF ResetGesture, Reset, Starting
    <3>2. QED
      BY <1>n, <3>1 DEF MenuInv, MenuTellsGamemode, ChoiceWaits
  <2>2. ASSUME NEW s \in Slot, ResetEmpty(s), shown' = props'.gamemode PROVE MenuInv'
    <3>1. /\ props' = TakeNext(props) /\ late' = late /\ chosen' = chosen
      BY <1>13, <2>2 DEF ResetGesture, ResetEmpty
    <3>2. QED
      BY <1>n, <2>2, <3>1 DEF MenuInv, MenuTellsGamemode, ChoiceWaits
  <2>3. ASSUME UNCHANGED <<vars, shown>> PROVE MenuInv'
    BY <1>6, <1>13, <2>3 DEF ResetGesture, stores
  <2>4. QED
    BY <1>13, <2>1, <2>2, <2>3 DEF ResetGesture
<1>14. QED
  BY <1>1, <1>2, <1>3, <1>4, <1>7, <1>8, <1>9, <1>10, <1>11, <1>12, <1>13 DEF AppNext

(* The menu's button and its choice tell what is played and what will be.    *)
THEOREM MenuTells == AppSpec => []MenuTellsGamemode
<1>1. AppInit => MenuInv
  BY DEF AppInit, Init, Ended, MenuInv, MenuTellsGamemode, ChoiceWaits, TakeNext
<1>2. GameInv /\ TokensInv /\ MenuInv /\ GameInv' /\ [AppNext]_allVars => MenuInv'
  BY MenuStep
<1>3. MenuInv => MenuTellsGamemode
  BY DEF MenuInv
<1>4. QED
  BY <1>1, <1>2, <1>3, AppGameInv, PTL DEF AppSpec
=============================================================================
