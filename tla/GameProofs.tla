----------------------------- MODULE GameProofs -----------------------------
(* Theorems about Game for any gamemodes, tokens, slots, number of squares  *)
(* and offset bound, with and without database upgrades and late choices:   *)
(* its types, its inductive invariant and the safety properties that follow, *)
(* and that it implements the safety part of Lifecycle.                     *)
EXTENDS GameRefinement, TLAPS

-----------------------------------------------------------------------------
(* Type correctness.  A Ready state draws from the generator where its      *)
(* predecessor stopped: every offset it may start from leaves room.         *)

SeedsLeaveRoom ==
  /\ cur.seed < MaxOff
  /\ \A s \in Slot : inflight[s].to.seed < MaxOff

TypeInv == TypeOK /\ SeedsLeaveRoom

(* What each state's processEvent takes, read the other way round.          *)
LEMMA TakesMeans ==
  ASSUME cur \in State
  PROVE  /\ "prepare" \in Takes <=> ~Paused /\ cur.name \in InitialName
         /\ "forceEnd" \in Takes <=> Paused \/ cur.name # "over"
         /\ "restart" \in Takes <=> Paused \/ cur.name \in {"ready", "ongoing"}
         /\ "pause" \in Takes <=> ~Paused /\ cur.name # "over"
         /\ "resume" \in Takes <=> Paused
         /\ InPlay <=> ~Paused /\ cur.name \in {"ready", "ongoing"}
<1>1. cur.name \in StateName
  BY DEF State
<1>2. CASE Paused
  BY <1>2 DEF Takes, PauseTakes, InPlay
<1>3. CASE ~Paused /\ cur.name \in InitialName
  BY <1>3 DEF Takes, InitialTakes, InPlay, InitialName, EndName
<1>4. CASE ~Paused /\ cur.name = "ready"
  BY <1>4 DEF Takes, ReadyTakes, InPlay, InitialName, EndName
<1>5. CASE ~Paused /\ cur.name = "ongoing"
  BY <1>5 DEF Takes, OngoingTakes, InPlay, InitialName, EndName
<1>6. CASE ~Paused /\ cur.name = "over"
  BY <1>6 DEF Takes, OverTakes, InPlay, InitialName, EndName
<1>7. QED
  BY <1>1, <1>2, <1>3, <1>4, <1>5, <1>6 DEF StateName

LEMMA InitialType ==
  ASSUME NEW kind \in InitialName, NEW rand \in Off,
         NEW attempt \in [gamemode: Gamemode \union {NoMode}, seed: Off, ended: BOOLEAN]
  PROVE  Initial(kind, rand, attempt) \in State
BY DEF Initial, State, StateName, InitialName, EndName

LEMMA NoAttemptType ==
  NoAttempt \in [gamemode: Gamemode \union {NoMode}, seed: Off, ended: BOOLEAN]
BY GameAssumption DEF NoAttempt, Off

LEMMA OverType == Over \in State /\ Over.seed < MaxOff
BY GameAssumption, NoAttemptType DEF Over, State, StateName, Off

LEMMA ReadyType ==
  ASSUME NEW seed \in Off, seed < MaxOff, NEW g
  PROVE  Ready(seed, seed + Cost(g)) \in State
<1>1. seed + Cost(g) \in Off
  BY GameAssumption DEF Off, Cost
<1>2. QED
  BY <1>1, NoAttemptType DEF Ready, State, StateName

(* setState(new Ready(...)) keeps the types of what it changes.             *)
LEMMA BeginReadyType ==
  ASSUME TypeInv, NEW s \in Slot, NEW seed \in Off, seed < MaxOff,
         NEW g \in Gamemode, NEW n \in 0 .. NumSquares,
         NEW inter \in BOOLEAN, NEW att \in BOOLEAN,
         BeginReady(s, seed, g, n, inter, att)
  PROVE  /\ inflight' \in [Slot -> Transition]
         /\ \A r \in Slot : inflight'[r].to.seed < MaxOff
         /\ event' \in Event
         /\ squares' \in 0 .. NumSquares
         /\ interactive' \in BOOLEAN /\ attached' \in BOOLEAN
         /\ board' \in [by: Gamemode \union {NoMode}, seed: Off]
<1> DEFINE new == [to |-> Ready(seed, seed + Cost(g)),
                   work |-> IF n = 0 THEN "create" ELSE "skip"]
<1>1. Ready(seed, seed + Cost(g)) \in State
  BY ReadyType
<1>2. new \in Transition
  BY <1>1 DEF Transition, Work
<1>3. new.to.seed = seed
  BY DEF Ready
<1>4. inflight \in [Slot -> Transition] /\ inflight' = [inflight EXCEPT ![s] = new]
  BY DEF TypeInv, TypeOK, BeginReady
<1> HIDE DEF new
<1>5. inflight' \in [Slot -> Transition]
  BY <1>2, <1>4
<1>6. \A r \in Slot : inflight'[r].to.seed < MaxOff
  BY <1>3, <1>4 DEF TypeInv, SeedsLeaveRoom
<1>7. event' \in Event
  BY DEF BeginReady, Starting, Event, StateName
<1>8. squares' \in 0 .. NumSquares
  BY GameAssumption DEF BeginReady, Appended
<1>9. board' \in [by: Gamemode \union {NoMode}, seed: Off]
  BY DEF BeginReady, ColouredBy, TypeInv, TypeOK
<1>10. interactive' \in BOOLEAN /\ attached' \in BOOLEAN
  BY DEF BeginReady
<1>11. QED
  BY <1>5, <1>6, <1>7, <1>8, <1>9, <1>10

LEMMA TakeNextType ==
  ASSUME NEW p \in [gamemode: Gamemode, next: Gamemode \union {NoMode}]
  PROVE  TakeNext(p) \in [gamemode: Gamemode, next: Gamemode \union {NoMode}]
BY DEF TakeNext

LEMMA TypeInit == Init => TypeInv
<1> SUFFICES ASSUME Init PROVE TypeInv
  OBVIOUS
<1>1. 0 \in Off /\ 0 < MaxOff
  BY GameAssumption DEF Off
<1>2. cur \in State /\ cur.seed < MaxOff
  BY <1>1, NoAttemptType, InitialType DEF Init, Initial, InitialName
<1>3. inflight \in [Slot -> Transition] /\ \A s \in Slot : inflight[s].to.seed < MaxOff
  BY OverType DEF Init, Idle, Transition, Work
<1>4. event \in Event
  BY DEF Init, Ended, Event, StateName, InitialName
<1>5. squares \in 0 .. NumSquares
  BY GameAssumption DEF Init
<1>6. board \in [by: Gamemode \union {NoMode}, seed: Off]
  BY <1>1 DEF Init
<1>7. props \in [gamemode: Gamemode, next: Gamemode \union {NoMode}]
  BY DEF Init
<1>8. /\ token \in Token \union {NoToken}
      /\ {closed, interactive, attached, late} \subseteq BOOLEAN
  BY DEF Init
<1>9. QED
  BY <1>2, <1>3, <1>4, <1>5, <1>6, <1>7, <1>8 DEF TypeInv, TypeOK, SeedsLeaveRoom

LEMMA TypeStep == TypeInv /\ [Next]_vars => TypeInv'
<1> SUFFICES ASSUME TypeInv, [Next]_vars PROVE TypeInv'
  OBVIOUS
<1> USE GameAssumption
<1>a. 0 \in Off /\ 0 < MaxOff
  BY DEF Off
<1>b. \A s \in Slot : /\ inflight[s] \in Transition
                      /\ inflight[s].to \in State
                      /\ inflight[s].to.seed \in Off
                      /\ inflight[s].to.seed < MaxOff
  BY DEF TypeInv, TypeOK, SeedsLeaveRoom, Transition, State
<1>1. ASSUME NEW s \in Slot, Prepare(s) PROVE TypeInv'
  <2>1. cur.seed \in Off /\ cur.seed < MaxOff /\ props.gamemode \in Gamemode
    BY DEF TypeInv, TypeOK, SeedsLeaveRoom, State
  <2>2. BeginReady(s, cur.seed, props.gamemode, squares, interactive, attached)
    BY <1>1 DEF Prepare
  <2>3. squares \in 0 .. NumSquares /\ interactive \in BOOLEAN /\ attached \in BOOLEAN
    BY DEF TypeInv, TypeOK
  <2>4. QED
    BY <1>1, <2>1, <2>2, <2>3, BeginReadyType DEF Prepare, TypeInv, TypeOK, SeedsLeaveRoom
<1>2. ASSUME NEW s \in Slot, EndInitial(s) PROVE TypeInv'
  <2>1. props.gamemode \in Gamemode /\ squares \in 0 .. NumSquares
    BY DEF TypeInv, TypeOK
  <2>2. BeginReady(s, inflight[s].to.seed, props.gamemode, squares, TRUE, FALSE)
    BY <1>2 DEF EndInitial
  <2>3. QED
    BY <1>2, <1>b, <2>1, <2>2, BeginReadyType DEF EndInitial, TypeInv, TypeOK, SeedsLeaveRoom
<1>3. ASSUME NEW s \in Slot, EndReady(s) PROVE TypeInv'
  BY <1>3, <1>b, OverType DEF EndReady, TypeInv, TypeOK, SeedsLeaveRoom, Idle, Transition, Work,
     Ended, Event, StateName
<1>4. ASSUME NEW s \in Slot, OverPop(s) PROVE TypeInv'
  BY <1>4 DEF OverPop, TypeInv, TypeOK, SeedsLeaveRoom
<1>5. ASSUME NEW s \in Slot, OverDrain(s) PROVE TypeInv'
  BY <1>5, <1>b DEF OverDrain, gridVars, TypeInv, TypeOK, SeedsLeaveRoom, Transition, Work
<1>6. ASSUME NEW s \in Slot, EndOver(s) PROVE TypeInv'
  BY <1>6, <1>b, OverType DEF EndOver, TypeInv, TypeOK, SeedsLeaveRoom, Idle, Transition, Work,
     Ended, Event, StateName
<1>7. ASSUME NEW s \in Slot, ForceEnd(s) PROVE TypeInv'
  <2> DEFINE new == [to |-> Over, work |-> "pop"]
  <2>1. new \in Transition /\ new.to.seed < MaxOff
    BY OverType DEF Transition, Work
  <2>2. inflight' = [inflight EXCEPT ![s] = new]
    BY <1>7 DEF ForceEnd
  <2> HIDE DEF new
  <2>3. inflight' \in [Slot -> Transition] /\ \A r \in Slot : inflight'[r].to.seed < MaxOff
    BY <2>1, <2>2 DEF TypeInv, TypeOK, SeedsLeaveRoom
  <2>4. event' \in Event
    BY <1>7 DEF ForceEnd, Starting, Event, StateName
  <2>5. squares' \in 0 .. NumSquares
    BY <1>7 DEF ForceEnd, TypeInv, TypeOK
  <2>6. QED
    BY <1>7, <2>3, <2>4, <2>5 DEF ForceEnd, TypeInv, TypeOK, SeedsLeaveRoom
<1>8. ASSUME NEW s \in Slot, Reset(s) PROVE TypeInv'
  <2>1. Initial("initial", 0, NoAttempt) \in State
    BY <1>a, InitialType, NoAttemptType DEF InitialName
  <2>2. Initial("initial", 0, NoAttempt).seed = 0
    BY DEF Initial
  <2> DEFINE new == [to |-> Initial("initial", 0, NoAttempt), work |-> "short"]
  <2>3. new \in Transition /\ new.to.seed < MaxOff
    BY <1>a, <2>1, <2>2 DEF Transition, Work
  <2>4. inflight' = [inflight EXCEPT ![s] = new]
    BY <1>8 DEF Reset
  <2> HIDE DEF new
  <2>5. inflight' \in [Slot -> Transition] /\ \A r \in Slot : inflight'[r].to.seed < MaxOff
    BY <2>3, <2>4 DEF TypeInv, TypeOK, SeedsLeaveRoom
  <2>6. props' \in [gamemode: Gamemode, next: Gamemode \union {NoMode}]
    BY <1>8, TakeNextType DEF Reset, TypeInv, TypeOK
  <2>7. event' \in Event
    BY <1>8 DEF Reset, Starting, Event, StateName, InitialName
  <2>8. squares' = 0 /\ interactive' = FALSE
    BY <1>8 DEF Reset
  <2>9. QED
    BY <1>8, 0 \in 0 .. NumSquares, <2>5, <2>6, <2>7, <2>8 DEF Reset, TypeInv, TypeOK, SeedsLeaveRoom
<1>9. ASSUME NEW s \in Slot, ResetEmpty(s) PROVE TypeInv'
  <2>1. Initial("initial", 0, NoAttempt) \in State /\ Initial("initial", 0, NoAttempt).seed = 0
    BY <1>a, InitialType, NoAttemptType DEF InitialName, Initial
  <2>2. props' \in [gamemode: Gamemode, next: Gamemode \union {NoMode}]
    BY <1>9, TakeNextType DEF ResetEmpty, TypeInv, TypeOK
  <2>3. TakeNext(props).gamemode \in Gamemode
    BY <1>9, <2>2 DEF ResetEmpty
  <2>4. BeginReady(s, 0, TakeNext(props).gamemode, 0, interactive, attached)
    BY <1>9 DEF ResetEmpty
  <2>5. interactive \in BOOLEAN /\ attached \in BOOLEAN /\ 0 \in 0 .. NumSquares
    BY DEF TypeInv, TypeOK
  <2>6. QED
    BY <1>9, <1>a, <2>1, <2>2, <2>3, <2>4, <2>5, BeginReadyType
    DEF ResetEmpty, TypeInv, TypeOK, SeedsLeaveRoom
<1>10. ASSUME NEW t \in Token, Pause(t) PROVE TypeInv'
  BY <1>10 DEF Pause, TypeInv, TypeOK, SeedsLeaveRoom, Ended, Event
<1>11. ASSUME NEW t \in Token, Resume(t) PROVE TypeInv'
  BY <1>11 DEF Resume, TypeInv, TypeOK, SeedsLeaveRoom, Ended, Event, State
<1>12. CASE OverError
  BY <1>12 DEF OverError, gridVars, TypeInv, TypeOK, SeedsLeaveRoom, Failed, Event
<1>13. ASSUME NEW d \in Draws, ClickOn(d) PROVE TypeInv'
  <2>1. AttemptOf(cur) \in [gamemode: Gamemode \union {NoMode}, seed: Off, ended: BOOLEAN]
    BY DEF TypeInv, TypeOK, State, AttemptOf
  <2>2. cur.rand + d \in Off /\ cur.seed \in Off
    BY <1>13 DEF ClickOn, CanDraw, Draws, Off, TypeInv, TypeOK, State
  <2>3. cur' \in State /\ cur'.seed = cur.seed
    BY <1>13, <2>1, <2>2 DEF ClickOn, Ongoing, State, StateName
  <2>4. event' \in Event
    BY <1>13 DEF ClickOn, Ended, Event, StateName, TypeInv, TypeOK
  <2>5. squares' \in 0 .. NumSquares
    BY <1>13 DEF ClickOn, Clickable, TypeInv, TypeOK
  <2>6. QED
    BY <1>13, <2>3, <2>4, <2>5 DEF ClickOn, TypeInv, TypeOK, SeedsLeaveRoom
<1>14. ASSUME NEW d \in Draws, NEW s \in Slot, NEW kind \in EndName, ClickEnd(s, kind, d)
       PROVE TypeInv'
  <2>1. AttemptOf(cur) \in [gamemode: Gamemode \union {NoMode}, seed: Off, ended: BOOLEAN]
    BY DEF TypeInv, TypeOK, State, AttemptOf
  <2>2. cur.rand + d \in Off /\ cur.rand + d < MaxOff
    BY <1>14 DEF ClickEnd, CanDraw, Draws, Off, TypeInv, TypeOK, State
  <2>3. cur' \in State /\ cur'.seed = cur.seed
    BY <1>14, <2>2 DEF ClickEnd, State, TypeInv, TypeOK
  <2> DEFINE to == Initial(kind, cur.rand + d, [AttemptOf(cur) EXCEPT !.ended = TRUE])
             new == [to |-> to, work |-> IF kind = "win" THEN "lastop" ELSE "short"]
  <2>4. [AttemptOf(cur) EXCEPT !.ended = TRUE]
          \in [gamemode: Gamemode \union {NoMode}, seed: Off, ended: BOOLEAN]
    BY <2>1
  <2>5. to \in State
    BY <2>2, <2>4, InitialType DEF InitialName
  <2>6. to.seed = cur.rand + d
    BY DEF Initial
  <2>7. inflight' = [inflight EXCEPT ![s] = new]
    BY <1>14 DEF ClickEnd
  <2> HIDE DEF to
  <2>8. new \in Transition /\ new.to.seed < MaxOff
    BY <2>2, <2>5, <2>6 DEF Transition, Work
  <2> HIDE DEF new
  <2>9. inflight' \in [Slot -> Transition] /\ \A r \in Slot : inflight'[r].to.seed < MaxOff
    BY <2>7, <2>8 DEF TypeInv, TypeOK, SeedsLeaveRoom
  <2>10. props' \in [gamemode: Gamemode, next: Gamemode \union {NoMode}]
    BY <1>14, TakeNextType DEF ClickEnd, TypeInv, TypeOK
  <2>11. event' \in Event
    BY <1>14 DEF ClickEnd, Starting, Event, StateName, InitialName
  <2>12. squares' \in 0 .. NumSquares /\ interactive' \in BOOLEAN
    BY <1>14 DEF ClickEnd
  <2>13. QED
    BY <1>14, <2>3, <2>9, <2>10, <2>11, <2>12 DEF ClickEnd, TypeInv, TypeOK, SeedsLeaveRoom
<1>15. ASSUME NEW g \in Gamemode, SetGamemode(g) PROVE TypeInv'
  <2>1. CASE SetNow(g)
    BY <1>15, <2>1 DEF SetGamemode, SetNow, TypeInv, TypeOK, SeedsLeaveRoom
  <2>2. CASE SetReady(g)
    <3>1. cur.seed + Cost(g) \in Off /\ cur.seed \in Off
      BY DEF Cost, Off, TypeInv, TypeOK, SeedsLeaveRoom, State
    <3>2. cur' \in State /\ cur'.seed = cur.seed
      BY <2>2, <3>1 DEF SetReady, TypeInv, TypeOK, State
    <3>3. board' \in [by: Gamemode \union {NoMode}, seed: Off]
      BY <2>2, <3>1 DEF SetReady, ColouredBy, TypeInv, TypeOK
    <3>4. QED
      BY <1>15, <2>2, <3>2, <3>3 DEF SetGamemode, SetReady, TypeInv, TypeOK, SeedsLeaveRoom
  <2>3. CASE SetNext(g)
    BY <1>15, <2>3 DEF SetGamemode, SetNext, TypeInv, TypeOK, SeedsLeaveRoom
  <2>4. QED
    BY <1>15, <2>1, <2>2, <2>3 DEF SetGamemode
<1>16. CASE UNCHANGED vars
  BY <1>16 DEF vars, gridVars, TypeInv, TypeOK, SeedsLeaveRoom
<1>17. QED
  BY <1>1, <1>2, <1>3, <1>4, <1>5, <1>6, <1>7, <1>8, <1>9, <1>10, <1>11, <1>12, <1>13,
     <1>14, <1>15, <1>16 DEF Next, Complete

(* Every variable keeps its type: offsets stay within their bound, a grid   *)
(* never holds more squares than it was created with.                       *)
THEOREM TypeCorrect == Spec => []TypeOK
<1>1. Spec => []TypeInv
  BY TypeInit, TypeStep, PTL DEF Spec
<1>2. TypeInv => TypeOK
  BY DEF TypeInv
<1>3. QED
  BY <1>1, <1>2, PTL

-----------------------------------------------------------------------------
(* The inductive invariant, and the safety theorems it carries.             *)

(* What a transition works on tells the state it leads to.                  *)
WorkFits ==
  \A s \in Slot :
    /\ inflight[s].work \in {"short", "lastop"} => inflight[s].to.name \in InitialName
    /\ inflight[s].work \in {"create", "skip"} => inflight[s].to.name = "ready"
    /\ inflight[s].work \in {"pop", "drain"} => inflight[s].to.name = "over"

(* Until main() prepares the first game nothing has happened.               *)
BootQuiet ==
  event = Ended("initial") =>
    /\ cur.name = "initial" /\ ~Paused /\ ~closed
    /\ squares = 0
    /\ \A s \in Slot : Free(s)

(* From then on an Initial, Win or Lose state is current only while the     *)
(* next game's Ready transition runs, and it was the last to start.         *)
InitialPasses ==
  Opened /\ cur.name \in InitialName => event.name = "transitionstart"

PauseInPlay ==
  Paused => /\ cur.name \in {"ready", "ongoing"}
            /\ event \in {Ended("pause"), Starting("over")}

(* While the database is open the last event tells all there is to know of  *)
(* the transitions, and while one runs there is nothing to click on.        *)
EventTells ==
  ~closed =>
    /\ cur.name # "over" /\ event.name # "error"
    /\ \A s, t \in Slot : ~Free(s) /\ ~Free(t) => s = t
    /\ event.name = "transitionstart" <=> \E s \in Slot : ~Free(s)
    /\ event.name = "transitionend" => event.to = Name
    /\ \A s \in Slot : ~Free(s) =>
         /\ event.to = inflight[s].to.name
         /\ \/ inflight[s].work = "create" /\ ~interactive
            \/ inflight[s].work \in {"short", "lastop"} /\ squares = 0

GameInv ==
  /\ TypeInv
  /\ WorkFits
  /\ BootQuiet
  /\ InitialPasses
  /\ PauseInPlay
  /\ EventTells

LEMMA GameInvInit == Init => GameInv
<1> SUFFICES ASSUME Init PROVE GameInv
  OBVIOUS
<1>1. TypeInv
  BY TypeInit
<1>2. /\ cur.name = "initial" /\ event = Ended("initial") /\ token = NoToken
      /\ closed = FALSE /\ squares = 0
      /\ \A s \in Slot : inflight[s].work = "idle"
  BY DEF Init, Initial, Idle
<1>3. QED
  BY <1>1, <1>2 DEF GameInv, WorkFits, BootQuiet, InitialPasses, PauseInPlay, EventTells, Opened, Paused, Name, Free, Ended, Starting

(* What setState(new Ready(...)) leaves behind.                             *)
LEMMA BeginReadyShape ==
  ASSUME TypeInv, NEW s \in Slot, NEW seed, NEW g, NEW n \in Nat, NEW inter \in BOOLEAN,
         NEW att, BeginReady(s, seed, g, n, inter, att)
  PROVE  /\ inflight'[s].to.name = "ready"
         /\ inflight'[s].work \in {"create", "skip"}
         /\ n = 0 => inflight'[s].work = "create" /\ ~interactive'
         /\ \A r \in Slot \ {s} : inflight'[r] = inflight[r]
         /\ event' = Starting("ready")
<1>1. inflight \in [Slot -> Transition]
  BY DEF TypeInv, TypeOK
<1> DEFINE new == [to |-> Ready(seed, seed + Cost(g)),
                   work |-> IF n = 0 THEN "create" ELSE "skip"]
<1>2. inflight' = [inflight EXCEPT ![s] = new]
  BY DEF BeginReady
<1>3. /\ new.to.name = "ready"
      /\ new.work \in {"create", "skip"}
      /\ n = 0 => new.work = "create"
  BY DEF Ready
<1> HIDE DEF new
<1>4. inflight'[s] = new /\ \A r \in Slot \ {s} : inflight'[r] = inflight[r]
  BY <1>1, <1>2
<1>5. event' = Starting("ready") /\ (n = 0 => ~interactive')
  <2>1. interactive' = (n > 0 /\ inter)
    BY DEF BeginReady
  <2>2. n = 0 => ~(n > 0)
    OBVIOUS
  <2>3. n = 0 => ~interactive'
    BY <2>1, <2>2, Zenon
  <2>4. QED
    BY <2>3 DEF BeginReady
<1>6. QED
  BY <1>3, <1>4, <1>5

LEMMA GameInvStep == GameInv /\ [Next]_vars => GameInv'
<1> SUFFICES ASSUME GameInv, [Next]_vars PROVE GameInv'
  OBVIOUS
<1>t. TypeInv /\ TypeInv'
  BY TypeStep DEF GameInv
<1>n. squares \in Nat /\ interactive \in BOOLEAN
  BY <1>t, GameAssumption DEF TypeInv, TypeOK
<1>f. inflight \in [Slot -> Transition]
  BY <1>t DEF TypeInv, TypeOK
<1>k. /\ "pause" \in Takes <=> ~Paused /\ cur.name # "over"
      /\ "resume" \in Takes <=> Paused
      /\ InPlay <=> ~Paused /\ cur.name \in {"ready", "ongoing"}
  BY <1>t, TakesMeans DEF TypeInv, TypeOK
<1> DEFINE Shape == /\ WorkFits' /\ BootQuiet' /\ InitialPasses' /\ PauseInPlay' /\ EventTells'
<1>1. ASSUME NEW s \in Slot, Prepare(s) PROVE Shape
  <2>1. BeginReady(s, cur.seed, props.gamemode, squares, interactive, attached)
        /\ cur' = cur /\ token' = token /\ closed' = closed /\ event = Ended("initial")
    BY <1>1 DEF Prepare
  <2>2. /\ cur.name = "initial" /\ ~Paused /\ ~closed /\ squares = 0
        /\ \A r \in Slot : inflight[r].work = "idle"
    BY <2>1 DEF GameInv, BootQuiet, Free
  <2>3. /\ inflight'[s].to.name = "ready" /\ inflight'[s].work = "create" /\ ~interactive'
        /\ \A r \in Slot \ {s} : inflight'[r].work = "idle"
        /\ event' = Starting("ready")
    BY <1>t, <1>n, <2>1, <2>2, BeginReadyShape
  <2>4. WorkFits'
    BY <2>3 DEF WorkFits
  <2>5. BootQuiet' /\ InitialPasses' /\ PauseInPlay'
    BY <2>1, <2>2, <2>3 DEF BootQuiet, InitialPasses, PauseInPlay, Paused, Ended, Starting
  <2>6. EventTells'
    BY <2>1, <2>2, <2>3 DEF EventTells, Free, Starting
  <2>7. QED
    BY <2>4, <2>5, <2>6
<1>2. ASSUME NEW s \in Slot, EndInitial(s) PROVE Shape
  <2>1. /\ BeginReady(s, inflight[s].to.seed, props.gamemode, squares, TRUE, FALSE)
        /\ cur' = inflight[s].to /\ token' = NoToken /\ closed' = closed
        /\ inflight[s].work \in {"short", "lastop"}
    BY <1>2 DEF EndInitial
  <2>2. ~Free(s) /\ cur'.name \in InitialName
    BY <2>1 DEF GameInv, WorkFits, Free
  <2>3. ~closed => squares = 0 /\ \A r \in Slot \ {s} : Free(r)
    BY <2>1, <2>2 DEF GameInv, EventTells
  <2>4. /\ inflight'[s].to.name = "ready" /\ inflight'[s].work \in {"create", "skip"}
        /\ squares = 0 => inflight'[s].work = "create" /\ ~interactive'
        /\ \A r \in Slot \ {s} : inflight'[r] = inflight[r]
        /\ event' = Starting("ready")
    BY <1>t, <1>n, <2>1, BeginReadyShape
  <2>5. WorkFits'
    BY <2>4 DEF GameInv, WorkFits
  <2>6. BootQuiet' /\ InitialPasses' /\ PauseInPlay'
    BY <2>1, <2>4 DEF BootQuiet, InitialPasses, PauseInPlay, Paused, Ended, Starting
  <2>7. EventTells'
    BY <2>1, <2>2, <2>3, <2>4 DEF EventTells, Free, Starting, InitialName, EndName
  <2>8. QED
    BY <2>5, <2>6, <2>7
<1>3. ASSUME NEW s \in Slot, EndReady(s) PROVE Shape
  BY <1>f, <1>3 DEF EndReady, Idle, GameInv, InitialName, EndName, WorkFits, BootQuiet, InitialPasses,
     PauseInPlay, EventTells, Opened, Paused, Name, Free, Ended, Starting
<1>4. ASSUME NEW s \in Slot, OverPop(s) PROVE Shape
  BY <1>f, <1>4 DEF OverPop, GameInv, WorkFits, BootQuiet, InitialPasses,
     PauseInPlay, EventTells, Opened, Paused, Name, Free, Ended, Starting
<1>5. ASSUME NEW s \in Slot, OverDrain(s) PROVE Shape
  BY <1>f, <1>5 DEF OverDrain, gridVars, GameInv, WorkFits, BootQuiet, InitialPasses,
     PauseInPlay, EventTells, Opened, Paused, Name, Free, Ended, Starting
<1>6. ASSUME NEW s \in Slot, EndOver(s) PROVE Shape
  BY <1>f, <1>6 DEF EndOver, Idle, GameInv, InitialName, EndName, WorkFits, BootQuiet, InitialPasses,
     PauseInPlay, EventTells, Opened, Paused, Name, Free, Ended, Starting
<1>7. ASSUME NEW s \in Slot, ForceEnd(s) PROVE Shape
  BY <1>f, <1>7 DEF ForceEnd, Over, GameInv, WorkFits, BootQuiet, InitialPasses,
     PauseInPlay, EventTells, Opened, Paused, Name, Free, Ended, Starting
<1>8. ASSUME NEW s \in Slot, Reset(s) PROVE Shape
  BY <1>f, <1>8 DEF Reset, Initial, GameInv, InitialName, WorkFits, BootQuiet, InitialPasses,
     PauseInPlay, EventTells, Opened, Paused, Name, Free, Ended, Starting
<1>9. ASSUME NEW s \in Slot, ResetEmpty(s) PROVE Shape
  <2>1. /\ BeginReady(s, 0, TakeNext(props).gamemode, 0, interactive, attached)
        /\ cur' = Initial("initial", 0, NoAttempt) /\ token' = token /\ closed' = closed
        /\ event = Ended("ongoing")
    BY <1>9 DEF ResetEmpty
  <2>2. cur'.name = "initial" /\ ~Paused
    BY <2>1 DEF GameInv, PauseInPlay, Initial, Ended, Starting
  <2>3. ~closed => \A r \in Slot : Free(r)
    BY <2>1 DEF GameInv, EventTells, Ended
  <2>4. /\ inflight'[s].to.name = "ready" /\ inflight'[s].work = "create" /\ ~interactive'
        /\ \A r \in Slot \ {s} : inflight'[r] = inflight[r]
        /\ event' = Starting("ready")
    BY <1>t, <1>n, <2>1, BeginReadyShape
  <2>5. WorkFits'
    BY <2>4 DEF GameInv, WorkFits
  <2>6. BootQuiet' /\ InitialPasses' /\ PauseInPlay'
    BY <2>1, <2>2, <2>4 DEF BootQuiet, InitialPasses, PauseInPlay, Paused, Ended, Starting
  <2>7. EventTells'
    BY <2>1, <2>2, <2>3, <2>4 DEF EventTells, Free, Starting
  <2>8. QED
    BY <2>5, <2>6, <2>7
<1>10. ASSUME NEW t \in Token, Pause(t) PROVE Shape
  BY <1>k, <1>10, GameAssumption DEF Pause, MayOperate, GameInv, State, StateName, InitialName, EndName, TypeInv, TypeOK, WorkFits, BootQuiet, InitialPasses,
     PauseInPlay, EventTells, Opened, Paused, Name, Free, Ended, Starting
<1>11. ASSUME NEW t \in Token, Resume(t) PROVE Shape
  BY <1>k, <1>11 DEF Resume, MayOperate, GameInv, InitialName, EndName, WorkFits, BootQuiet, InitialPasses,
     PauseInPlay, EventTells, Opened, Paused, Name, Free, Ended, Starting
<1>12. ASSUME OverError PROVE Shape
  <2>1. /\ cur' = cur /\ token' = token /\ inflight' = inflight /\ closed' = closed
        /\ squares' = squares /\ interactive' = interactive
        /\ event' = Failed /\ ~Paused /\ cur.name = "over"
    BY <1>12 DEF OverError, gridVars
  <2>2. WorkFits'
    BY <2>1 DEF GameInv, WorkFits
  <2>3. BootQuiet' /\ InitialPasses' /\ PauseInPlay'
    BY <2>1 DEF BootQuiet, InitialPasses, PauseInPlay, Paused, Ended, Failed, InitialName, EndName
  <2>4. EventTells'
    BY <2>1 DEF GameInv, EventTells
  <2>5. QED
    BY <2>2, <2>3, <2>4
<1>13. ASSUME NEW d \in Draws, ClickOn(d) PROVE Shape
  BY <1>k, <1>13 DEF ClickOn, Clickable, Ongoing, GameInv, InitialName, EndName, WorkFits, BootQuiet, InitialPasses,
     PauseInPlay, EventTells, Opened, Paused, Name, Free, Ended, Starting
<1>14. ASSUME NEW d \in Draws, NEW s \in Slot, NEW kind \in EndName, ClickEnd(s, kind, d)
       PROVE Shape
  <2>1. inflight'[s].to.name = kind /\ inflight'[s].work \in {"short", "lastop"}
    BY <1>f, <1>14 DEF ClickEnd, Initial
  <2>2. \A r \in Slot \ {s} : inflight'[r] = inflight[r]
    BY <1>f, <1>14 DEF ClickEnd
  <2>3. cur'.name = cur.name
    BY <1>14, <1>t DEF ClickEnd, TypeInv, TypeOK, State
  <2>4. /\ token' = token /\ closed' = closed /\ event' = Starting(kind) /\ squares' = 0
        /\ squares > 0 /\ interactive /\ InPlay
    BY <1>14 DEF ClickEnd, Clickable
  <2>5. ~closed => \A r \in Slot : Free(r)
    BY <1>n, <2>4 DEF GameInv, EventTells
  <2>6. WorkFits'
    BY <2>1, <2>2 DEF GameInv, WorkFits, InitialName
  <2>7. BootQuiet' /\ InitialPasses' /\ PauseInPlay'
    BY <1>k, <2>3, <2>4 DEF BootQuiet, InitialPasses, PauseInPlay, Paused, Ended, Starting
  <2>8. EventTells'
    BY <1>k, <2>1, <2>2, <2>3, <2>4, <2>5 DEF EventTells, Free, Starting
  <2>9. QED
    BY <2>6, <2>7, <2>8
<1>15. ASSUME NEW g \in Gamemode, SetGamemode(g) PROVE Shape
  <2>1. cur'.name = cur.name
    BY <1>15, <1>t DEF SetGamemode, SetNow, SetReady, SetNext, TypeInv, TypeOK, State
  <2>2. QED
    BY <1>15, <2>1 DEF SetGamemode, GameInv, WorkFits, BootQuiet, InitialPasses,
     PauseInPlay, EventTells, Opened, Paused, Name, Free, Ended, Starting
<1>16. ASSUME UNCHANGED vars PROVE Shape
  <2>1. /\ cur' = cur /\ token' = token /\ inflight' = inflight /\ closed' = closed
        /\ squares' = squares /\ interactive' = interactive /\ event' = event
    BY <1>16 DEF vars, gridVars
  <2>2. QED
    BY <2>1 DEF GameInv, WorkFits, BootQuiet, InitialPasses,
     PauseInPlay, EventTells, Opened, Paused, Name, Free, Ended, Starting
<1>17. QED
  BY <1>t, <1>1, <1>2, <1>3, <1>4, <1>5, <1>6, <1>7, <1>8, <1>9, <1>10, <1>11, <1>12,
     <1>13, <1>14, <1>15, <1>16 DEF Next, Complete, GameInv

THEOREM GameInvariant == Spec => []GameInv
BY GameInvInit, GameInvStep, PTL DEF Spec

(* While the database is open transitions exclude each other.               *)
THEOREM Exclusive == Spec => []TransitionsExclusive
<1>1. GameInv => TransitionsExclusive
  BY DEF GameInv, EventTells, TransitionsExclusive
<1>2. QED
  BY <1>1, GameInvariant, PTL

(* A transitionend names the current state: what ops.ts decides by.         *)
THEOREM EventNames == Spec => []EventNamesState
<1>1. GameInv => EventNamesState
  BY DEF GameInv, EventTells, EventNamesState
<1>2. QED
  BY <1>1, GameInvariant, PTL

(* Win and Lose states are never paused, whatever happens to the database.  *)
THEOREM PausedInPlay == Spec => []PauseOnlyInPlay
<1>1. GameInv => PauseOnlyInPlay
  BY DEF GameInv, PauseInPlay, PauseOnlyInPlay
<1>2. QED
  BY <1>1, GameInvariant, PTL

-----------------------------------------------------------------------------
(* An ended attempt is left without squares, and squares come back only     *)
(* with a state that has no attempt.                                        *)
LEMMA EndsOnceStep ==
  ASSUME GameInv, AttemptEndsOnce, [Next]_vars
  PROVE  AttemptEndsOnce'
<1>t. TypeInv /\ squares \in Nat
  BY GameAssumption DEF GameInv, TypeInv, TypeOK
<1>k. InPlay <=> ~Paused /\ cur.name \in {"ready", "ongoing"}
  BY <1>t, TakesMeans DEF TypeInv, TypeOK
<1> USE DEF AttemptEndsOnce
<1>1. ASSUME NEW s \in Slot, Prepare(s) PROVE AttemptEndsOnce'
  BY <1>1 DEF Prepare, BeginReady, Starting, EndName, GameInv, BootQuiet
<1>2. ASSUME NEW s \in Slot, EndInitial(s) PROVE AttemptEndsOnce'
  <2>1. cur'.name \in InitialName /\ event' = Starting("ready")
    BY <1>2 DEF EndInitial, BeginReady, GameInv, WorkFits
  <2>2. QED
    BY <2>1 DEF Starting, InitialName, EndName
<1>3. ASSUME NEW s \in Slot, EndReady(s) PROVE AttemptEndsOnce'
  BY <1>3 DEF EndReady, Ended, GameInv, WorkFits
<1>4. ASSUME NEW s \in Slot, OverPop(s) PROVE AttemptEndsOnce'
  BY <1>4, <1>t DEF OverPop
<1>5. ASSUME NEW s \in Slot, OverDrain(s) PROVE AttemptEndsOnce'
  BY <1>5 DEF OverDrain, gridVars
<1>6. ASSUME NEW s \in Slot, EndOver(s) PROVE AttemptEndsOnce'
  BY <1>6 DEF EndOver, Ended, GameInv, WorkFits
<1>7. ASSUME NEW s \in Slot, ForceEnd(s) PROVE AttemptEndsOnce'
  BY <1>7, <1>t DEF ForceEnd, Starting, EndName
<1>8. ASSUME NEW s \in Slot, Reset(s) PROVE AttemptEndsOnce'
  BY <1>8 DEF Reset
<1>9. ASSUME NEW s \in Slot, ResetEmpty(s) PROVE AttemptEndsOnce'
  BY <1>9 DEF ResetEmpty, BeginReady, Initial, Starting, EndName
<1>10. ASSUME NEW t \in Token, Pause(t) PROVE AttemptEndsOnce'
  BY <1>10 DEF Pause, Ended
<1>11. ASSUME NEW t \in Token, Resume(t) PROVE AttemptEndsOnce'
  BY <1>11 DEF Resume, Ended
<1>12. ASSUME OverError PROVE AttemptEndsOnce'
  BY <1>12 DEF OverError, Failed, gridVars
<1>13. ASSUME NEW d \in Draws, ClickOn(d) PROVE AttemptEndsOnce'
  <2>1. squares > 0 /\ cur.name \in {"ready", "ongoing"}
        /\ cur' = Ongoing(cur.seed, cur.rand + d, AttemptOf(cur))
        /\ event' = IF cur.name = "ready" THEN Ended("ongoing") ELSE event
    BY <1>k, <1>13 DEF ClickOn, Clickable
  <2>2. AttemptOf(cur).ended = FALSE \/ (cur.name = "ongoing" /\ cur'.attempt = cur.attempt)
    BY <2>1 DEF AttemptOf, Ongoing
  <2>3. cur'.attempt.ended => squares = 0
    BY <2>1, <2>2 DEF Ongoing
  <2>4. event'.name = "transitionstart" /\ event'.to \in EndName => squares = 0
    BY <2>1 DEF Ended
  <2>5. QED
    BY <2>1, <2>3, <2>4, <1>t
<1>14. ASSUME NEW d \in Draws, NEW s \in Slot, NEW kind \in EndName, ClickEnd(s, kind, d)
       PROVE AttemptEndsOnce'
  BY <1>14 DEF ClickEnd
<1>15. ASSUME NEW g \in Gamemode, SetGamemode(g) PROVE AttemptEndsOnce'
  BY <1>15, <1>t DEF SetGamemode, SetNow, SetReady, SetNext, TypeInv, TypeOK, State
<1>16. ASSUME UNCHANGED vars PROVE AttemptEndsOnce'
  BY <1>16 DEF vars, gridVars
<1>17. QED
  BY <1>1, <1>2, <1>3, <1>4, <1>5, <1>6, <1>7, <1>8, <1>9, <1>10, <1>11, <1>12,
     <1>13, <1>14, <1>15, <1>16 DEF Next, Complete

(* No attempt is ended, and none submitted, twice: also with the database   *)
(* gone and with any number of transitions under way.                       *)
THEOREM EndsOnce == Spec => []AttemptEndsOnce
<1>1. Init => AttemptEndsOnce
  BY DEF Init, Initial, Ended, AttemptEndsOnce
<1>2. Spec => [](GameInv /\ AttemptEndsOnce)
  BY <1>1, GameInvInit, GameInvStep, EndsOnceStep, PTL DEF Spec
<1>3. QED
  BY <1>2, PTL

(* While an attempt still has squares nothing changes the gamemode the game *)
(* is played by: SetNext stores the choice apart, and TakeNext runs only    *)
(* where the squares are gone.                                              *)
LEMMA KeepsRulesStep ==
  ASSUME GameInv, AttemptKeepsRules, [Next]_vars
  PROVE  AttemptKeepsRules'
<1>t. TypeInv /\ squares \in Nat
  BY GameAssumption DEF GameInv, TypeInv, TypeOK
<1>k. InPlay <=> ~Paused /\ cur.name \in {"ready", "ongoing"}
  BY <1>t, TakesMeans DEF TypeInv, TypeOK
<1> USE DEF AttemptKeepsRules
<1>1. ASSUME NEW s \in Slot, Prepare(s) PROVE AttemptKeepsRules'
  BY <1>1 DEF Prepare, GameInv, BootQuiet
<1>2. ASSUME NEW s \in Slot, EndInitial(s) PROVE AttemptKeepsRules'
  BY <1>2 DEF EndInitial, GameInv, WorkFits, InitialName, EndName
<1>3. ASSUME NEW s \in Slot, EndReady(s) PROVE AttemptKeepsRules'
  BY <1>3 DEF EndReady, GameInv, WorkFits
<1>4. ASSUME NEW s \in Slot, OverPop(s) PROVE AttemptKeepsRules'
  BY <1>4, <1>t DEF OverPop
<1>5. ASSUME NEW s \in Slot, OverDrain(s) PROVE AttemptKeepsRules'
  BY <1>5 DEF OverDrain, gridVars
<1>6. ASSUME NEW s \in Slot, EndOver(s) PROVE AttemptKeepsRules'
  BY <1>6 DEF EndOver, GameInv, WorkFits
<1>7. ASSUME NEW s \in Slot, ForceEnd(s) PROVE AttemptKeepsRules'
  BY <1>7, <1>t DEF ForceEnd
<1>8. ASSUME NEW s \in Slot, Reset(s) PROVE AttemptKeepsRules'
  BY <1>8 DEF Reset
<1>9. ASSUME NEW s \in Slot, ResetEmpty(s) PROVE AttemptKeepsRules'
  BY <1>9 DEF ResetEmpty, Initial
<1>10. ASSUME NEW t \in Token, Pause(t) PROVE AttemptKeepsRules'
  BY <1>10 DEF Pause
<1>11. ASSUME NEW t \in Token, Resume(t) PROVE AttemptKeepsRules'
  BY <1>11 DEF Resume
<1>12. ASSUME OverError PROVE AttemptKeepsRules'
  BY <1>12 DEF OverError, gridVars
<1>13. ASSUME NEW d \in Draws, ClickOn(d) PROVE AttemptKeepsRules'
  BY <1>k, <1>13 DEF ClickOn, Clickable, Ongoing, AttemptOf
<1>14. ASSUME NEW d \in Draws, NEW s \in Slot, NEW kind \in EndName, ClickEnd(s, kind, d)
       PROVE AttemptKeepsRules'
  BY <1>14 DEF ClickEnd
<1>15. ASSUME NEW g \in Gamemode, SetGamemode(g) PROVE AttemptKeepsRules'
  BY <1>15, <1>t DEF SetGamemode, SetNow, SetReady, SetNext, TypeInv, TypeOK, State,
     InitialName, EndName
<1>16. ASSUME UNCHANGED vars PROVE AttemptKeepsRules'
  BY <1>16 DEF vars, gridVars
<1>17. QED
  BY <1>1, <1>2, <1>3, <1>4, <1>5, <1>6, <1>7, <1>8, <1>9, <1>10, <1>11, <1>12,
     <1>13, <1>14, <1>15, <1>16 DEF Next, Complete

(* An attempt is judged by the rules it records.                            *)
THEOREM KeepsRules == Spec => []AttemptKeepsRules
<1>1. Init => AttemptKeepsRules
  BY DEF Init, Initial, AttemptKeepsRules
<1>2. Spec => [](GameInv /\ AttemptKeepsRules)
  BY <1>1, GameInvInit, GameInvStep, KeepsRulesStep, PTL DEF Spec
<1>3. QED
  BY <1>2, PTL

(* While the game is paused and the database open, no transition runs, so   *)
(* none can end; every other step that would touch the game looks first.    *)
THEOREM Freezes == Spec => PauseFreezes
<1> DEFINE Frozen == Paused /\ ~closed' => /\ UNCHANGED <<squares, attached, inflight>>
                                          /\ cur'.name = cur.name
                                          /\ cur'.attempt = cur.attempt
<1>1. ASSUME GameInv, [Next]_vars PROVE Frozen
  <2> SUFFICES ASSUME Paused, ~closed' PROVE Frozen
    OBVIOUS
  <2>t. cur \in State
    BY <1>1 DEF GameInv, TypeInv, TypeOK
  <2>1. CASE closed
    BY <1>1, <2>1 DEF Next, vars, Prepare, Complete, EndInitial, EndReady, OverPop, OverDrain,
       EndOver, ForceEnd, Reset, ResetEmpty, Pause, Resume, OverError, ClickOn, ClickEnd, SetGamemode
  <2>2. CASE ~closed
    <3>1. event = Ended("pause") /\ \A s \in Slot : Free(s)
      BY <1>1, <2>2 DEF GameInv, WorkFits, PauseInPlay, EventTells, Free, Ended, Starting,
         InitialName, EndName
    <3>2. ASSUME NEW s \in Slot
          PROVE ~Prepare(s) /\ ~Complete(s) /\ ~ForceEnd(s) /\ ~Reset(s) /\ ~ResetEmpty(s)
      BY <3>1 DEF Prepare, Complete, EndInitial, EndReady, OverPop, OverDrain, EndOver,
         ForceEnd, Reset, ResetEmpty, Ended, Free
    <3>3. ASSUME NEW t \in Token, Pause(t) \/ Resume(t) PROVE Frozen
      BY <3>3 DEF Pause, Resume
    <3>4. ASSUME OverError PROVE Frozen
      BY <3>4 DEF OverError
    <3>5. ASSUME NEW d \in Draws
          PROVE ~ClickOn(d) /\ \A s \in Slot, kind \in EndName : ~ClickEnd(s, kind, d)
      BY <2>t, TakesMeans DEF ClickOn, ClickEnd
    <3>6. ASSUME NEW g \in Gamemode, SetGamemode(g) PROVE Frozen
      BY <3>6, <2>t DEF SetGamemode, SetNow, SetReady, SetNext, State
    <3>7. ASSUME UNCHANGED vars PROVE Frozen
      BY <3>7 DEF vars, gridVars
    <3>8. QED
      BY <1>1, <3>2, <3>3, <3>4, <3>5, <3>6, <3>7 DEF Next
  <2>3. QED
    BY <2>1, <2>2
<1>2. GameInv /\ [Next]_vars => [Frozen]_vars
  BY <1>1
<1>3. QED
  BY <1>2, GameInvariant, PTL DEF Spec, PauseFreezes

-----------------------------------------------------------------------------
(* A grid that is being created does not take clicks yet.                   *)
LEMMA BeginReadyGrid ==
  ASSUME NEW s, NEW seed, NEW g, NEW n \in Nat, NEW inter \in BOOLEAN, NEW att \in BOOLEAN,
         BeginReady(s, seed, g, n, inter, att), interactive', attached'
  PROVE  n > 0 /\ att
<1>1. interactive' = (n > 0 /\ inter) /\ attached' = (n = 0 \/ att)
  BY DEF BeginReady
<1>2. n > 0
  BY <1>1, Zenon
<1>3. n # 0
  BY <1>2
<1>4. att
  BY <1>1, <1>3, Zenon
<1>5. QED
  BY <1>2, <1>4

(* Wherever the grid takes clicks again the state plays it: a create ends   *)
(* in Ready, a resume in the state that was paused, and what a destroy      *)
(* leaves behind is out of the document.                                    *)
LEMMA ClickableStep ==
  ASSUME GameInv, ClickableOnlyInPlay, [Next]_vars
  PROVE  ClickableOnlyInPlay'
<1>t. TypeInv /\ TypeInv'
  BY TypeStep DEF GameInv
<1>n. squares \in Nat /\ interactive \in BOOLEAN /\ attached \in BOOLEAN
  BY <1>t, GameAssumption DEF TypeInv, TypeOK
<1>k. InPlay <=> ~Paused /\ cur.name \in {"ready", "ongoing"}
  BY <1>t, TakesMeans DEF TypeInv, TypeOK
<1>l. InPlay' <=> ~Paused' /\ cur'.name \in {"ready", "ongoing"}
  <2>1. cur' \in State
    BY <1>t DEF TypeInv, TypeOK
  <2>2. cur'.name \in StateName
    BY <2>1 DEF State
  <2>3. QED
    BY <2>2 DEF InPlay, Takes, PauseTakes, InitialTakes, ReadyTakes, OngoingTakes, OverTakes,
       InitialName, EndName, StateName
<1>i. Clickable => InPlay
  BY DEF ClickableOnlyInPlay
<1> SUFFICES ASSUME Clickable' PROVE InPlay'
  BY DEF ClickableOnlyInPlay
<1>c. interactive' /\ attached' /\ squares' > 0
  BY DEF Clickable
<1>1. ASSUME NEW s \in Slot, Prepare(s) PROVE FALSE
  BY <1>1, <1>c, <1>n, BeginReadyGrid DEF Prepare, GameInv, BootQuiet
<1>2. ASSUME NEW s \in Slot, EndInitial(s) PROVE FALSE
  BY <1>2, <1>c, <1>n, BeginReadyGrid DEF EndInitial
<1>3. ASSUME NEW s \in Slot, EndReady(s) PROVE InPlay'
  BY <1>3, <1>l DEF EndReady, Paused, GameInv, WorkFits
<1>4. ASSUME NEW s \in Slot, OverPop(s) PROVE InPlay'
  BY <1>4, <1>c, <1>n, <1>k, <1>l, <1>i DEF OverPop, Clickable, Paused
<1>5. ASSUME NEW s \in Slot, OverDrain(s) PROVE InPlay'
  BY <1>5, <1>c, <1>k, <1>l, <1>i DEF OverDrain, gridVars, Clickable, Paused
<1>6. ASSUME NEW s \in Slot, EndOver(s) \/ ForceEnd(s) \/ Reset(s) PROVE FALSE
  BY <1>6, <1>c DEF EndOver, ForceEnd, Reset
<1>7. ASSUME NEW s \in Slot, ResetEmpty(s) PROVE FALSE
  BY <1>7, <1>c, <1>n, BeginReadyGrid DEF ResetEmpty
<1>8. ASSUME NEW t \in Token, Pause(t) PROVE FALSE
  BY <1>8, <1>c DEF Pause
<1>9. ASSUME NEW t \in Token, Resume(t) PROVE InPlay'
  <2>1. Paused
    BY <1>9, <1>t, TakesMeans DEF Resume, TypeInv, TypeOK
  <2>2. QED
    BY <1>9, <1>l, <2>1 DEF Resume, Paused, GameInv, PauseInPlay
<1>10. ASSUME OverError PROVE InPlay'
  BY <1>10, <1>c, <1>k, <1>l, <1>i DEF OverError, gridVars, Clickable, Paused
<1>11. ASSUME NEW d \in Draws, ClickOn(d) PROVE InPlay'
  BY <1>11, <1>k, <1>l DEF ClickOn, Ongoing, Paused
<1>12. ASSUME NEW d \in Draws, NEW s \in Slot, NEW kind \in EndName, ClickEnd(s, kind, d)
       PROVE FALSE
  BY <1>12, <1>c DEF ClickEnd
<1>13. ASSUME NEW g \in Gamemode, SetGamemode(g) PROVE InPlay'
  <2>1. cur'.name = cur.name
    BY <1>13, <1>t DEF SetGamemode, SetNow, SetReady, SetNext, TypeInv, TypeOK, State
  <2>2. QED
    BY <1>13, <2>1, <1>c, <1>k, <1>l, <1>i DEF SetGamemode, Clickable, Paused
<1>14. ASSUME UNCHANGED vars PROVE InPlay'
  BY <1>14, <1>c, <1>k, <1>l, <1>i DEF vars, gridVars, Clickable, Paused
<1>15. QED
  BY <1>1, <1>2, <1>3, <1>4, <1>5, <1>6, <1>7, <1>8, <1>9, <1>10, <1>11, <1>12, <1>13, <1>14
     DEF Next, Complete

(* No click reaches a state that answers it with an error.                  *)
THEOREM ClickableInPlay == Spec => []ClickableOnlyInPlay
<1>1. Init => ClickableOnlyInPlay
  BY DEF Init, Clickable, ClickableOnlyInPlay
<1>2. Spec => [](GameInv /\ ClickableOnlyInPlay)
  BY <1>1, GameInvInit, GameInvStep, ClickableStep, PTL DEF Spec
<1>3. QED
  BY <1>2, PTL

-----------------------------------------------------------------------------
(* Apart from Over's, transitions follow each other in one chain, with the   *)
(* database open or closed: nothing starts one while another runs, and what  *)
(* a create lays out is what the Ready state it ends in was drawn for.       *)

Chained(s) == inflight[s].work \in {"create", "short", "lastop"}

Laying(s) ==
  /\ cur.name \in InitialName \union {"over"}
  /\ \E g \in Gamemode :
       /\ inflight[s].to.rand = inflight[s].to.seed + Cost(g)
       /\ board = ColouredBy(g, inflight[s].to.seed)
       /\ ~late => props.gamemode = g

OneChain ==
  /\ \A s, t \in Slot : Chained(s) /\ Chained(t) => s = t
  /\ \A s \in Slot : inflight[s].work # "skip"
  /\ \A s \in Slot : Chained(s) =>
       /\ ~Paused /\ event # Ended("ongoing")
       /\ event.name = "transitionstart" \/ cur.name = "over"
  /\ \A s \in Slot : inflight[s].work \in {"short", "lastop"} => squares = 0
  /\ \A s \in Slot : inflight[s].work = "create" => Laying(s)

(* The chain's first link in a step that lays out a grid.                    *)
LEMMA BeginReadyChain ==
  ASSUME TypeInv, NEW s \in Slot, NEW seed \in Off, NEW g \in Gamemode, NEW inter, NEW att,
         BeginReady(s, seed, g, 0, inter, att),
         \A r \in Slot \ {s} : ~Chained(r) /\ inflight[r].work # "skip",
         cur'.name \in InitialName, ~Paused', props'.gamemode = g
  PROVE  OneChain'
<1>1. inflight \in [Slot -> Transition]
  BY DEF TypeInv, TypeOK
<1> DEFINE new == [to |-> Ready(seed, seed + Cost(g)), work |-> "create"]
<1>2. inflight' = [inflight EXCEPT ![s] = new]
  BY DEF BeginReady
<1>3. new.to.seed = seed /\ new.to.rand = seed + Cost(g) /\ new.work = "create"
  BY DEF Ready
<1> HIDE DEF new
<1>4. inflight'[s] = new /\ \A r \in Slot \ {s} : inflight'[r] = inflight[r]
  BY <1>1, <1>2
<1>5. event' = Starting("ready") /\ board' = ColouredBy(g, seed)
  BY DEF BeginReady
<1>6. \A r \in Slot : Chained(r)' => r = s
  BY <1>4 DEF Chained
<1>7. Laying(s)'
  BY <1>3, <1>4, <1>5 DEF Laying
<1>8. \A r \in Slot : inflight'[r].work \notin {"skip", "short", "lastop"}
  BY <1>3, <1>4 DEF Chained
<1>9. QED
  BY <1>5, <1>6, <1>7, <1>8 DEF OneChain, Starting, Ended, Chained

(* A step that leaves the chain and the board alone, and the current state's *)
(* name, or ends in Over.                                                    *)
LEMMA ChainApart ==
  ASSUME OneChain,
         \A s \in Slot : Chained(s)' => Chained(s) /\ inflight'[s] = inflight[s],
         \A s \in Slot : inflight'[s].work # "skip",
         board' = board, props'.gamemode = props.gamemode \/ late',
         late => late',
         \A s \in Slot : inflight[s].work \in {"short", "lastop"} => squares' = 0,
         (\E s \in Slot : Chained(s)) =>
           /\ cur'.name \in {cur.name, "over"}
           /\ ~Paused' /\ event' # Ended("ongoing")
           /\ event'.name = "transitionstart" \/ cur'.name = "over"
  PROVE  OneChain'
<1>1. \A s, t \in Slot : Chained(s)' /\ Chained(t)' => s = t
  BY DEF OneChain
<1>2. \A s \in Slot : Chained(s)' =>
        /\ ~Paused' /\ event' # Ended("ongoing")
        /\ event'.name = "transitionstart" \/ cur'.name = "over"
  OBVIOUS
<1>3. ASSUME NEW s \in Slot, inflight'[s].work \in {"short", "lastop"} PROVE squares' = 0
  BY <1>3 DEF Chained
<1>4. ASSUME NEW s \in Slot, inflight'[s].work = "create" PROVE Laying(s)'
  <2>1. Chained(s) /\ inflight'[s] = inflight[s] /\ Laying(s)
    BY <1>4 DEF Chained, OneChain
  <2>2. cur'.name \in {cur.name, "over"}
    BY <2>1
  <2>3. QED
    BY <2>1, <2>2 DEF Laying, InitialName, EndName
<1>5. QED
  BY <1>1, <1>2, <1>3, <1>4 DEF OneChain, Ended

LEMMA OneChainStep ==
  ASSUME GameInv, ClickableOnlyInPlay, OneChain, [Next]_vars
  PROVE  OneChain'
<1>t. TypeInv /\ TypeInv' /\ inflight \in [Slot -> Transition] /\ late \in BOOLEAN /\ squares \in Nat
  BY TypeStep, GameAssumption DEF GameInv, TypeInv, TypeOK
<1>k. /\ "pause" \in Takes <=> ~Paused /\ cur.name # "over"
      /\ "resume" \in Takes <=> Paused
      /\ InPlay <=> ~Paused /\ cur.name \in {"ready", "ongoing"}
  BY <1>t, TakesMeans DEF TypeInv, TypeOK
<1>s. \A s \in Slot : inflight[s].work # "skip"
  BY DEF OneChain
<1>q. squares > 0 /\ InPlay => \A s \in Slot : ~Chained(s)
  BY <1>k, <1>t DEF OneChain, Chained, Laying, InitialName, EndName
<1>1. ASSUME NEW s \in Slot, Prepare(s) PROVE OneChain'
  <2>1. /\ BeginReady(s, cur.seed, props.gamemode, 0, interactive, attached)
        /\ cur' = cur /\ token' = token /\ props' = props
        /\ cur.name = "initial" /\ ~Paused /\ \A r \in Slot : Free(r)
    BY <1>1 DEF Prepare, GameInv, BootQuiet
  <2>2. cur.seed \in Off /\ props.gamemode \in Gamemode
    BY <1>t DEF TypeInv, TypeOK, State
  <2>3. \A r \in Slot \ {s} : ~Chained(r) /\ inflight[r].work # "skip"
    BY <2>1 DEF Free, Chained
  <2>4. cur'.name \in InitialName /\ ~Paused' /\ props'.gamemode = props.gamemode
    BY <2>1 DEF Paused, InitialName
  <2>5. QED
    BY <1>t, <2>1, <2>2, <2>3, <2>4, BeginReadyChain
<1>2. ASSUME NEW s \in Slot, EndInitial(s) PROVE OneChain'
  <2>1. Chained(s) /\ squares = 0
    BY <1>2 DEF EndInitial, Chained, OneChain
  <2>2. /\ BeginReady(s, inflight[s].to.seed, props.gamemode, 0, TRUE, FALSE)
        /\ cur' = inflight[s].to /\ token' = NoToken /\ props' = props
    BY <1>2, <2>1 DEF EndInitial
  <2>3. inflight[s].to.seed \in Off /\ props.gamemode \in Gamemode
    BY <1>t DEF TypeInv, TypeOK, Transition, State
  <2>4. \A r \in Slot \ {s} : ~Chained(r) /\ inflight[r].work # "skip"
    BY <2>1 DEF OneChain
  <2>5. cur'.name \in InitialName /\ ~Paused' /\ props'.gamemode = props.gamemode
    BY <1>2, <2>2 DEF EndInitial, Paused, GameInv, WorkFits
  <2>6. QED
    BY <1>t, <2>2, <2>3, <2>4, <2>5, BeginReadyChain
<1>3. ASSUME NEW s \in Slot, EndReady(s) PROVE OneChain'
  <2>1. Chained(s)
    BY <1>3, <1>s DEF EndReady, Chained
  <2>2. \A r \in Slot : inflight'[r] = IF r = s THEN Idle ELSE inflight[r]
    BY <1>3, <1>t DEF EndReady
  <2>3. \A r \in Slot : ~Chained(r)' /\ inflight'[r].work # "skip"
    BY <1>s, <2>1, <2>2 DEF Chained, Idle, OneChain
  <2>4. QED
    BY <2>3 DEF OneChain, Chained
<1>4. ASSUME NEW s \in Slot, OverPop(s) PROVE OneChain'
  <2>1. \A r \in Slot : inflight[r].work \in {"short", "lastop"} => squares' = 0
    BY <1>4 DEF OverPop, OneChain
  <2>2. QED
    BY <1>4, <1>s, <2>1, ChainApart DEF OverPop, OneChain, Chained, Paused
<1>5. ASSUME NEW s \in Slot, OverDrain(s) PROVE OneChain'
  <2>1. \A r \in Slot : inflight'[r] = IF r = s THEN [inflight[s] EXCEPT !.work = "drain"] ELSE inflight[r]
    BY <1>5, <1>t DEF OverDrain
  <2>2. [inflight[s] EXCEPT !.work = "drain"].work = "drain"
    BY <1>t DEF Transition
  <2>3. \A r \in Slot : /\ Chained(r)' => Chained(r) /\ inflight'[r] = inflight[r]
                        /\ inflight'[r].work # "skip"
    BY <1>s, <2>1, <2>2 DEF Chained
  <2>4. \A r \in Slot : inflight[r].work \in {"short", "lastop"} => squares' = 0
    BY <1>5 DEF OverDrain, gridVars, OneChain
  <2>5. QED
    BY <1>5, <2>3, <2>4, ChainApart DEF OverDrain, gridVars, OneChain, Paused
<1>6. ASSUME NEW s \in Slot, EndOver(s) PROVE OneChain'
  <2>1. \A r \in Slot : inflight'[r] = IF r = s THEN Idle ELSE inflight[r]
    BY <1>6, <1>t DEF EndOver
  <2>2. \A r \in Slot : /\ Chained(r)' => Chained(r) /\ inflight'[r] = inflight[r]
                        /\ inflight'[r].work # "skip"
    BY <1>s, <2>1 DEF Chained, Idle
  <2>3. \A r \in Slot : inflight[r].work \in {"short", "lastop"} => squares' = 0
    BY <1>6 DEF EndOver, OneChain
  <2>4. cur'.name = "over" /\ ~Paused' /\ event' # Ended("ongoing")
    BY <1>6 DEF EndOver, GameInv, WorkFits, Paused, Ended
  <2>5. QED
    BY <1>6, <2>2, <2>3, <2>4, ChainApart DEF EndOver
<1>7. ASSUME NEW s \in Slot, ForceEnd(s) PROVE OneChain'
  <2>1. \A r \in Slot : inflight'[r] = IF r = s THEN [to |-> Over, work |-> "pop"] ELSE inflight[r]
    BY <1>7, <1>t DEF ForceEnd
  <2>2. \A r \in Slot : /\ Chained(r)' => Chained(r) /\ inflight'[r] = inflight[r]
                        /\ inflight'[r].work # "skip"
    BY <1>s, <2>1 DEF Chained
  <2>3. \A r \in Slot : inflight[r].work \in {"short", "lastop"} => squares' = 0
    BY <1>7 DEF ForceEnd, OneChain
  <2>4. QED
    BY <1>7, <2>2, <2>3, ChainApart DEF ForceEnd, Starting, Ended, OneChain, Paused
<1>8. ASSUME NEW s \in Slot, Reset(s) PROVE OneChain'
  <2>1. \A r \in Slot : ~Chained(r)
    BY <1>8 DEF Reset, OneChain
  <2>2. \A r \in Slot \ {s} : inflight'[r] = inflight[r]
    BY <1>8, <1>t DEF Reset
  <2>3. inflight'[s].work = "short"
    BY <1>8, <1>t DEF Reset
  <2>4. \A r \in Slot : Chained(r)' => r = s
    BY <2>1, <2>2 DEF Chained
  <2>5. event' = Starting("initial") /\ squares' = 0 /\ token' = token
        /\ event = Ended("ongoing")
    BY <1>8 DEF Reset
  <2>6. ~Paused'
    BY <2>5 DEF Paused, GameInv, PauseInPlay, Ended, Starting
  <2>7. \A r \in Slot : inflight'[r].work # "skip" /\ inflight'[r].work # "create"
    BY <1>s, <2>1, <2>2, <2>3 DEF Chained
  <2>8. QED
    BY <2>4, <2>5, <2>6, <2>7 DEF OneChain, Starting, Ended
<1>9. ASSUME NEW s \in Slot, ResetEmpty(s) PROVE OneChain'
  <2>1. /\ BeginReady(s, 0, TakeNext(props).gamemode, 0, interactive, attached)
        /\ cur' = Initial("initial", 0, NoAttempt) /\ token' = token
        /\ props' = TakeNext(props) /\ event = Ended("ongoing")
    BY <1>9 DEF ResetEmpty
  <2>2. 0 \in Off /\ TakeNext(props).gamemode \in Gamemode
    BY <1>t, TakeNextType, GameAssumption DEF TypeInv, TypeOK, Off
  <2>3. \A r \in Slot \ {s} : ~Chained(r) /\ inflight[r].work # "skip"
    BY <2>1 DEF OneChain
  <2>4. cur'.name \in InitialName /\ props'.gamemode = TakeNext(props).gamemode
    BY <2>1 DEF Initial, InitialName
  <2>5. ~Paused'
    BY <2>1 DEF Paused, GameInv, PauseInPlay, Ended, Starting
  <2>6. QED
    BY <1>t, <2>1, <2>2, <2>3, <2>4, <2>5, BeginReadyChain
<1>10. ASSUME NEW t \in Token, Pause(t) \/ Resume(t) PROVE OneChain'
  <2>1. ~\E s \in Slot : Chained(s)
    BY <1>10, <1>k DEF Pause, Resume, MayOperate, OneChain
  <2>2. inflight' = inflight
    BY <1>10 DEF Pause, Resume
  <2>3. QED
    BY <1>s, <2>1, <2>2 DEF OneChain, Chained
<1>11. ASSUME OverError PROVE OneChain'
  <2>1. \A r \in Slot : inflight[r].work \in {"short", "lastop"} => squares' = 0
    BY <1>11 DEF OverError, gridVars, OneChain
  <2>2. QED
    BY <1>11, <1>s, <2>1, ChainApart DEF OverError, gridVars, Failed, Ended, OneChain, Chained, Paused
<1>12. ASSUME NEW d \in Draws, ClickOn(d) PROVE OneChain'
  <2>1. \A s \in Slot : ~Chained(s)
    BY <1>12, <1>q DEF ClickOn, Clickable
  <2>2. inflight' = inflight
    BY <1>12 DEF ClickOn
  <2>3. QED
    BY <1>s, <2>1, <2>2 DEF OneChain, Chained
<1>13. ASSUME NEW d \in Draws, NEW s \in Slot, NEW kind \in EndName, ClickEnd(s, kind, d)
       PROVE OneChain'
  <2>1. \A r \in Slot : ~Chained(r)
    BY <1>13, <1>q DEF ClickEnd, Clickable
  <2>2. \A r \in Slot \ {s} : inflight'[r] = inflight[r]
    BY <1>13, <1>t DEF ClickEnd
  <2>3. inflight'[s].work \in {"short", "lastop"}
    BY <1>13, <1>t DEF ClickEnd
  <2>4. \A r \in Slot : Chained(r)' => r = s
    BY <2>1, <2>2 DEF Chained
  <2>5. event' = Starting(kind) /\ squares' = 0 /\ ~Paused'
    BY <1>13, <1>k DEF ClickEnd, Paused
  <2>6. \A r \in Slot : inflight'[r].work # "skip" /\ inflight'[r].work # "create"
    BY <1>s, <2>1, <2>2, <2>3 DEF Chained
  <2>7. QED
    BY <2>4, <2>5, <2>6 DEF OneChain, Starting, Ended
<1>14. ASSUME NEW g \in Gamemode, SetGamemode(g) PROVE OneChain'
  <2>1. cur'.name = cur.name /\ inflight' = inflight /\ event' = event /\ token' = token
        /\ squares' = squares /\ (late => late')
    BY <1>14, <1>t DEF SetGamemode, SetNow, SetReady, SetNext, TypeInv, TypeOK, State
  <2>2. ASSUME NEW s \in Slot, inflight[s].work = "create" PROVE Laying(s)'
    <3>1. Laying(s) /\ (event.name = "transitionstart" \/ cur.name = "over")
      BY <2>2 DEF OneChain, Chained
    <3>2. SetNow(g) /\ event.name = "transitionstart"
      BY <1>14, <3>1 DEF SetGamemode, SetNow, SetReady, SetNext, Laying, InitialName, EndName
    <3>3. late' /\ board' = board
      BY <1>14, <3>2 DEF SetGamemode, SetNow
    <3>4. QED
      BY <2>1, <3>1, <3>3 DEF Laying
  <2>3. QED
    BY <2>1, <2>2 DEF OneChain, Chained, Paused
<1>15. ASSUME UNCHANGED vars PROVE OneChain'
  BY <1>15 DEF vars, gridVars, OneChain, Chained, Laying, Paused
<1>16. QED
  BY <1>1, <1>2, <1>3, <1>4, <1>5, <1>6, <1>7, <1>8, <1>9, <1>10, <1>11, <1>12, <1>13,
     <1>14, <1>15 DEF Next, Complete

(* The chain alone lays out boards, and a ready game is recoloured with the  *)
(* generator set back.                                                       *)
LEMMA BoardStep ==
  ASSUME GameInv, ClickableOnlyInPlay, OneChain, BoardReproducible, [Next]_vars
  PROVE  BoardReproducible'
<1>t. /\ TypeInv /\ inflight \in [Slot -> Transition] /\ late \in BOOLEAN /\ squares \in Nat
      /\ cur \in State /\ props \in [gamemode: Gamemode, next: Gamemode \union {NoMode}]
  BY GameAssumption DEF GameInv, TypeInv, TypeOK
<1>k. InPlay <=> ~Paused /\ cur.name \in {"ready", "ongoing"}
  BY <1>t, TakesMeans DEF TypeInv, TypeOK
<1> DEFINE Same == /\ ~late' => ~late
                   /\ squares' > 0 => squares > 0
                   /\ cur' = cur /\ props' = props /\ board' = board
<1>a. ASSUME Same PROVE BoardReproducible'
  BY <1>a DEF BoardReproducible, AttemptOf
<1>b. ASSUME cur'.name \notin {"ready", "ongoing"} \/ squares' = 0 PROVE BoardReproducible'
  BY <1>b DEF BoardReproducible
<1>1. ASSUME NEW s \in Slot, Prepare(s) PROVE BoardReproducible'
  BY <1>1, <1>b DEF Prepare, GameInv, BootQuiet
<1>2. ASSUME NEW s \in Slot, EndInitial(s) PROVE BoardReproducible'
  BY <1>2, <1>b DEF EndInitial, GameInv, WorkFits, InitialName, EndName
<1>3. ASSUME NEW s \in Slot, EndReady(s) PROVE BoardReproducible'
  <2>1. Laying(s) /\ inflight[s].to.name = "ready"
    BY <1>3 DEF EndReady, OneChain, GameInv, WorkFits
  <2>2. cur' = inflight[s].to /\ props' = props /\ board' = board /\ late' = late
    BY <1>3 DEF EndReady
  <2>3. PICK g \in Gamemode : /\ cur'.rand = cur'.seed + Cost(g)
                              /\ board = ColouredBy(g, cur'.seed)
                              /\ ~late => props.gamemode = g
    BY <2>1, <2>2 DEF Laying
  <2>4. AttemptOf(cur)' = [gamemode |-> props.gamemode, seed |-> cur'.seed, ended |-> FALSE]
    BY <2>1, <2>2 DEF AttemptOf
  <2>5. QED
    BY <2>1, <2>2, <2>3, <2>4 DEF BoardReproducible
<1>4. ASSUME NEW s \in Slot, OverPop(s) PROVE BoardReproducible'
  BY <1>4, <1>a DEF OverPop
<1>5. ASSUME NEW s \in Slot, OverDrain(s) PROVE BoardReproducible'
  BY <1>5, <1>a DEF OverDrain, gridVars
<1>6. ASSUME NEW s \in Slot, EndOver(s) PROVE BoardReproducible'
  BY <1>6, <1>b DEF EndOver, GameInv, WorkFits
<1>7. ASSUME NEW s \in Slot, ForceEnd(s) PROVE BoardReproducible'
  BY <1>7, <1>a, <1>t DEF ForceEnd
<1>8. ASSUME NEW s \in Slot, Reset(s) PROVE BoardReproducible'
  BY <1>8, <1>b DEF Reset
<1>9. ASSUME NEW s \in Slot, ResetEmpty(s) PROVE BoardReproducible'
  BY <1>9, <1>b DEF ResetEmpty, Initial
<1>10. ASSUME NEW t \in Token, Pause(t) \/ Resume(t) PROVE BoardReproducible'
  BY <1>10, <1>a DEF Pause, Resume
<1>11. ASSUME OverError PROVE BoardReproducible'
  BY <1>11, <1>a DEF OverError, gridVars
<1>12. ASSUME NEW d \in Draws, ClickOn(d) PROVE BoardReproducible'
  <2>1. /\ squares > 0 /\ cur.name \in {"ready", "ongoing"}
        /\ cur' = Ongoing(cur.seed, cur.rand + d, AttemptOf(cur))
        /\ board' = board /\ late' = late
    BY <1>12, <1>k DEF ClickOn, Clickable
  <2>2. cur'.name = "ongoing" /\ AttemptOf(cur)' = AttemptOf(cur)
    BY <2>1 DEF AttemptOf, Ongoing
  <2>3. QED
    BY <2>1, <2>2 DEF BoardReproducible
<1>13. ASSUME NEW d \in Draws, NEW s \in Slot, NEW kind \in EndName, ClickEnd(s, kind, d)
       PROVE BoardReproducible'
  BY <1>13, <1>b DEF ClickEnd
<1>14. ASSUME NEW g \in Gamemode, SetGamemode(g) PROVE BoardReproducible'
  <2>1. squares' = squares /\ (~late' => ~late)
    BY <1>14, <1>t DEF SetGamemode
  <2>2. CASE SetNow(g)
    BY <2>2, <1>b DEF SetNow, InitialName, EndName
  <2>3. CASE SetNext(g)
    <3>1. cur' = cur /\ board' = board /\ cur.name = "ongoing"
      BY <2>3 DEF SetNext
    <3>2. AttemptOf(cur)' = AttemptOf(cur)
      BY <3>1 DEF AttemptOf
    <3>3. QED
      BY <2>1, <3>1, <3>2 DEF BoardReproducible
  <2>4. CASE SetReady(g)
    <3>1. /\ cur.name = "ready" /\ cur'.name = "ready" /\ cur'.seed = cur.seed
          /\ cur'.rand = cur'.seed + Cost(g) /\ props'.gamemode = g
          /\ g \in Critical /\ squares > 0 => board' = ColouredBy(g, cur.seed)
      BY <2>4, <1>t DEF SetReady, State
    <3>2. AttemptOf(cur)' = [gamemode |-> g, seed |-> cur.seed, ended |-> FALSE]
      BY <3>1 DEF AttemptOf
    <3>3. QED
      BY <2>1, <3>1, <3>2 DEF BoardReproducible
  <2>5. QED
    BY <1>14, <2>2, <2>3, <2>4 DEF SetGamemode
<1>15. ASSUME UNCHANGED vars PROVE BoardReproducible'
  BY <1>15, <1>a DEF vars, gridVars
<1>16. QED
  BY <1>1, <1>2, <1>3, <1>4, <1>5, <1>6, <1>7, <1>8, <1>9, <1>10, <1>11, <1>12, <1>13,
     <1>14, <1>15 DEF Next, Complete

(* Every attempt that is played can be replayed from what it records, also   *)
(* in a game that comes back after the database was closed.                  *)
THEOREM Reproducible == Spec => []BoardReproducible
<1>1. Init => ClickableOnlyInPlay /\ OneChain /\ BoardReproducible
  <2> SUFFICES ASSUME Init PROVE ClickableOnlyInPlay /\ OneChain /\ BoardReproducible
    OBVIOUS
  <2>1. \A s \in Slot : inflight[s].work = "idle"
    BY DEF Init, Idle
  <2>2. OneChain
    BY <2>1 DEF OneChain, Chained
  <2>3. squares = 0 /\ attached = FALSE
    BY DEF Init
  <2>4. QED
    BY <2>2, <2>3 DEF Clickable, ClickableOnlyInPlay, BoardReproducible
<1>2. Spec => [](GameInv /\ ClickableOnlyInPlay /\ OneChain /\ BoardReproducible)
  BY <1>1, GameInvInit, GameInvStep, ClickableStep, OneChainStep, BoardStep, PTL DEF Spec
<1>3. QED
  BY <1>2, PTL

-----------------------------------------------------------------------------
(* Game implements Lifecycle, step by step.                                  *)

pausedBar == Paused /\ ~closed
LifeStep == (phaseBar' = phaseBar /\ pausedBar' = pausedBar) \/ L!Next

(* What the invariant says of the phase while the database is open.          *)
LEMMA PhaseOf ==
  ASSUME GameInv, ~closed
  PROVE  /\ phaseBar # "over"
         /\ phaseBar = "ready" => cur.name = "ready"
         /\ event.name # "transitionstart" /\ Opened =>
              /\ phaseBar = IF cur.name = "ongoing" THEN "playing" ELSE "ready"
              /\ cur.name \in {"ready", "ongoing"} /\ \A s \in Slot : Free(s)
         /\ event.name = "transitionstart" =>
              /\ phaseBar = IF event.to \in EndName THEN "decided" ELSE "setup"
              /\ ~Paused
<1>1. cur.name \in StateName
  BY DEF GameInv, TypeInv, TypeOK, State
<1>2. event.name # "transitionstart" /\ Opened => cur.name \in {"ready", "ongoing"}
  BY <1>1 DEF GameInv, InitialPasses, EventTells, StateName
<1>3. event.name = "transitionstart" => ~Paused
  <2>1. event # Starting("over")
    BY DEF GameInv, WorkFits, EventTells, Starting, InitialName, EndName, Free
  <2>2. QED
    BY <2>1 DEF GameInv, PauseInPlay, Ended
<1>4. QED
  BY <1>2, <1>3 DEF GameInv, EventTells, phaseBar

LEMMA LifeStepHolds ==
  ASSUME GameInv, GameInv', [Next]_vars
  PROVE  LifeStep
<1>t. cur \in State /\ inflight \in [Slot -> Transition] /\ squares \in Nat /\ interactive \in BOOLEAN
  BY GameAssumption DEF GameInv, TypeInv, TypeOK
<1>k. /\ "pause" \in Takes <=> ~Paused /\ cur.name # "over"
      /\ "resume" \in Takes <=> Paused
      /\ InPlay <=> ~Paused /\ cur.name \in {"ready", "ongoing"}
  BY <1>t, TakesMeans
<1>c. ASSUME closed, closed' PROVE LifeStep
  BY <1>c DEF LifeStep, phaseBar, pausedBar
<1>o. ASSUME ~closed, closed' PROVE LifeStep
  BY <1>o, PhaseOf DEF LifeStep, L!Next, L!Close, phaseBar, pausedBar
<1>m. closed => closed'
  BY DEF Next, vars, Prepare, Complete, EndInitial, EndReady, OverPop, OverDrain,
     EndOver, ForceEnd, Reset, ResetEmpty, Pause, Resume, OverError, ClickOn, ClickEnd, SetGamemode
<1> SUFFICES ASSUME ~closed, ~closed' PROVE LifeStep
  BY <1>c, <1>o, <1>m
<1>s. ASSUME event' = event, cur'.name = cur.name, token' = token PROVE LifeStep
  BY <1>s DEF LifeStep, phaseBar, pausedBar, Opened, Paused
<1>q. Clickable => event.name # "transitionstart"
  BY <1>t DEF GameInv, EventTells, Clickable
<1>1. ASSUME NEW s \in Slot, Prepare(s) PROVE LifeStep
  <2>1. phaseBar = "setup" /\ phaseBar' = "setup"
    BY <1>1 DEF Prepare, BeginReady, phaseBar, Opened, Starting, Ended, EndName
  <2>2. QED
    BY <1>1, <2>1 DEF Prepare, LifeStep, pausedBar, Paused
<1>2. ASSUME NEW s \in Slot, EndInitial(s) PROVE LifeStep
  <2>1. ~Free(s) /\ event.name = "transitionstart"
    BY <1>2 DEF EndInitial, Free, GameInv, EventTells
  <2>2. phaseBar \in {"decided", "setup"} /\ ~Paused
    BY <2>1, PhaseOf
  <2>3. phaseBar' = "setup" /\ ~Paused'
    BY <1>2 DEF EndInitial, BeginReady, phaseBar, Starting, EndName, Paused
  <2>4. QED
    BY <2>2, <2>3 DEF LifeStep, L!Next, L!NextGame, pausedBar
<1>3. ASSUME NEW s \in Slot, EndReady(s) PROVE LifeStep
  <2>1. ~Free(s) /\ event.name = "transitionstart" /\ event.to = "ready"
    BY <1>3 DEF EndReady, Free, GameInv, EventTells, WorkFits
  <2>2. phaseBar = "setup" /\ ~Paused
    BY <2>1, PhaseOf DEF EndName
  <2>3. phaseBar' = "ready" /\ ~Paused'
    BY <1>3 DEF EndReady, GameInv, WorkFits, phaseBar, Opened, Ended, Paused
  <2>4. QED
    BY <2>2, <2>3 DEF LifeStep, L!Next, L!LaidOut, pausedBar
<1>4. ASSUME NEW s \in Slot, OverPop(s) \/ OverDrain(s) \/ EndOver(s) PROVE LifeStep
  BY <1>4 DEF OverPop, OverDrain, EndOver, GameInv, EventTells, Free
<1>5. ASSUME NEW s \in Slot, ForceEnd(s) PROVE LifeStep
  BY <1>5 DEF ForceEnd
<1>6. ASSUME NEW s \in Slot, Reset(s) \/ ResetEmpty(s) PROVE LifeStep
  <2>1. event = Ended("ongoing")
    BY <1>6 DEF Reset, ResetEmpty
  <2>2. cur.name = "ongoing" /\ ~Paused
    BY <2>1 DEF GameInv, EventTells, Ended, Name
  <2>3. phaseBar = "playing"
    BY <2>1, <2>2, PhaseOf DEF Ended, Opened
  <2>4. event'.name = "transitionstart" /\ event'.to \notin EndName /\ token' = token
    BY <1>6 DEF Reset, ResetEmpty, BeginReady, Starting, EndName
  <2>5. phaseBar' = "setup" /\ ~Paused'
    BY <2>2, <2>4 DEF phaseBar, Paused
  <2>6. QED
    BY <2>2, <2>3, <2>5 DEF LifeStep, L!Next, L!Abandon, pausedBar
<1>7. ASSUME NEW t \in Token, Pause(t) \/ Resume(t) PROVE LifeStep
  <2>1. event.name # "transitionstart" /\ Opened
    BY <1>7 DEF Pause, Resume, MayOperate
  <2>2. phaseBar \in {"ready", "playing"} /\ cur.name \in {"ready", "ongoing"}
        /\ phaseBar = IF cur.name = "ongoing" THEN "playing" ELSE cur.name
    BY <2>1, PhaseOf
  <2>3. cur' = cur /\ event'.name = "transitionend" /\ event' # Ended("initial")
    BY <1>7, <2>2 DEF Pause, Resume, Ended
  <2>4. phaseBar' = phaseBar
    BY <2>2, <2>3 DEF phaseBar, Opened
  <2>5. Paused' = ~Paused
    BY <1>7, <1>k, GameAssumption DEF Pause, Resume, Paused
  <2>6. pausedBar' = ~pausedBar
    BY <2>5 DEF pausedBar
  <2>7. QED
    BY <2>2, <2>4, <2>6 DEF LifeStep, L!Next, L!Toggle, pausedBar
<1>8. ASSUME OverError PROVE LifeStep
  BY <1>8 DEF OverError, GameInv, EventTells
<1>9. ASSUME NEW d \in Draws, ClickOn(d) PROVE LifeStep
  <2>1. event.name # "transitionstart" /\ ~Paused /\ cur.name \in {"ready", "ongoing"}
        /\ token' = token /\ cur'.name = "ongoing"
    BY <1>9, <1>q, <1>k DEF ClickOn, Ongoing
  <2>2. Opened
    BY <2>1 DEF Opened, GameInv, BootQuiet
  <2>3. CASE cur.name = "ready"
    <3>1. phaseBar = "ready"
      BY <2>1, <2>2, <2>3, PhaseOf
    <3>2. event' = Ended("ongoing")
      BY <1>9, <2>3 DEF ClickOn
    <3>3. phaseBar' = "playing"
      BY <2>1, <3>2 DEF phaseBar, Ended, Opened
    <3>4. QED
      BY <2>1, <3>1, <3>3 DEF LifeStep, L!Next, L!Start, pausedBar, Paused
  <2>4. CASE cur.name = "ongoing"
    <3>1. event' = event
      BY <1>9, <2>4 DEF ClickOn
    <3>2. QED
      BY <1>s, <2>1, <2>4, <3>1
  <2>5. QED
    BY <2>1, <2>3, <2>4
<1>10. ASSUME NEW d \in Draws, NEW s \in Slot, NEW kind \in EndName, ClickEnd(s, kind, d)
       PROVE LifeStep
  <2>1. event.name # "transitionstart" /\ ~Paused /\ cur.name \in {"ready", "ongoing"}
        /\ token' = token /\ event' = Starting(kind)
    BY <1>10, <1>q, <1>k DEF ClickEnd
  <2>2. Opened
    BY <2>1 DEF Opened, GameInv, BootQuiet
  <2>3. phaseBar \in {"ready", "playing"} /\ phaseBar' = "decided"
    BY <2>1, <2>2, PhaseOf DEF phaseBar, Starting
  <2>4. QED
    BY <2>1, <2>3 DEF LifeStep, L!Next, L!Decide, pausedBar, Paused
<1>11. ASSUME NEW g \in Gamemode, SetGamemode(g) PROVE LifeStep
  <2>1. cur'.name = cur.name
    BY <1>11, <1>t DEF SetGamemode, SetNow, SetReady, SetNext, State
  <2>2. QED
    BY <1>11, <1>s, <2>1 DEF SetGamemode
<1>12. ASSUME UNCHANGED vars PROVE LifeStep
  BY <1>12, <1>s DEF vars
<1>13. QED
  BY <1>1, <1>2, <1>3, <1>4, <1>5, <1>6, <1>7, <1>8, <1>9, <1>10, <1>11, <1>12 DEF Next, Complete

(* The safety half of the refinement, for any gamemodes, tokens and slots:   *)
(* the game's states, transitions and guards implement what Lifecycle        *)
(* promises the player.  (Its fairness is TLC's.)                            *)
THEOREM ImplementsLifecycleSteps == Spec => L!Init /\ [][L!Next]_(L!lifeVars)
<1>1. Init => L!Init
  BY DEF Init, L!Init, phaseBar, Opened, Ended, EndName, Paused
<1>2. GameInv /\ GameInv' /\ [Next]_vars => [L!Next]_(L!lifeVars)
  BY LifeStepHolds DEF LifeStep, pausedBar, L!lifeVars
<1>3. QED
  BY <1>1, <1>2, GameInvariant, PTL DEF Spec
=============================================================================
