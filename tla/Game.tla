-------------------------------- MODULE Game --------------------------------
(***************************************************************************)
(* The game object of src/src/game/index.ts, the guards of game/ops.ts and *)
(* the grid of src/src/components/Grid.ts the game draws on.               *)
(*                                                                         *)
(* One JavaScript task runs at a time, so a handler is one step.  What     *)
(* interleaves is the asynchronous part of a transition: setState starts   *)
(* it, any number of tasks run, then endTransition runs.  Until then       *)
(* `this.state' is the OLD state and goes on handling events.              *)
(***************************************************************************)
EXTENDS Integers, FiniteSets

CONSTANTS
  Gamemode,     \* the rules a game can be played by
  Critical,     \* those whose colours come from the seeded generator (criticalSquares)
  NoMode,       \* `undefined' where a gamemode may stand
  Token,        \* the tokens pause() can draw
  NoToken,      \* `undefined' where a token may stand
  Slot,         \* BOUND: how many transitions can be under way at once
  NumSquares,   \* squares of a full grid, 48 in the code
  MaxOff        \* BOUND: last offset of the random generator a game may reach

ASSUME GameAssumption ==
  /\ Critical \subseteq Gamemode
  /\ NoMode \notin Gamemode
  /\ NoToken \notin Token
  /\ NumSquares \in Nat \ {0}
  /\ MaxOff \in Nat \ {0}

VARIABLES
  cur,          \* the State object in `this.state', or the one a Pause wraps
  token,        \* the token of the Pause in `this.state', NoToken if it is none
  props,        \* BaseProps, one object shared by all states: gamemode, nextGamemode
  inflight,     \* the transitions whose `done' promise has not resolved, by slot
  event,        \* the last event put in the dispatchedEvents store
  closed,       \* the versionchange handler ran (it closes the database first)
  squares,      \* grid.activeSquares.length
  interactive,  \* the grid lacks the class grid--no-interaction
  attached,     \* the grid's element is in the document
  board,        \* who coloured the squares: the gamemode and its random state
  late          \* history: a gamemode was picked while a transition ran

gridVars == <<squares, interactive, attached, board>>
vars == <<cur, token, props, inflight, event, closed, gridVars, late>>

-----------------------------------------------------------------------------
(* Data.  A random state is its offset; a State keeps the offset it was     *)
(* made with (`randState', `seed' here) and the live one (`rand').          *)

Off == 0 .. MaxOff
EndName == {"win", "lose"}
InitialName == {"initial"} \union EndName
StateName == InitialName \union {"ready", "ongoing", "over"}

NoAttempt == [gamemode |-> NoMode, seed |-> 0, ended |-> FALSE]

State == [name: StateName, seed: Off, rand: Off,
          attempt: [gamemode: Gamemode \union {NoMode}, seed: Off, ended: BOOLEAN]]

Initial(kind, rand, attempt) ==
  [name |-> kind, seed |-> rand, rand |-> rand, attempt |-> attempt]

Ready(seed, rand) ==
  [name |-> "ready", seed |-> seed, rand |-> rand, attempt |-> NoAttempt]

Ongoing(seed, rand, attempt) ==
  [name |-> "ongoing", seed |-> seed, rand |-> rand, attempt |-> attempt]

Over == [name |-> "over", seed |-> 0, rand |-> 0, attempt |-> NoAttempt]

Paused == token # NoToken
Name == IF Paused THEN "pause" ELSE cur.name

(* The events that make each state's processEvent answer with another state  *)
(* ("restart" is a forceEnd with canRestart) or take a square.  It ignores    *)
(* the others, or answers with an error.                                     *)
InitialTakes == {"prepare", "forceEnd", "pause"}
ReadyTakes == {"forceEnd", "restart", "pause", "removeSquare"}
OngoingTakes == {"forceEnd", "restart", "pause", "removeSquare"}
OverTakes == {}
PauseTakes == {"forceEnd", "restart", "resume"}

Takes ==
  IF Paused THEN PauseTakes
  ELSE CASE cur.name \in InitialName -> InitialTakes
         [] cur.name = "ready" -> ReadyTakes
         [] cur.name = "ongoing" -> OngoingTakes
         [] cur.name = "over" -> OverTakes

Idle == [to |-> Over, work |-> "idle"]
Work == {"idle", "create", "skip", "short", "lastop", "pop", "drain"}
Transition == [to: State, work: Work]
Free(s) == inflight[s].work = "idle"

\* MUTANT: setState announces the end of the transition it only starts
StartingAsEnded(to) == [name |-> "transitionend", to |-> to]

Starting(to) == [name |-> "transitionstart", to |-> to]
Ended(to) == [name |-> "transitionend", to |-> to]
Failed == [name |-> "error", to |-> "none"]
Event == [name: {"transitionstart", "transitionend", "error"},
          to: StateName \union {"pause", "none"}]

\* initialSquares draws from the generator only where colours are critical
Cost(g) == IF g \in Critical THEN 1 ELSE 0

\* the constructor of Initial takes the gamemode chosen in mid-play
TakeNext(p) == IF p.next = NoMode THEN p ELSE [gamemode |-> p.next, next |-> NoMode]

\* what progress() can answer when `left' squares remain after the click
Outcomes(g, left) ==
  IF left = 0 THEN {"win"}
  ELSE {"continue"} \union
       (IF g \in Critical \/ left > 1 THEN {"lose"} ELSE {})

-----------------------------------------------------------------------------
Init ==
  /\ \E g \in Gamemode : props = [gamemode |-> g, next |-> NoMode]
  /\ cur = Initial("initial", 0, NoAttempt)
  /\ token = NoToken
  /\ inflight = [s \in Slot |-> Idle]
  /\ event = Ended("initial")
  /\ closed = FALSE
  /\ squares = 0 /\ interactive = TRUE /\ attached = FALSE
  /\ board = [by |-> NoMode, seed |-> 0]
  /\ late = FALSE

\* Grid.appendSquares, all at once; the animations follow
Appended(n) == n + NumSquares

\* Square constructors and Grid.setColors, by the sequence initialSquares draws
ColouredBy(g, seed) == [by |-> g, seed |-> seed]

(* setState(new Ready(...)): Ready.transition and the first, synchronous    *)
(* part of Grid.create, which returns at once when there are squares.  The  *)
(* grid had the class and the parent `inter' and `att' tell of.             *)
BeginReady(s, seed, g, n, inter, att) ==
  /\ inflight' = [inflight EXCEPT ![s] =
       [to |-> Ready(seed, seed + Cost(g)),
        work |-> IF n = 0 THEN "create" ELSE "skip"]]
  /\ event' = Starting("ready")
  /\ squares' = IF n = 0 THEN Appended(n) ELSE n
  /\ interactive' = (n > 0 /\ inter)
  /\ attached' = (n = 0 \/ att)
  /\ board' = IF n = 0 THEN ColouredBy(g, seed) ELSE board

(* game.prepare('long') of main(), the only prepare from the page's start.  *)
Prepare(s) ==
  /\ event = Ended("initial") /\ "prepare" \in Takes /\ Free(s)
  /\ BeginReady(s, cur.seed, props.gamemode, squares, interactive, attached)
  /\ UNCHANGED <<cur, token, props, closed, late>>

(* endTransition of an Initial, Win or Lose state.  What waits for it runs  *)
(* before any other task: onGameEnd 'after' calls prepare, and so does the  *)
(* continuation of reset().  The destroy that ends here removes the class   *)
(* and the element.                                                         *)
EndInitial(s) ==
  /\ inflight[s].work \in {"short", "lastop"}
  /\ cur' = inflight[s].to
  /\ token' = NoToken
  /\ BeginReady(s, inflight[s].to.seed, props.gamemode, squares, TRUE, FALSE)
  /\ UNCHANGED <<props, closed, late>>

(* MUTANT: Grid.create leaves the class grid--no-interaction on the grid.   *)
EndReadyLocked(s) ==
  /\ inflight[s].work \in {"create", "skip"}
  /\ cur' = inflight[s].to
  /\ token' = NoToken
  /\ event' = Ended("ready")
  /\ inflight' = [inflight EXCEPT ![s] = Idle]
  /\ UNCHANGED <<props, closed, squares, interactive, attached, board, late>>

(* endTransition of a Ready state, after the create animations.             *)
EndReady(s) ==
  /\ inflight[s].work \in {"create", "skip"}
  /\ cur' = inflight[s].to
  /\ token' = NoToken
  /\ event' = Ended("ready")
  /\ interactive' = (interactive \/ inflight[s].work = "create")
  /\ inflight' = [inflight EXCEPT ![s] = Idle]
  /\ UNCHANGED <<props, closed, squares, attached, board, late>>

(* Over.transition: grid.destroy('long') pops one square per delay, until   *)
(* it finds none left; then it waits for the last animation.  A square that *)
(* is popped while Grid.create animates it aborts the animation: create is  *)
(* over before the last square is popped.                                   *)
OverPop(s) ==
  /\ inflight[s].work = "pop"
  /\ squares > 0
  /\ squares' = squares - 1
  /\ UNCHANGED <<cur, token, props, inflight, event, closed, interactive, attached, board, late>>

OverDrain(s) ==
  /\ inflight[s].work = "pop"
  /\ squares = 0
  /\ \A r \in Slot : inflight[r].work # "create"
  /\ inflight' = [inflight EXCEPT ![s].work = "drain"]
  /\ UNCHANGED <<cur, token, props, event, closed, gridVars, late>>

EndOver(s) ==
  /\ inflight[s].work = "drain"
  /\ cur' = inflight[s].to
  /\ token' = NoToken
  /\ event' = Ended("over")
  /\ inflight' = [inflight EXCEPT ![s] = Idle]
  /\ interactive' = TRUE /\ attached' = FALSE
  /\ UNCHANGED <<props, closed, squares, board, late>>

(* main() calls prepare in the task that opened the database and mounted    *)
(* the menu: nothing calls the game before.                                 *)
Opened == event # Ended("initial")

(* game.forceEnd() from the database's versionchange event, in any state.   *)
ForceEnd(s) ==
  /\ Opened /\ ~closed /\ "forceEnd" \in Takes /\ Free(s)
  /\ closed' = TRUE
  /\ inflight' = [inflight EXCEPT ![s] = [to |-> Over, work |-> "pop"]]
  /\ event' = Starting("over")
  /\ interactive' = FALSE
  /\ squares' = IF squares > 0 THEN squares - 1 ELSE 0
  /\ UNCHANGED <<cur, token, props, attached, board, late>>

-----------------------------------------------------------------------------
(* MUTANT: pause and resume do not look at the last event.                  *)
MayOperateAlways == Opened

(* game/ops.ts: a caller may pause or resume unless a transition started    *)
(* last.                                                                    *)
MayOperate == Opened /\ event.name # "transitionstart"

(* MUTANT: Pause.transition does not toggle the grid's interaction.         *)
PauseInteractive(t) ==
  /\ MayOperate /\ "pause" \in Takes
  /\ token' = t
  /\ event' = Ended("pause")
  /\ UNCHANGED <<cur, props, inflight, closed, gridVars, late>>

(* MUTANT: the Pause state announces itself under the name of the state it  *)
(* wraps, as the resumed proxy does.                                        *)
PauseUnnamed(t) ==
  /\ MayOperate /\ "pause" \in Takes
  /\ token' = t
  /\ interactive' = FALSE
  /\ event' = Ended(cur.name)
  /\ UNCHANGED <<cur, props, inflight, closed, squares, attached, board, late>>

Pause(t) ==
  /\ MayOperate /\ "pause" \in Takes
  /\ token' = t
  /\ interactive' = FALSE
  /\ event' = Ended("pause")
  /\ UNCHANGED <<cur, props, inflight, closed, squares, attached, board, late>>

(* Pause.processEvent resumes for the matching token only; every other      *)
(* resume, and a pause while paused, changes nothing.                       *)
Resume(t) ==
  /\ MayOperate /\ "resume" \in Takes /\ token = t
  /\ token' = NoToken
  /\ interactive' = TRUE
  /\ event' = Ended(cur.name)
  /\ UNCHANGED <<cur, props, inflight, closed, squares, attached, board, late>>

(* Any event sent to the Over state is answered with an error.              *)
OverError ==
  /\ MayOperate /\ ~Paused /\ cur.name = "over"
  /\ event' = Failed
  /\ UNCHANGED <<cur, token, props, inflight, closed, gridVars, late>>

(* ops.pause and ops.resume as their callers see them, which ignore what    *)
(* became of the call.                                                      *)
CallPause(t) ==
  IF ~MayOperate \/ Paused THEN UNCHANGED vars
  ELSE IF cur.name = "over" THEN OverError
  ELSE Pause(t)

(* MUTANT: Pause.processEvent does not compare the tokens.                  *)
CallResumeAny(t) ==
  IF t = NoToken \/ ~MayOperate THEN UNCHANGED vars
  ELSE IF Paused THEN Resume(token)
  ELSE IF cur.name = "over" THEN OverError
  ELSE UNCHANGED vars

CallResume(t) ==
  IF t = NoToken \/ ~MayOperate THEN UNCHANGED vars
  ELSE IF Paused THEN IF token = t THEN Resume(t) ELSE UNCHANGED vars
  ELSE IF cur.name = "over" THEN OverError
  ELSE UNCHANGED vars

(* MUTANT: reset() also restarts a game that is ready.                      *)
ResetReady(s) ==
  /\ event \in {Ended("ongoing"), Ended("ready")} /\ "restart" \in Takes /\ Free(s)
  /\ props' = TakeNext(props)
  /\ squares > 0
  /\ inflight' = [inflight EXCEPT ![s] =
       [to |-> Initial("initial", 0, NoAttempt), work |-> "short"]]
  /\ event' = Starting("initial")
  /\ squares' = 0 /\ interactive' = FALSE
  /\ UNCHANGED <<cur, token, closed, attached, board, late>>

(* ops.reset: forceEnd(true), only if the game was the last to start.  A    *)
(* Grid that is already empty makes the transition, and what follows it,    *)
(* synchronous.                                                             *)
Reset(s) ==
  /\ event = Ended("ongoing") /\ "restart" \in Takes /\ Free(s)
  /\ props' = TakeNext(props)
  /\ squares > 0
  /\ inflight' = [inflight EXCEPT ![s] =
       [to |-> Initial("initial", 0, NoAttempt), work |-> "short"]]
  /\ event' = Starting("initial")
  /\ squares' = 0 /\ interactive' = FALSE
  /\ UNCHANGED <<cur, token, closed, attached, board, late>>

ResetEmpty(s) ==
  /\ event = Ended("ongoing") /\ "restart" \in Takes /\ Free(s)
  /\ squares = 0
  /\ props' = TakeNext(props)
  /\ cur' = Initial("initial", 0, NoAttempt)
  /\ BeginReady(s, 0, TakeNext(props).gamemode, 0, interactive, attached)
  /\ UNCHANGED <<token, closed, late>>

-----------------------------------------------------------------------------
(* A click on a square: Ready.onRemoveSquare and Ongoing.onRemoveSquare,    *)
(* with the outcome of gamemode.progress, which may draw `d' numbers.       *)
Clickable == interactive /\ attached /\ squares > 0

InPlay == "removeSquare" \in Takes

\* startAttempt for the first square, the running attempt for the others
AttemptOf(c) ==
  IF c.name = "ready"
  THEN [gamemode |-> props.gamemode, seed |-> c.seed, ended |-> FALSE]
  ELSE c.attempt

Draws == {0, 1}
CanDraw == cur.rand + 2 <= MaxOff

ClickOn(d) ==
  /\ Clickable /\ InPlay /\ CanDraw
  /\ "continue" \in Outcomes(props.gamemode, squares - 1)
  /\ squares' = squares - 1
  /\ cur' = Ongoing(cur.seed, cur.rand + d, AttemptOf(cur))
  /\ event' = IF cur.name = "ready" THEN Ended("ongoing") ELSE event
  /\ UNCHANGED <<token, props, inflight, closed, interactive, attached, board, late>>

(* MUTANT: a lost grid keeps its squares until their animations have ended. *)
ClickEndKeepsSquares(s, kind, d) ==
  /\ Clickable /\ InPlay /\ CanDraw /\ Free(s)
  /\ kind \in Outcomes(props.gamemode, squares - 1)
  /\ cur' = [cur EXCEPT !.rand = @ + d, !.attempt.ended = cur.name = "ongoing"]
  /\ inflight' = [inflight EXCEPT ![s] =
       [to |-> Initial(kind, cur.rand + d, [AttemptOf(cur) EXCEPT !.ended = TRUE]),
        work |-> IF kind = "win" THEN "lastop" ELSE "short"]]
  /\ props' = TakeNext(props)
  /\ event' = Starting(kind)
  /\ squares' = squares - 1
  /\ UNCHANGED <<token, closed, interactive, attached, board, late>>

(* The game is decided: the Initial constructor ends the attempt (the one   *)
(* an Ongoing state holds too) and takes the next gamemode.  A win waits    *)
(* for the last square's animation, a loss destroys what is left.           *)
ClickEnd(s, kind, d) ==
  /\ Clickable /\ InPlay /\ CanDraw /\ Free(s)
  /\ kind \in Outcomes(props.gamemode, squares - 1)
  /\ cur' = [cur EXCEPT !.rand = @ + d, !.attempt.ended = cur.name = "ongoing"]
  /\ inflight' = [inflight EXCEPT ![s] =
       [to |-> Initial(kind, cur.rand + d, [AttemptOf(cur) EXCEPT !.ended = TRUE]),
        work |-> IF kind = "win" THEN "lastop" ELSE "short"]]
  /\ props' = TakeNext(props)
  /\ event' = Starting(kind)
  /\ squares' = 0
  /\ interactive' = (interactive /\ kind = "win")
  /\ UNCHANGED <<token, closed, attached, board, late>>

(* game.setGamemode: a Pause delegates to the state it wraps.               *)
SetNow(g) ==
  /\ cur.name \in InitialName
  /\ props' = [props EXCEPT !.gamemode = g]
  /\ UNCHANGED <<cur, board>>

(* MUTANT: the grid keeps its colours when a ready game changes gamemode.   *)
SetReadyPlain(g) ==
  /\ cur.name = "ready"
  /\ props' = [props EXCEPT !.gamemode = g]
  /\ UNCHANGED <<cur, board>>

SetReady(g) ==
  /\ cur.name = "ready"
  /\ props' = [props EXCEPT !.gamemode = g]
  /\ cur' = [cur EXCEPT !.rand = cur.seed + Cost(g)]
  /\ board' = IF g \in Critical /\ squares > 0
              THEN ColouredBy(g, cur.seed) ELSE board

(* MUTANT: the gamemode of a running game is changed at once.               *)
SetNextNow(g) ==
  /\ cur.name = "ongoing"
  /\ props' = [props EXCEPT !.gamemode = g]
  /\ UNCHANGED <<cur, board>>

SetNext(g) ==
  /\ cur.name = "ongoing"
  /\ props' = [props EXCEPT !.next = g]
  /\ UNCHANGED <<cur, board>>

SetGamemode(g) ==
  /\ Opened
  /\ late' = (late \/ event.name = "transitionstart")
  /\ SetNow(g) \/ SetReady(g) \/ SetNext(g)
  /\ UNCHANGED <<token, inflight, event, closed, squares, interactive, attached>>

-----------------------------------------------------------------------------
\* endTransition, and the timers and animations it waits for
Complete(s) == EndInitial(s) \/ EndReady(s) \/ OverPop(s) \/ OverDrain(s) \/ EndOver(s)

Next ==
  \/ \E s \in Slot : Prepare(s) \/ Complete(s) \/ ForceEnd(s) \/ Reset(s) \/ ResetEmpty(s)
  \/ \E t \in Token : Pause(t) \/ Resume(t)
  \/ OverError
  \/ \E d \in Draws : ClickOn(d) \/ \E s \in Slot, kind \in EndName : ClickEnd(s, kind, d)
  \/ \E g \in Gamemode : SetGamemode(g)

\* main() prepares the game; animations and timers end
Fairness == \A s \in Slot : WF_vars(Prepare(s)) /\ WF_vars(Complete(s))

Spec == Init /\ [][Next]_vars /\ Fairness

-----------------------------------------------------------------------------
(* PROPERTIES *)

TypeOK ==
  /\ cur \in State
  /\ token \in Token \union {NoToken}
  /\ props \in [gamemode: Gamemode, next: Gamemode \union {NoMode}]
  /\ inflight \in [Slot -> Transition]
  /\ event \in Event
  /\ closed \in BOOLEAN
  /\ squares \in 0 .. NumSquares
  /\ interactive \in BOOLEAN
  /\ attached \in BOOLEAN
  /\ board \in [by: Gamemode \union {NoMode}, seed: Off]
  /\ late \in BOOLEAN

(* While the database is open, transitions exclude each other although      *)
(* setState takes no lock: every caller either is a consequence of a        *)
(* transition's end or looks at the last event first (game/ops.ts).         *)
TransitionsExclusive ==
  ~closed => /\ \A s, t \in Slot : ~Free(s) /\ ~Free(t) => s = t
             /\ event.name = "transitionstart" <=> \E s \in Slot : ~Free(s)

(* The guards of ops.ts read the last event in place of the state.  They    *)
(* may: while the database is open a transitionend names the current state. *)
EventNamesState ==
  ~closed /\ event.name = "transitionend" => event.to = Name

(* Only a game that can be played is ever paused.  A paused Win or Lose     *)
(* state would, once resumed, run onGameEnd again and submit the attempt a  *)
(* second time.                                                             *)
PauseOnlyInPlay == Paused => cur.name \in {"ready", "ongoing"}

(* A square can be clicked only when the current state plays it, never      *)
(* while the game is paused: processEvent's errors for removeSquare are out *)
(* of a player's reach.                                                     *)
ClickableOnlyInPlay == Clickable => InPlay

(* A game ends once: attempt.ts throws when an attempt is ended twice, and  *)
(* each end submits one.  The state in which the game was decided stays     *)
(* current, and goes on taking clicks, for as long as the end's transition  *)
(* runs; it finds no square left to end the game again with.                *)
AttemptEndsOnce ==
  /\ cur.name = "ongoing" /\ cur.attempt.ended => squares = 0
  /\ event.name = "transitionstart" /\ event.to \in EndName => squares = 0

(* The rules that judge a click are those the attempt was started with, and *)
(* is submitted under, whatever the player picks in the menu meanwhile.     *)
AttemptKeepsRules ==
  cur.name = "ongoing" /\ squares > 0 => cur.attempt.gamemode = props.gamemode

(* The server, or findwin, can replay the attempt: where colours matter the *)
(* board was coloured by the gamemode played from the state the attempt     *)
(* records, and the generator has advanced by exactly that; provided no     *)
(* gamemode was picked during a transition.                                 *)
BoardReproducible ==
  ~late /\ squares > 0 /\ cur.name \in {"ready", "ongoing"} =>
    /\ AttemptOf(cur).gamemode \in Critical =>
         board = ColouredBy(AttemptOf(cur).gamemode, AttemptOf(cur).seed)
    /\ cur.name = "ready" => cur.rand = cur.seed + Cost(props.gamemode)

(* README, Gameplay: where colours are the rule (Odd One Out guarantees one *)
(* square of a colour no other has) they were drawn by that gamemode.       *)
ColoursFitRules ==
  squares > 0 /\ cur.name \in {"ready", "ongoing"}
    /\ AttemptOf(cur).gamemode \in Critical => board.by = AttemptOf(cur).gamemode

(* README, Game: a gamemode asked for in mid-play is set when the game      *)
(* returns to Initial; a game made ready has none left to set.              *)
ChoiceTakenByNextGame == cur.name = "ready" => props.next = NoMode

(* A pause freezes the game: until the pause ends no square goes, no game   *)
(* starts, ends or restarts.                                                *)
PauseFreezes ==
  [][Paused /\ ~closed' => /\ UNCHANGED <<squares, attached, inflight>>
                           /\ cur'.name = cur.name
                           /\ cur'.attempt = cur.attempt]_vars

(* README, Game: Over is the state in which no new game can be started.     *)
OverIsFinal == [][cur.name = "over" => cur'.name = "over"]_vars

(* Every game that ends, and every reset, is followed by a game ready to    *)
(* play on a full grid that takes clicks, as long as the database is open.  *)
GameComesBack ==
  (event.name = "transitionstart" /\ event.to \in InitialName)
    ~> (closed \/ (cur.name = "ready" /\ squares = NumSquares /\ Clickable))
=============================================================================
