# A TLA+ development for *Pop the grid!*

The repository is a browser game with a small Go server. This directory holds
specifications of its parts, the TLC runs that check them on small instances,
and TLAPS proofs: about the game object, which everything else hangs on, the page
around it, attempts and their storage, share links and their migrations, the opening
of the database, the session client, the rules of the gamemodes, the trace of a game, the
search of findwin and the difficulty of challenges. Paths below are relative to the repository root.

- [1. The system](#1-the-system): inventory, interaction, hazards
- [2. The modules](#2-the-modules): what each models and how it maps to the code
- [3. The runs](#3-the-runs): what is asked of TLC, bounds, fairness
- [4. Where the code and its documentation disagree](#4-where-the-code-and-its-documentation-disagree)
- [5. The proofs](#5-the-proofs)
- [6. What is not modelled](#6-what-is-not-modelled)
- [7. Plan](#7-plan)

## 1. The system

### 1.1 Inventory

**In the browser** one JavaScript thread per tab runs one task at a time. What
makes it concurrent is that every transition of the game awaits animations and
promises, and that clicks, the menu, the window's visibility, other tabs and the
network come in between.

| component | state | operations | what makes it correct |
|---|---|---|---|
| Game (`src/game/index.ts`, `state.ts`, `ops.ts`) | current `State` object, shared `BaseProps` (gamemode, nextGamemode, grid), the `dispatchedEvents` store | `prepare`, `pause`, `resume`, `forceEnd`, `setGamemode`, square clicks; `ops.reset` | transitions exclude each other without a lock; one attempt ends once, under the rules and the random state it was started with; a pause freezes; another game always follows |
| Gamemodes (`src/game/gamemode`) | SameSquare's `lastColor` | `initialSquares`, `progress`, `reset` | an odd square always exists; Gleich is judged as documented; a board is never hopeless |
| Grid, squares, animations (`src/components`) | squares, classes, listeners, running animations | `create`, `destroy`, `removeSquare`, `setColors`, `toggleInteraction` | what is clickable is playable; an animation that began ends |
| Page (`src/index.ts`) | `resetting`, the window's pause token, how far `main` got | boot, version change, visibility, reset gesture, onGameStart/End | tokens match; a reset is answered; the page survives everything but a database upgrade |
| Menu (`src/menu`) | its modal, its pause token | open, close, pick a gamemode | holds the game until it is closed |
| Attempts store (`src/menu/context.ts`, `src/game/statistics.ts`) | statistics, last, ongoing, `hasSubscribed` | loader, `update`, `updateOngoing` | every attempt counts once |
| IndexedDB (`src/db`, `src/util/indexedDB`) | attempts, cached links, versions | transactions, upgrades | every attempt is stored once; upgrades never hang |
| Session client (`src/session.ts`) | abort controllers, loops, localStorage entry | refresh loop; online, offline and storage listeners | one loop refreshes; the shown status is the true one |
| Tracer (`src/game/trace.ts`) | queue of inputs | record, `flush` | the trace says what happened, in order |
| Share links (`src/menu/internal/share.ts`, `src/db/link.ts`) | cache | look up, `POST /share`, cache | a link that exists is found again |
| Footer (`src/components/SillyName`, `src/util/time/interval.ts`) | counter, text, a chain of timers and frames, a flag in localStorage | mount, click, discover, unmount; the interval's abort | a footer that is gone or told its secret comes to rest |
| Random function (`src/rand.ts`) | 32-bit offset | `next`, `state` | an attempt's state reproduces its board |

**On the server** (`internal/`): the SQLite repository (attempts, links, unique
constraints, retries), the migrations (schema steps and a script in Go), the
session endpoint behind a proof of work whose difficulty follows a count-min
sketch, the random keys it signs, request decoding, and `findwin`, a parallel
search that replays games against the random function.

### 1.2 How the parts interact

- The page, the menu and the window all call the same `Game`. None of them sees
  its state: `ops.ts` reads the *last event* instead, and each caller keeps the
  token that its own `pause()` returned.
- `Game` calls back (`onGameReady`, `onGameStart`, `onGameEnd`) before and after
  a transition; `onGameEnd` 'after' calls `prepare`, which is the only reason
  why one game follows another.
- `onGameEnd` 'before' starts `handleAttempt`: a request; then, whatever became
  of it, the store, the other tabs (BroadcastChannel) and the database.
- A store loads from the database when its first subscriber comes; tabs share
  the database, the channel, localStorage and a lock.
- `nextGamemode` is set by a running game and taken by the next Initial state.
- A version change of the database ends the game in every tab (`forceEnd`).

### 1.3 What is hard to test

`PROJECT.json` lists each hazard at its line. They are of five kinds:

1. **Steps during a transition.** `this.state` is the old state until the new
   one's transition is over, and goes on handling events (double ends, late
   choices, late colours, an upgrade during anything).
2. **Guards on a proxy.** `ops.ts` looks at the event store; it is right only if
   that store always names the current state.
3. **Tokens.** Two independent clients pause and resume one game.
4. **Reads that are used later.** The store's loader, messages between tabs,
   requests that end out of order; the session's shared entry.
5. **Boundaries.** Fewer squares than colours, the last squares of Mystery, the
   remainder of findwin's split, 32-bit counters.

## 2. The modules

| module | models | instance |
|---|---|---|
| `Game` | `src/game/index.ts`, `ops.ts`, `attempt.ts`, the grid it draws on | `MCGame` |
| `Lifecycle` | abstract: what a player is promised | through `GameRefinement` |
| `GameRefinement` | the mapping from `Game` to `Lifecycle` | `MCGame` |
| `App` | `src/index.ts` (main, visibility, reset), the menu; `EXTENDS Game` | `MCApp` |
| `Gamemodes` | `src/game/gamemode/*`, findwin's `playMystery` | `MCComponents` |
| `FindWin` | `internal/cmd/findwin`: the parallel search | `MCComponents` |
| `Trace` | `src/game/trace.ts`, its feeding in `src/index.ts`, `internal/trace` | `MCComponents` |
| `Difficulty` | `internal/crypto/altcha` and its `sketch` | `MCComponents` |
| `Attempts` | `handleAttempt`, `menu/context.ts`, `db/attempt.ts`, `util/indexedDB` | `MCAttempts` |
| `Session` | `src/session.ts`, `util/index.ts`, the answers of `/session` | `MCSession`, `MCBrowser` |
| `Opening` | `util/indexedDB/index.ts`, `schema.ts`, `db/schema.ts`, `main`'s use | `MCBrowser` |
| `Animations` | `components/internal/Component.ts`, `Animated.ts`, `Modal.ts` | `MCBrowser` |
| `Repository` | `CreateDB`, `migrations/*.sql`, `FromV1ToV2`, `repo/sqlite` | through `Sharing` |
| `Sharing` | `menu/internal/share.ts`, `db/link.ts`, `/submit`, `/share`; `EXTENDS Repository` | `MCSharing` |
| `SillyName` | `components/SillyName/index.ts`, `util/time/interval.ts`, its flag | `MCBrowser` |
| `GameProofs` | theorems about `Game` and its refinement of `Lifecycle` | – |
| `AppProofs` | theorems about `App`; extends `GameProofs` | – |
| `SharingProofs` | theorems about `Repository` and `Sharing` | – |
| `AttemptsProofs`, `OpeningProofs`, `SessionProofs` | theorems about `Attempts`, `Opening`, `Session` | – |
| `ComponentProofs` | theorems about `Gamemodes`, `FindWin`, `Trace` and `Difficulty` | – |
| `Folding` | lemmas: induction on numbers, and what `FoldLeft` computes, for any operator | – |

`MCComponents` and `MCBrowser` hold components that share no state side by side:
the variable `part` says which one a behaviour is about, and the others stay at
their initial state. Nothing is gained from interleaving them, and each keeps
its own bounds.

Operators whose comment begins with MUTANT are not used by any specification:
each is a plausible bug put in place of the definition it imitates, and the
property named in `PROJECT.json` must then fail.

### Game

*Tasks and transitions.* A handler is one action, since nothing preempts a
JavaScript task. `setState(s)` puts a `transitionstart` event, runs the 'before'
callbacks and calls `s.transition()`; if that returns a promise, the rest
(`endTransition`) is a later action. A started transition therefore occupies a
**slot** of `inflight`, which records the state it leads to and what it waits
for: `create` (the grid's creation), `short` (a grid destroyed by a reset or an
end), `lastop` (the last square's own animation), `pop` and `drain` (the two
parts of Over's destruction). `Prepare`, `Reset`, `ClickEnd` and `ForceEnd` take
a free slot; `EndInitial`, `EndReady`, `OverPop`, `OverDrain`, `EndOver` are the
continuations. `skip` is a creation with nothing to create; it is kept because
nothing in `Ready` rules it out, and no reachable state has it.

*States.* `cur` is the State object the game works with, also when it is wrapped
in a Pause (`token # NoToken`). A Pause copies `props`; the copy is not modelled
because nothing can change the original while a Pause holds a playable state:
`reset` refuses (its event is not `ongoing`) and `setGamemode` goes to the wrapped
state. `Initial`, `Win` and `Lose` are one class in the code and one constructor
here.

*Events.* `event` is the last entry of the store that `ops.ts` reads:
`MayOperate` is `get(game.events).name !== 'transitionstart'`, and `Reset` tests
`to === 'ongoing'`.

*Colours.* `board` says who coloured the squares and from which offset of the
random generator. The numbers do not matter: what a property can tell apart is
whether the board belongs to the gamemode that judges it and whether the
recorded state reproduces it. `Outcomes` lets any click decide the game, except
that the last square always does; `Gamemodes` justifies this (`EndsFitGame`).

*Upgrade.* `ForceEnd` is `game.forceEnd()` without `canRestart`, at any moment
after `closed` could become true.

### App

`main` goes through opening, preparing, prepared and listening: the visibility
and reset listeners exist only at the end of it. `windowToken` and `menuToken`
are the two local variables; a token is `Fresh` if nobody knows it, which stands
for `randString(8)` not colliding. `OpenMenu` opens the modal whether or not the
game could be paused, as the code does. The modal covers the page
(`PageReachable`): while it is there no square can be clicked and no reset
gesture made. `shown` and `chosen` are the two stores the menu button and the
gamemode picker read; the picker, `onGameReady` and the game's state write them at
different times. `App` implements `Game`: its run checks `Spec` as a property.

### Gamemodes

The grid is a function from the squares left to colours, a random number any
number in its range. `GenSquares` is the set of all boards `genSquares` can
produce: the selection loses colours until fewer are left than
`min(colours, squares)`, the last one lost is given to one square. `lastColor`
belongs to the SameSquare *instance*, which is kept from game to game unless
another gamemode is chosen (`NewGame`, `SwitchReady`). `LosingDraw` is
`playMystery` applied to the numbers a game drew.

### Attempts

Tabs finish attempts: `Start`, `End`, `Abandon` are what `onGameStart`, `onGameEnd`
and a reset make of one, `Resume` is `onGameStart` again after a pause (section 2,
Trace), `Handle` is the task that runs after the answer or the
failure of `/submit` (the code's `finally`, so that both look the same). The
attempt is appended to other tabs' queues (`Announce`) and a transaction to the
database's (`Insert`); `Transact` runs transactions in the order they were made,
as IndexedDB does for overlapping stores. `Subscribe` creates the loader's
transaction, whose result waits in `snaps` until `SetLoaded`, the promise's
reaction. `CloseConnection` is the versionchange handler: a later transaction
throws. The transactions of a tab that was closed are aborted when their turn comes
(`Transact`). Statistics are abstracted to how often an attempt was added, which
determines every sum in `statistics.ts`, and to the fastest win (`best`), which depends
on the order. One gamemode suffices: each has statistics of its own.

### Session

A *call* of `configureSession` is made at boot and after every game
(`src/index.ts:145`), and each has its own `abort` variable, its own listeners
and its own loops. A loop is a record (tab, call, copy); `at` is where it stands
between two awaits, `why` the reason its signal was aborted with. `current` are
the loops whose controller is the one `abort` holds: only those can be aborted.
`Online` and `StorageValid` replace the controller, the first without aborting it.
A loop asleep in `wait()` ends in the task that aborts it; one that is anywhere
else goes on until it looks (`AfterAbort`). `wait()` with a signal that is already
aborted waits its whole time: `Wake` then ends the loop.

`locks` is the queue of the Web Lock, `store` what the localStorage entry is worth
(`fresh`: `fetchedAt + fetchNext` is ahead; `due`; `error`; `none`). Browser events go
through `inbox`, in order; a `storage` event goes to the *other* tabs.
`ExpireSession` rings all timers at once, when no event is waiting: the time a
session lasts is long against the delivery of an event. One that is still asleep
in another page then has the same deadline, because everyone waits for the
entry's. `Failed` is four attempts without network, a refusal, or a solution that
came too late.

### Opening

IndexedDB keeps the open requests of one origin in a queue and works on the first
(`step`). A request for a newer version tells every open connection
(`versionchange`), reports `blocked` if one is still there, and upgrades once none is.
`conn = "closing"` is a connection whose `close()` waits for its transaction.
`page` is what `main` made of it; a promise that `blocked` has rejected stays
rejected although the request succeeds later. `Version` gives each page the number
of migrations its code has.

### Animations

The modal is a tree; `create` and `destroy` of the root start those of its children
at once. `op` counts operations, each with an abort signal: starting the next one
takes the listeners of the one before away (`Kept`) and resolves its promise.
Giving an element another class cancels its animation. `Dispatch` hands an event
to the listeners on its way up and lets the first stop it, so that a child's event
never resolves its parent's wait; `Stopper` is this rule. Promises settle from the
leaves to the root in microtasks, before any other task (`Task`).

### SillyName

Each footer is in a page of its own; the pages share `flag`. `chain` is where the
interval stands: waiting for a name, for a timer or for a frame. `AbortChain` ends it
only where a timer is set: a frame looks at the signal, a name that is being fetched
arrives all the same (`crossed` remembers that it did).

### Trace

`inputs` is the tracer's queue. What the page feeds it from is modelled with its
lifetime: listeners that are the same function are added once (`attached`), theme
subscriptions pile up (`subs`), a reset leaves everything as it was. A resume replaces
the transition of the state it goes back to but not its callback
(`withResumeTransition`), so that a game resumed before its first click runs
`onGameReady` again, with five more inputs and one more subscription (`ResumeGame`,
`OnGameReady`). Pauses and resumes that change nothing are traced too (`PauseGame` of a
paused game, `ResumeInVain`). `Flush` is one fold over the queue.

`Packed` and `TimeOf` are the two ends of the packed pointer events, modulo the widths
they have on each side: `DeltaRange` stands for 2^32, `IndexRange` for 2^8, `Micros`
for the 5 µs of a tick, which the server multiplies in 32 bits. Times are integers of
ticks, because `performance.now` has that resolution at best; what is computed from
them is floating point, and truncated twice. `Short` is the set of pairs of times whose
difference, times 200, comes out just below the integer it should be, and loses a tick
to `>>> 0` (`Ticks`): (1000.3 - 1000.2) * 200 is 19.99…, not 20. `Shaved` is the set of times
whose nanoseconds come out just below, and lose one to the server's conversion
(`Timestamp`): 1.005 ms is one of them. Which times they are is for IEEE 754 to say;
the model takes any. Clicks are known by their times.

### Repository and Sharing

`server` is the program: it starts, may do one step and the script, runs the other
files, serves, and may crash at any point. golang-migrate marks a version dirty,
runs its file, marks it clean: three steps (`Mark`, `RunFile`, `MarkClean`), with a
crash possible between any two. Whether the files are numbered from 1 or dated is
chosen at the beginning (`counted`), because `CreateDB` asks for version 1. The files
embedded today are dated, and golang-migrate would find no version 1 among them for
`m.Steps(1)` to start from; a numbered schema therefore says what `CreateDB`'s script was
written for, and is more than these files allow. What is shown holds with and without it.

`TrySave` is one transaction; `Save` is up to `MaxTries` of them. `Verdicts` are the
outcomes a try may have: of a row that breaks both unique constraints SQLite may
report either, and the code tries again or refuses accordingly. Its answer that an
attempt is not a win is there, but no page offers such an attempt to share.

`Sharing` adds the Share components of a browser. `Click` captures the record as it
is displayed, `Find` looks in the cache, `Serve` is the server's work on the request,
`Cache` the transaction that stores the answer unless a key exists, `Error` a
refusal or a loss at either end. `Change` renames the player or adds a win to a
count. `said` remembers what each link was created to say, `shown` what was shown
to the player.

### FindWin

One action per test, send and return of each worker; the reader takes results from
the channel and may have enough of them. `next` counts through the mask and beyond it
(`Mask = MaxUint + 1`), because `inRange` compares only the low bits. Whether a game
wins is a choice.

### Difficulty

Two sketches, cell by cell, and beside them the same bookkeeping with a cell per
client. `Growth` is the table of `1.01^n`; all that is assumed of it is that it
grows. `Tick` is one window of `Handler.Start`.

## 3. The runs

| run | kind | asks |
|---|---|---|
| `game` | passes | the seven invariants below, `PauseFreezes`, `GameComesBack`, refinement of `Lifecycle` |
| `app` | passes | tokens, resets, what the menu shows, refinement of `Game` |
| `attempts` | passes | statistics and storage over two tabs |
| `components` | passes | the gamemodes' rules, findwin's search, traces, difficulty |
| `browser` | passes | sessions, opening the database, the modal, the footer; their liveness |
| `sharing` | passes | migrations, saves and share links through losses and crashes |
| `over_final`, `late_colours`, `late_choice`, `tabs_in_sync`, `offline_entry`, `removals_traced` | violated | section 4 |

**`game`** – 2 gamemodes (one with critical squares), 3 squares, 2 tokens, 2
slots, offsets to 6. Three squares give a first, a middle and a last click. A
third slot was tried: no state has three transitions in flight, since only an
upgrade can overlap another transition and it happens once. A board costs one
draw here and a click none or one, and clicks stop where the offset might pass
its bound: 6 allows two games played to their end with every click drawing, or
more with fewer draws, and any number of resets, which rewind the offset. Shown:
`TransitionsExclusive`, `EventNamesState` (what `ops.ts` takes for granted),
`PauseOnlyInPlay`, `ClickableOnlyInPlay`, `AttemptEndsOnce`, `AttemptKeepsRules`,
`BoardReproducible` (with the proviso that no gamemode was picked during a
transition: `late_colours` shows why), `PauseFreezes`, `GameComesBack`, and
`ImplementsLifecycle`: games are laid out, started, decided or abandoned, and
follow each other.

**`app`** – 2 squares, 3 tokens (the game's own is always one of the other two,
so three suffice), everything else as above. `MenuHoldsGame` is the comment at
`src/game/index.ts:451`; `NoLostResume` its counterpart, that no game stays
paused with nobody left to resume it; `MenuTellsGamemode`: the button and the picker
tell the truth; `ResetEnds`. `PageDiesOnlyOnUpgrade` is proved and was checked with
this instance.

**`components`**, gamemodes – 4 squares, 3 colours: more squares than colours, as many, and
fewer, in the course of one game. Squares are symmetric. `OddOneExists`,
`GleichIsFair` (against the rule of the README: a sequence was left that was not
maximal), `EndsFitGame`, `FindwinAgrees`. `NeverHopeless`, that a game which goes on has a square
whose removal does not lose it, is proved and was checked with this instance.

*findwin* – 3 workers over the counters 0 to 9, from any offset: splits with every
remainder, ranges that overlap and ranges shorter than a game of two squares.
`TestedOnce` says what the search covers: no game twice, and all but those across a
split and those in the last counters, which belong to no worker (section 4).
`MaxCount` stops the workers that would go on into the next mask.

*trace* – 4 inputs besides those of a new game, 2 devices, gaps below and above the
16 ms that are smoothed over; 32 for 2^32, 3 for 2^8 and 5 µs a tick, so that times
pass their range in microseconds and a fourth pointer passes the byte. Four inputs allow a reset, a
pause with its resume or a first click, a move that is dropped, another, and the last click. Two
pairs of times in three are `Short`, and every other time is `Shaved`, so that
deltas that lose a tick follow on each other. `TraceReadable` says that browser and
server mean the same by a trace: the same pointers, and times that differ by what
truncation loses and no more. `TraceBounded` says that the subscriptions which pile up do not
reach the trace: `flush` keeps one theme event, whatever their number.

*difficulty* – 3 clients in 2 rows of 2 cells, so that each shares a cell with
another and none shares both; counters to 5, which saturate after three requests.
`NeverTooEasy`.

**`attempts`** – 2 tabs, 2 attempts, 2 loads, one tab lost. Two loads cover a tab
that loads again (the menu's subscription ends when it is closed) and two tabs
that load at different times. `StatisticsExact` says more than that there is a
race: a load that crossed an update is the *only* way for statistics to be wrong.
The two attempts are wins of different durations, and either may be stored or heard
of first.
`OwnCountedOnce` rests on two things: the store is updated in the task that
creates the insertion, never after it, and a channel does not hear itself.
`StoredOnce`, `OngoingUnfinished`, and `EveryAttemptStored`.

**`browser`**, sessions – 2 tabs, 1 call each, 2 loops of a call at a time, 2 mishaps (the
network goes down and comes back, or goes down after a refusal). `NoNeedlessRefresh`:
the lock spans reading the entry and writing it, so nobody asks the server while
a good session is stored. `NobodyForgotten`: in spite of replaced controllers and
crossing events every call has a loop that listens, as long as no refresh
failed. `Settles`: no page shows `pending` for ever. Two calls in one page are too
many states for liveness; `offline_entry` has them.

*opening* – 4 pages of 3 versions, two of the same. `PlaysOnOwnSchema` and
`RequestsEnd`; a page opens once, so that an empty queue at some time after each
request is an answer to it.

*animations* – a modal, its content and its button, closed once at any moment.
`MenuSettles`. With two clicks it fails (section 4).

*footer* – 2 footers that share the flag, 2 clicks to discover: a first click that
only counts and a last that discovers, from either page. `FooterSettles`.

**`sharing`** – 2 Share components, a won attempt and a count of wins, 2 codes (so that codes collide),
3 attempts, 2 names, 3 themes, 2 tries, 1 crash, 1 change. A
crash at each step of the migration is a start from each state of the disk; the
second start is undisturbed. `ServesMigrated`, `NoOrphans`, `CacheAgrees`,
`LinksMeanOneThing`, `LinksKept`.

**Type invariants** are stated in `Game`, `App`, `Gamemodes`, `Attempts`, `Difficulty`,
`Repository` and `Session`. `Game`'s, `Gamemodes`' and `Difficulty`'s are proved; the other proofs
carry the types they need (`RepoType`, `ClientType`, `Types`, `OpeningType`, `TokensTyped`, `LoopsFit`, `InboxTells`,
`SearchTypes`).
TLC was run on all with these instances, and found no violation.

**Deadlock** is checked in `game`, `app` and the runs of `MCGame`. Elsewhere the system
may stop: attempts are over, all pages are open, a server failed to start, the
bounds on mishaps, inputs and changes are reached.

**Fairness.** `Game`: weak fairness of `Prepare` (main calls it once; until then
the page is waiting for the database) and of each slot's `Complete` (timers and
animations end). Nothing is assumed of the player. The repository's README,
section Bugs, knows of preparations that get stuck; that is an animation that
never ends, which this assumption excludes and `Animations` is about. `App`: the
same two. `Attempts`: requests are answered or fail, the channel delivers, the
database runs its queue, promises' reactions run. `Session`: weak fairness of all
its steps together (`System`); nothing makes the network return, and one choice
among the outcomes of a request is as fair as another. `Opening`: each page's
answers, version changes and ends of transactions; closing a page is owed by
nobody. `Animations`: animations end and events are dispatched, clicks are owed by
nobody. `SillyName`: imports settle, timers fire, a page that is shown renders. In `MCBrowser` the frozen components have no fair step enabled, so that
their fairness holds of every behaviour of the others.

**Bounds** are named in the modules: `Slot`, `MaxOff` in `Game`; `MaxLoads`,
`MaxLosses`, `Attempt` in `Attempts`; `MaxCall`, `Copy`, `MaxMishaps` in `Session` (a handler
waits when all copies are running); `MaxClicks` in `Animations`; `Gap`, `MaxInputs` in
`Trace`; `Footer`, `DiscoverCount` (5 in the code) in `SillyName`; `MaxCount` in `FindWin`; `MaxCrashes` in `Repository`, `MaxChanges` in `Sharing`.

## 4. Where the code and its documentation disagree

Each is a run that must fail, with one property that states what the document
says. The counterexamples are short and can be replayed by hand.

- `over_final` – README: in `Over` "no new game can be started". An upgrade during
  a running transition makes `Over` current first and the older transition's state
  after it.
- `late_colours` – README: in Odd One Out "it is guaranteed that one square exists
  which has a color no other square has". A choice made while the grid is being
  created goes to the state before, whose `setGamemode` does not recolour.
- `late_choice` – README: a change requested in mid-play "it scheduled for when the
  game returns to `Initial`". During the end's transition it arrives after Initial
  took the schedule, and waits for the end of the game after.
- `offline_entry` – `session.ts:164`: "Keep previous localStorage entry if offline."
  Only an aborted signal keeps it. A `storage` event handled after `offline` starts a
  loop nobody aborts; when its session is due it writes an error over a good entry.
- `removals_traced` – README: the server "replays the trace against the random
  function … to verify that the attempt is possible". A theme, a resize or a pause after a
  click takes the click's place in the trace.
- `tabs_in_sync` – README: "Attention is paid to sync state across concurrently open
  tabs". A load that crosses a message counts an attempt twice, one that crosses
  an update forgets it.

What reading and modelling showed beside these, without a run of its own because no
document promises otherwise or the code concerned is not modelled:

- `internal/cmd/findwin/main.go:233`: `inRange` compares the low 32 bits only. A worker whose
  limit is the largest 32-bit number steps into the next mask and never ends; it is so
  whenever the split has no remainder.
- `main.go:272-283`: the comment spreads the remainder over the first workers; the
  code moves a start by at most one. Ranges overlap by one counter, and the last
  counters belong to no worker. No game is tested twice because of it.
- `main.go:262-301`: the iterator returns when the workers have; the goroutine that
  yields the last results may still be reading.
- `main.go:208-221` (`searchGleich`, not modelled): the counter is incremented before it
  is compared with `> numSquares`, so that the first board of a range is not tested and the
  counter reported is one too low; the sequence counter scans the ring buffer unrotated.
- `src/game/trace.ts:74-78`: the comment says 8 bytes an entry and deltas to 2^32 - 1; an
  entry is 9 bytes, and the server multiplies a delta by five in 32 bits
  (`internal/trace/pointer_events.go:35`): it is wrong after 71.6 minutes without a
  pointer event. The 257th pointer of a game gets the index of the first.
- `src/game/trace.ts:237-240`: the comment takes the difference of two times by 200 for the integer that
  represents it. The product is floating point, and may be truncated to one less; the next
  delta starts from the exact time, so that what was lost stays lost and the server's times
  fall behind. `TraceReadable` bounds by how much: a tick for each pointer event.
- `src/util/indexedDB/index.ts:72`: an open that was blocked is rejected, and succeeds later: the
  page has no database although a connection is open.
- `src/components/Modal.ts:54`: a second click on the close button while the modal is
  still appearing leaves it in the document (`MaxClicks = 2`).
- `src/game/statistics.ts:44`: counts of wins carry no new `when` while a page is open, so that their
  cached link goes on saying an old count; `when` is the page's load, so that another page looks for
  another link (why `LinksMeanOneThing` leaves them out, and why a count in `Sharing` is what one
  load of the page counts).
- `internal/cmd/internal/db.go:71`: the files are named by date, so `case 1` matches only databases
  migrated by files numbered from 1. A database with links whose versions are dates stops
  dirty at `links-fix`; so does one that crashed between the step and the script.
- `src/index.ts:101`, `145`: theme subscriptions after a reset and after a resume before the
  first click, the tracer's inputs with them, and listeners and loops of
  `configureSession` after every game, pile up. `TraceBounded` says that a trace does
  not; nothing bounds the queue and the subscriptions themselves.

## 5. The proofs

The theorems about the game hold for every value of the constants that satisfies
`GameAssumption`: any set of gamemodes and critical ones among them, any tokens
and slots, any positive number of squares and offset bound. Upgrades may happen
at any time.

**Type correctness** (`GameProofs!TypeCorrect`). `TypeOK` is not inductive: a Ready
state draws `Cost` numbers from the offset it is given, so the offset must leave
room. `TypeInv` adds `SeedsLeaveRoom`, for the current state and for every state a
transition leads to.

**The inductive invariant** (`GameProofs!GameInvariant`). `GameInv` adds to it:

- `WorkFits` – what a transition waits for tells where it leads;
- `BootQuiet` – until `main` prepares the first game nothing has happened;
- `InitialPasses` – later, an Initial, Win or Lose state is current only while the
  next Ready transition runs: `onGameEnd` and `reset` call `prepare` in the task
  that ended the transition;
- `PauseInPlay` – a Pause wraps Ready or Ongoing, and was the last thing to happen
  unless an upgrade came;
- `EventTells` – while the database is open, the last event is `transitionstart`
  exactly while one transition runs, names the state it leads to, and otherwise
  names the current state; while one runs there is nothing to click on.

The argument is circular in the useful way: exclusion holds because callers look
at the event (`MayOperate`) or have a square to click, which requires that the
event is right and that a running transition leaves nothing to click; both are
right because transitions exclude each other. `EventTells` says it all at once,
and `GameInvStep` has one case per action of `Next`.

From it: `Exclusive`, `EventNames`, `PausedInPlay`; with one more conjunct each,
`EndsOnce` (`AttemptEndsOnce`: an ended attempt means an empty grid) and
`KeepsRules` (`AttemptKeepsRules`: `props.gamemode` changes during a game only
through `setGamemode`, which in Ongoing does not touch it); and, as an action property, `Freezes`
(`PauseFreezes`). TLC also checked `GameInv` as an invariant of the `game`
instance before it was proved.

- `ClickableInPlay` needs, of every square that can be clicked, a state that plays it and no
  transition between: it is `EventTells` once more, with the one step that lets go of
  the listeners and of the state at different moments (`Complete` of a creation).
- `Reproducible` (`BoardReproducible`) holds also after the database was closed, when
  transitions may overlap and `EventTells` says nothing. `OneChain` is what is left:
  apart from Over's own, transitions form one chain, and what a creation lays out is
  what the Ready state at its end was drawn for (`Laying`).
- `ImplementsLifecycleSteps`: under the mapping of `GameRefinement` every step of `Game` is a
  step of `Lifecycle` or a stutter, one lemma with a case per action (`LifeStepHolds`). This
  is the safety half of the refinement the `game` run checks; its fairness stays with TLC.

**The page** (`AppProofs`), from `AppAssumption` besides. `AppStepIsGameStep` shows each
step of the page to be an operation of the game with its guard or to leave the game
alone, so that `GameInv` holds of `App` for free and `AppImplementsGameSteps` follows.
`TokensInv` says who holds which token: the window's exists only while it is hidden, the
menu's only while it is open or closing, and they differ; together with the two
properties `MenuHoldsGame` and `NoLostResume` it is inductive. It rests on a paused game being at rest
(`PausedRests`). `DiesOnlyOnUpgrade` looks at each operation that can answer with an error.
`MenuTells` needs one fact about the game besides (`ChoiceWaits`: a choice made in play
waits in `nextGamemode`).

**Opening** (`OpeningProofs!OwnSchema`), for any pages and versions: while an upgrade runs
no page is connected and what it will commit is complete (`UpgradeInv`), because the
migrations from `m` to `n` appended to those up to `m` are those up to `n`
(`MigrationsComplete`).

**Share links** (`SharingProofs!SharingInvariant`), from `RepositoryAssumption` and
`SharingAssumption`: any codes, themes, names, attempts, widgets, records, tries and
any number of crashes. None of the five properties is inductive. `StartInv` says what
each point of a start knows: only a database that was never past version 1 gets the
script, so no link of it has an attempt, and only the newest schema is served.
`LinksInv` says which file brought which fact: every link has its attempt after
`links-fix`, no old theme is left after the renaming, two links of one attempt exist only on
the newest schema and differ in theme, and an attempt made for a link has that
link alone. `SettledInv` ties the browser to the server: what was answered, is cached or
was shown is a link the server has, with the attempt, theme and name asked for
(`Settled`); a cache hit by attempt is a hit for the same record because no two records
have the same UUID (`RecordInv`). From it `ServedMigrated`, `OneLinkEach`, `CacheFaithful`,
`LinkMeaning` and, as an action property, `LinksOutlive`. `SharingInv` was an invariant of
the `sharing` instance before it was proved.

**Attempts** (`AttemptsProofs!AttemptsInvariant`), from `AttemptsAssumption`: any tabs and
attempts, loads and losses. `StoredOnce` is not inductive: an insertion that waits could repeat one
that ran. `Queue` says that waiting insertions are of attempts not stored, each once
and for the tab that played it; `Flow` that whatever is stored, was read, is on its way
to a tab or is counted was handled, and that no tab hears of its own. `Handle` is the only
action that makes an attempt handled, and does all four in one task. From it
`InsertedOnce`, `CountedOnce` and `OngoingIsOwn`.

**Statistics** (`AttemptsProofs!StatisticsInvariant`, `CountsExactly`). `StatisticsExact` speaks of a tab
with nothing on its way, and is far from inductive. `Told` says which attempts a tab has heard
of at any moment: those that were handled and of which no message to it is under way.
`ToldOnce`: no message is sent twice. `CountsTold`: between loads that crossed no update a tab
counts what it was told of, and nothing else. A load replaces all counts, so that
something must be known of what it read: `LoadCovers` says that what a tab was told of before a load
began is in the snapshot the load has, or will be stored before its transaction reads,
because insertions are queued in the task that tells. `Fastests` is about the loader's
`FoldLeft`: `LoadedFastest` shows the fold to find the fastest win of a sequence of any length.
`StatisticsInv` was an invariant of the `attempts` instance, with three loads, before it
was proved.

**The session lock** (`SessionProofs!LockInvariant`, `RefreshNeeded`), from
`SessionAssumption`: any finite sets of pages, calls and loops, any number of mishaps.
`NoNeedlessRefresh` is not inductive: that nobody else enters while a loop refreshes
comes from the queue. `LockInv` says that everyone who asked for the lock is in `locks`,
and that whoever refreshes is its head and saw no usable entry. Appending to a queue
keeps its head (`EnqueueFacts`, which needs that the loops of a page are finitely many),
and only the head leaves it (`LeavingKeeps`); the entry becomes good only in the task
in which its writer leaves.

**No call is forgotten** (`SessionProofs!HeardInvariant`, `NoCallForgotten`). What
`NobodyForgotten` says of pages that have handled their events has to be said of all of
them: `CallsHeard`, a call has a loop that listens to its signal, or its page has an
`online` to handle. That needs `InboxTells` (behind every `offline` there is an `online`
while the network is there, so that handling the first does no harm; no page is told
of an error before a refresh failed) and `LoopsFit` (a loop that has ended is not the
current one of its call, so that an abort marks none that is started afterwards).
The listeners start the first loop of a call that has ended (`FreshLoop`, with the
least-number principle for the copies); a loop ends by itself only when it failed or
had been aborted (`EndingHeard`).

**The gamemodes' rules** (`ComponentProofs!RulesInvariant`), from `GamemodesAssumption`: any
finite sets of more than one square and more than one colour. `RulesInv` adds to the four
properties what makes them inductive: a game that has not begun remembers nothing
(`Fresh`), SameSquare's `lastColor` is the colour of the last square (`LastKept`), and
Mystery drew a number at each click that left more than one square, of which only the last can
lose (`Drawn`). `ClickIsFair` is the point of Gleich: as no sequence was broken before,
any colour that was clicked and is still there is the remembered one, so that comparing
with one colour judges all of them. `EndsAsGameExpects` is what `Game` takes for granted of the
gamemodes it is instantiated with. `NoDeadEnds` names the square to go on with
(`SquareToGoOnWith`): the odd one, one of the colour that is remembered, or any; removing the odd one
is possible only because a board can be laid out for any two or more squares (`CanLayOut`).

**The search** (`ComponentProofs!SearchInvariant`, `EachTestedOnce`), from `FindWinAssumption`: any
number of workers up to the number of counters, any game size of at least two. `SearchInv`
says that a worker tests counters of its own range only (`OwnRange`), all of them in order in a
search for all games, and returns when none fits (`SearchEnds`). The rest is arithmetic about
`parallel()`: a range ends before the next begins or with its first counter
(`RangesMeet`), which is too short for a game (`RangesApart`); limits do not leave
the mask when there is a counter for each worker (`LimitIsEnd`), and when there is not no worker
tests anything (`TestedWithin`). The assumption is needed: with more workers than counters two
of those that get none would both search from the first counter to the last.

**The trace** (`ComponentProofs!TraceInvariant`, `TracesReadable`, `TracesBounded`), from `TraceAssumption`:
any devices, gaps, inputs, tick and ranges, and any times that floating point leaves short (`Short`,
`Shaved`). `TraceReadable` speaks of what was sent; the invariant has to speak of
what was traced. `InTime`: pointer events are in the order of their times (without it a delta would
wrap). `KeysTraced`: a page whose game is ready or ongoing traces, and has
traced each type the server asks for, also after resets that flush nothing. The rest is an induction
along the inputs (`FlushGood`): `GoodTrace` says of the trace of the first `k` that every packed
event has its pointer, that the server's clock after the last packed event is never ahead of that
event, nor behind by more than a tick for each event before it and a nanosecond (`OnTime`), and
that each removal leads back to its click (`LeadsBack`). It is kept by a pointer event
that is packed (`PackedGood`, with `ClockGoesOn` for the clock and `EarlyByMore` for what a delta
adds to the loss), by a move that is dropped, which lists a
pointer but does not move `last` (`TracedGood`), and by an input that takes the place of an
earlier event, which can lose a removal but never a type that is deduplicated
(`DeduplicatedGood`). The last input of a finished game is its last click
(`LastClickReadable`). `TraceBounded` is an induction along the same inputs: an event that is not
told one by one takes the place of another or is the first of its type (`GrowsBy`, `StillFew`).
`ReadyTraced` is the callback that runs again on a resume. `TraceInv` and `GoodTrace` of the inputs so far were checked on the
instance before they were proved.

**Folds** (`Folding`). A fold over a sequence is defined by recursion on a set of indices, and
induction over data needs a predicate as a parameter, which the provers cannot instantiate.
`Folding` states both for what they can: induction for a *set* of numbers (`Climb`, from the
least-number principle), and the folding operator as a `CONSTANT` of the module, so that
`INSTANCE Folding WITH Op <- FlushOne` gives `FoldRuns` (a fold is the last of a sequence of values, each
made from the one before), `FoldOfNothing` and `FoldOfMore` for that operator.
`FoldExists` shows the recursion to define something.

**Difficulty** (`ComponentProofs!DifficultyInvariant`, `NobodyTooEasy`), from
`DifficultyAssumption`: any clients, any map of clients to cells, any width of the
counters, any growth that is monotonic. `CellsAbove` says of both sketches that a cell is
at least what each of its clients alone would have there; `SaturatedFacts` and
`DecayedFacts` show that requests and windows keep it, on both sides of the limit at
which a window begins to raise the difficulty.

**Only model-checked**:

- the liveness properties (`GameComesBack`, `ResetEnds`, `EveryAttemptStored`, `Settles`,
  `RequestsEnd`, `MenuSettles`, `FooterSettles`) and with them the fairness of `Lifecycle`: fairness and
  `ENABLED` are outside the prover.

Every invariant and every action property of the passing runs is proved. The two refinements, of
`Lifecycle` by `Game` and of `Game` by `App`, are proved step by step
(`ImplementsLifecycleSteps`, `AppImplementsGameSteps`); that they also keep the fairness of what they
implement is only checked (`ImplementsLifecycle`, `Spec`).

## 6. What is not modelled

- Durations, positions, sizes, colours' values and everything that is only shown.
  `doc/filling-the-grid.md` proves the layout by hand.
- The stopwatch: an attempt is started, paused, resumed, ended.
- The random numbers, hashes and signatures.
- Errors of `Game` that no caller can produce are present as guards (`Failed` and
  `OverError` are the reachable ones); programming errors that TypeScript excludes
  are not.
- Handlers that render pages, the health check, middleware.
- Cryptography: keys, signatures, the proof of work's hash and solver.
- `searchGleich` of findwin: its three counters are arithmetic over random numbers.
- `menu/record.ts` and `share/record.ts`: pure functions from statistics to a sentence.
- The footer's word lists, its colours and the redirect banner: they change nothing else.
- Configuration, start-up and shutdown of the programs; nginx.

`PROJECT.json` gives the reason for each component that is left out or modelled in part.

## 7. Plan

Every component whose state can go wrong has a module, and every safety property of the passing
runs is proved; liveness stays with TLC. What could be added:

1. Type correctness of the modules whose inductive invariants say it only in part
   (`SessionTypeOK`, the types of `Sharing`).
2. That `App` and `Attempts` agree on when an attempt is handled: each models the
   callback `onGameEnd` from its own side.
