-------------------------------- MODULE Trace -------------------------------
(***************************************************************************)
(* The tracer of src/src/game/trace.ts, what src/src/index.ts feeds it from  *)
(* game to game, flush(), the packed pointer events, and the server that     *)
(* decodes both (src/internal/trace).  Positions, sizes and names are left   *)
(* out; a click is known by its time.                                       *)
(***************************************************************************)
EXTENDS Integers, Sequences, FiniteSets, SequencesExt

CONSTANTS
  Device,      \* what tells pointers apart: type, primary, size
  Gap,         \* BOUND: the ticks that pass before a pointer event
  SmoothGap,   \* 16 ms in ticks
  Micros,      \* 5, the microseconds in a tick, the resolution of performance.now
  Nanos,       \* 1000, the nanoseconds in a microsecond
  Short,       \* <<last, time>> whose difference, times 200, falls just short in
               \* floating point: (1000.3 - 1000.2) * 200 is 19.99... for 20 ticks
  Shaved,      \* times whose nanoseconds fall just short, times 1e6
  DeltaRange,  \* 2^32: of a packed delta, in ticks, and of what it is in microseconds
  IndexRange,  \* 256: the range of a packed pointer index
  MaxInputs    \* BOUND: inputs of a page besides those of Ready

ASSUME TraceAssumption ==
  /\ Gap \subseteq Nat \ {0} /\ {SmoothGap, MaxInputs} \subseteq Nat
  /\ {Micros, Nanos, DeltaRange, IndexRange} \subseteq Nat \ {0}
  /\ Short \subseteq {p \in Nat \X Nat : p[1] < p[2]} /\ Shaved \subseteq Nat \ {0}

VARIABLES
  inputs,    \* Tracer.#inputs
  enabled,   \* Tracer.#enabled
  stage,     \* of the game: "initial", "ready", "ongoing"
  paused,    \* does a Pause wrap it?
  attached,  \* listeners: "window" (screen, viewport and grid), "moves"
  subs,      \* live subscriptions to the theme
  subscribed,\* is one of them what themeUnsubscriber would end?
  clock, count,
  removed,   \* history: the clicks of this game
  sent       \* the last submission: the trace, the clicks it is about, and how
             \* many inputs it tells one by one

tVars == <<inputs, enabled, stage, paused, attached, subs, subscribed, clock, count, removed, sent>>

Dedup == {"gridResize", "orientationChange", "viewport", "theme"}   \* typesToDeduplicate
In(type) == [type |-> type]
Pointed(type, dev, time) == [type |-> type, dev |-> dev, time |-> time]

TraceInit ==
  /\ inputs = <<>> /\ enabled = FALSE /\ stage = "initial" /\ paused = FALSE
  /\ attached = {} /\ subs = 0 /\ subscribed = FALSE
  /\ clock = 1 /\ count = 0
  /\ removed = <<>> /\ sent = <<>>

-----------------------------------------------------------------------------
(* #push *)
Push(s) == inputs' = IF enabled THEN inputs \o s ELSE inputs
Counted == count < MaxInputs /\ count' = count + 1

(* A square takes the pointer: the grid lacks grid--no-interaction.         *)
Interactive == stage # "initial" /\ ~paused

(* onGameReady 'after', in the task that traced s: the page subscribes again *)
(* without a look at what it is subscribed to; listeners are the same        *)
(* functions and are added once.                                            *)
Announced == <<In("metadata"), In("theme"), In("gridResize"), In("orientationChange"), In("viewport")>>
OnGameReady(s) ==
  /\ enabled' = TRUE /\ inputs' = inputs \o s \o Announced
  /\ subs' = subs + 1 /\ subscribed' = TRUE
  /\ attached' = attached \union {"window"}

GetReady ==
  /\ stage = "initial" /\ stage' = "ready"
  /\ OnGameReady(<<>>)
  /\ removed' = <<>>
  /\ UNCHANGED <<paused, clock, count, sent>>

(* A theme is picked: every subscription traces it.                         *)
PickTheme ==
  /\ subs > 0 /\ Counted
  /\ Push([i \in 1 .. subs |-> In("theme")])
  /\ UNCHANGED <<enabled, stage, paused, attached, subs, subscribed, clock, removed, sent>>

WindowChange(type) ==
  /\ "window" \in attached /\ Counted
  /\ Push(<<In(type)>>)
  /\ UNCHANGED <<enabled, stage, paused, attached, subs, subscribed, clock, removed, sent>>

(* Game.sendEvent traces every pause and resume, those that change nothing   *)
(* too: of a game that is paused, or with a token that is not its own.       *)
PauseGame ==
  /\ stage # "initial" /\ Counted
  /\ Push(<<In("pause")>>) /\ paused' = TRUE
  /\ UNCHANGED <<enabled, stage, attached, subs, subscribed, clock, removed, sent>>

ResumeInVain ==
  /\ stage # "initial" /\ Counted
  /\ Push(<<In("resume")>>)
  /\ UNCHANGED <<enabled, stage, paused, attached, subs, subscribed, clock, removed, sent>>

(* withResumeTransition replaces the transition of the state a Pause wraps   *)
(* but not its callback: onGameReady runs again, or onGameStart, which adds  *)
(* a listener the grid has.                                                 *)
ResumeGame ==
  /\ paused /\ Counted /\ paused' = FALSE
  /\ \/ stage = "ready" /\ OnGameReady(<<In("resume")>>)
     \/ /\ stage = "ongoing" /\ Push(<<In("resume")>>)
        /\ UNCHANGED <<enabled, attached, subs, subscribed>>
  /\ UNCHANGED <<stage, clock, removed, sent>>

(* ops.reset() of a game that was started and is not paused: nothing is      *)
(* flushed, detached or unsubscribed.                                       *)
ResetGame ==
  /\ stage = "ongoing" /\ ~paused /\ stage' = "initial" /\ Counted
  /\ Push(<<In("forceEnd"), In("prepare")>>)
  /\ UNCHANGED <<enabled, paused, attached, subs, subscribed, clock, removed, sent>>

Move(dev, gap) ==
  /\ "moves" \in attached /\ Interactive /\ Counted /\ clock' = clock + gap
  /\ Push(<<Pointed("pointerMove", dev, clock')>>)
  /\ UNCHANGED <<enabled, stage, paused, attached, subs, subscribed, removed, sent>>

-----------------------------------------------------------------------------
(* flush(): one pass over the inputs.  A traced pointer event keeps, beside  *)
(* what is packed, the time it was made at.                                 *)
NoTrace == [events |-> <<>>, pointers |-> <<>>, pevs |-> <<>>, first |-> 0, last |-> 0]
PointerOf(in) == [dev |-> in.dev, move |-> in.type = "pointerMove"]

Pointers(t, in) ==
  IF Contains(t.pointers, PointerOf(in)) THEN t.pointers ELSE Append(t.pointers, PointerOf(in))
(* ((time - lastPointerTraceTime) * 200) >>> 0: the product is truncated.    *)
Ticks(last, time) == time - last - (IF <<last, time>> \in Short THEN 1 ELSE 0)
Packed(t, in) ==
  [index |-> (CHOOSE i \in DOMAIN Pointers(t, in) : Pointers(t, in)[i] = PointerOf(in)) - 1,
   delta |-> IF t.last = 0 THEN 0 ELSE Ticks(t.last, in.time) % DeltaRange]

(* MUTANT: a move that is dropped still sets the time deltas refer to.      *)
TracedDrifting(t, in) ==
  LET p == Packed(t, in)
      u == [t EXCEPT !.pointers = Pointers(t, in), !.last = in.time,
                     !.first = IF t.last = 0 THEN in.time ELSE @]
  IN  IF in.type = "removeSquare"
      THEN [u EXCEPT !.pevs = Append(@, p),
                     !.events = Append(@, [type |-> in.type, time |-> in.time, dev |-> in.dev,
                                           pev |-> Len(t.pevs)])]
      ELSE IF t.last = 0 \/ p.delta >= SmoothGap THEN [u EXCEPT !.pevs = Append(@, p)] ELSE u

(* removeSquare and pointerMove                                             *)
Traced(t, in) ==
  LET p == Packed(t, in)
      u == [t EXCEPT !.pointers = Pointers(t, in),
                     !.first = IF t.last = 0 THEN in.time ELSE @]
      kept == [u EXCEPT !.pevs = Append(@, p), !.last = in.time]
  IN  IF in.type = "removeSquare"
      THEN [kept EXCEPT !.events = Append(@, [type |-> in.type, time |-> in.time, dev |-> in.dev,
                                              pev |-> Len(t.pevs)])]
      ELSE IF t.last = 0 \/ p.delta >= SmoothGap THEN kept ELSE u

(* MUTANT: only what is not to be deduplicated is replaced.                 *)
StopsAtOthers(t, in) == {i \in DOMAIN t.events : t.events[i].type \notin Dedup}

(* default: the last event that is of the same type, or not one of those to  *)
(* deduplicate, is replaced.                                                *)
Stops(t, in) == {i \in DOMAIN t.events : t.events[i].type \notin Dedup \/ t.events[i].type = in.type}
Deduplicated(t, in) ==
  IF Stops(t, in) = {} THEN [t EXCEPT !.events = Append(@, in)]
  ELSE [t EXCEPT !.events[CHOOSE i \in Stops(t, in) : \A j \in Stops(t, in) : j <= i] = in]

FlushOne(t, in) ==
  CASE in.type \in {"removeSquare", "pointerMove"} -> Traced(t, in)
    [] in.type = "metadata" -> t
    [] OTHER -> Deduplicated(t, in)
Flush(s) == FoldLeft(FlushOne, NoTrace, s)

(* What flush() tells of one by one: clicks and the events of the game.      *)
Untold == Dedup \union {"metadata", "pointerMove"}
Told(s) == Cardinality({i \in 1 .. Len(s) : s[i].type \notin Untold})

(* A click on a square.  One that ends the game is followed at once by       *)
(* onGameEnd 'before': the trace is flushed and submitted.                  *)
Click(dev, gap, ends) ==
  LET in == Pointed("removeSquare", dev, clock + gap)  s == Append(inputs, in) IN
  /\ Interactive /\ Counted /\ clock' = clock + gap
  /\ IF ends
     THEN /\ sent' = <<[trace |-> Flush(s), clicks |-> Append(removed, clock'), told |-> Told(s)]>>
          /\ inputs' = <<>> /\ enabled' = FALSE /\ stage' = "initial"
          /\ attached' = {} /\ removed' = <<>>
          /\ subs' = IF subscribed THEN subs - 1 ELSE subs
          /\ subscribed' = FALSE
     ELSE /\ Push(<<in>>) /\ removed' = Append(removed, clock') /\ stage' = "ongoing"
          /\ attached' = attached \union {"moves"}
          /\ UNCHANGED <<enabled, subs, subscribed, sent>>
  /\ UNCHANGED paused

TraceNext ==
  \/ GetReady \/ PickTheme \/ ResetGame \/ PauseGame \/ ResumeInVain \/ ResumeGame
  \/ \E type \in {"gridResize", "orientationChange", "viewport"} : WindowChange(type)
  \/ \E dev \in Device, gap \in Gap : Move(dev, gap) \/ \E ends \in BOOLEAN : Click(dev, gap, ends)

TraceSpec == TraceInit /\ [][TraceNext]_tVars

-----------------------------------------------------------------------------
(* The server: parsePointerEvents, setPointers and the checks of the JSON    *)
(* decoders.  Its times are integers, of nanoseconds: Timestamp truncates    *)
(* the milliseconds of firstPointerEventTime times 1e6, and a delta is made  *)
(* microseconds in its own 32 bits.                                         *)
TickNanos == Micros * Nanos
Timestamp(time) == time * TickNanos - (IF time \in Shaved THEN 1 ELSE 0)
TimeOf(t, i) ==
  FoldLeft(LAMBDA sum, p : sum + ((p.delta * Micros) % DeltaRange) * Nanos,
           Timestamp(t.first), SubSeq(t.pevs, 1, i))
Removals(t) == SelectSeq(t.events, LAMBDA e : e.type = "removeSquare")
RemovalEvents(t) == {e \in ToSet(t.events) : e.type = "removeSquare"}
HasKeyEvents(t) ==
  Dedup \union {"removeSquare"} \subseteq {t.events[i].type : i \in DOMAIN t.events}
Accepts(t) ==
  /\ HasKeyEvents(t)
  /\ t.first > 0 /\ t.pointers # <<>>
  /\ \A i \in DOMAIN t.pevs : t.pevs[i].index % IndexRange < Len(t.pointers)
  /\ \A e \in RemovalEvents(t) : e.pev < Len(t.pevs)

(* What the browser sends is what the server reads, whatever was moved,      *)
(* reset, resized or dropped on the way: no trace of a finished game is      *)
(* refused for what flush() made of it, and each removal it holds leads to   *)
(* the pointer of its click, as long as a game has no more pointers than a   *)
(* byte counts, and, as long as it takes less than 2^32 microseconds, to its *)
(* time but for what truncations lose: the server's time is never later, and *)
(* earlier by a nanosecond and a tick for each pointer event before it at    *)
(* most (trace.ts:214-257, 282-302, trace.go:24-118).                       *)
Slack(e) == e.pev * TickNanos + 1
TraceReadable ==
  sent # <<>> =>
    LET t == sent[1].trace IN
    /\ Accepts(t)
    /\ \A e \in RemovalEvents(t) :
         LET p == t.pevs[e.pev + 1] IN
         /\ Len(t.pointers) <= IndexRange =>
              t.pointers[1 + (p.index % IndexRange)] = [dev |-> e.dev, move |-> FALSE]
         /\ e.time * Micros < DeltaRange =>
              TimeOf(t, e.pev + 1) \in (e.time * TickNanos - Slack(e)) .. e.time * TickNanos

(* A page subscribes to the theme each time a game is made ready or resumed  *)
(* before its first click, and ends the last subscription only: however many *)
(* have piled up over resets and pauses, a trace has one event at most for   *)
(* each click, pause, resume and reset, and one for each type that is        *)
(* deduplicated (index.ts:96-111, 119-135, trace.ts:263-278).               *)
TraceBounded ==
  sent # <<>> => Len(sent[1].trace.events) <= sent[1].told + Cardinality(Dedup)

(* README.md:75 "replays the trace against the random function according to  *)
(* the gamemode's rules to verify that the attempt is possible": the trace   *)
(* of an attempt has the removals of that attempt.                          *)
RemovalsTraced ==
  sent # <<>> =>
    LET r == Removals(sent[1].trace) IN [i \in DOMAIN r |-> r[i].time] = sent[1].clicks
=============================================================================
