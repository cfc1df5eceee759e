------------------------------ MODULE Attempts ------------------------------
(***************************************************************************)
(* What becomes of an attempt once Game has decided it: handleAttempt of   *)
(* src/src/index.ts submits it, shows it in the page's attempts store      *)
(* (menu/context.ts), tells the other tabs and inserts it in IndexedDB,    *)
(* from which a store is loaded when a component first subscribes to it.   *)
(* Tabs share the database and a BroadcastChannel; every tab runs one      *)
(* task at a time.  Statistics are how often each attempt counts, and the  *)
(* fastest win among those that do.                                        *)
(***************************************************************************)
EXTENDS Integers, Sequences, FiniteSets, SequencesExt

CONSTANTS
  Tab,        \* the open pages of one browser
  Attempt,    \* BOUND: the attempts they play between them
  None,       \* `undefined' where an attempt may stand
  Duration,   \* how long each attempt took if it was won, 0 if it was lost
  MaxLoads,   \* BOUND: how often a store is loaded, over all tabs
  MaxLosses   \* BOUND: how many tabs are closed or lose their connection

ASSUME AttemptsAssumption ==
  /\ None \notin Attempt
  /\ Duration \in [Attempt -> Nat]
  /\ {MaxLoads, MaxLosses} \subseteq Nat

VARIABLES
  stage,       \* of each attempt: how far it got
  owner,       \* the tab that plays it
  counts,      \* store.statistics: how often an attempt was added
  best,        \* the attempt fastestWinDuration, when and attemptID are of
  last,        \* store.last
  ongoing,     \* store.ongoing
  loaded,      \* hasSubscribed
  subscribed,  \* does a component subscribe to the store?
  dbq,         \* IndexedDB transactions that were created and have not run
  db,          \* the attempts in IndexedDB, by id
  snaps,       \* what loads have read and not yet set
  chan,        \* BroadcastChannel messages under way to a tab
  open,        \* is the tab's database connection open?
  alive,       \* has the tab not been closed?
  loads,       \* counts the loads
  heard,       \* history: attempts a store was updated with while it loaded
  raced        \* history: the last load crossed an update

storeVars == <<counts, best, last, ongoing, loaded>>
dbVars == <<dbq, db, snaps>>
tabVars == <<open, alive>>
vars == <<stage, owner, storeVars, subscribed, dbVars, chan, tabVars,
          loads, heard, raced>>

Stage == {"new", "playing", "submitting", "handled", "abandoned"}
Transaction == [op: {"add", "read"}, tab: Tab, att: Attempt \union {None}]

Reading(t) == \E i \in 1 .. Len(dbq) : dbq[i].op = "read" /\ dbq[i].tab = t
Loading(t) == snaps[t] # <<>> \/ Reading(t)
Lost == {t \in Tab : ~alive[t] \/ ~open[t]}
Playing(t) == \E a \in Attempt : stage[a] = "playing" /\ owner[a] = t

Init ==
  /\ stage = [a \in Attempt |-> "new"]
  /\ owner \in [Attempt -> Tab]
  /\ counts = [t \in Tab |-> [a \in Attempt |-> 0]]
  /\ best = [t \in Tab |-> None] /\ last = [t \in Tab |-> None]
  /\ ongoing = [t \in Tab |-> None]
  /\ loaded = [t \in Tab |-> FALSE]
  /\ subscribed = [t \in Tab |-> FALSE]
  /\ dbq = <<>> /\ db = <<>>
  /\ snaps = [t \in Tab |-> <<>>]
  /\ chan = [t \in Tab |-> <<>>]
  /\ open = [t \in Tab |-> TRUE]
  /\ alive = [t \in Tab |-> TRUE]
  /\ loads = 0
  /\ heard = [t \in Tab |-> {}]
  /\ raced = [t \in Tab |-> FALSE]

-----------------------------------------------------------------------------
(* addAttemptToStatistics.  A win that is not faster changes nothing.        *)
Fastest(b, a) ==
  IF Duration[a] > 0 /\ (b = None \/ Duration[b] > Duration[a]) THEN a ELSE b

(* MUTANT: any win replaces the fastest.                                    *)
AddAttemptAsFastest(t, a) ==
  /\ counts' = [counts EXCEPT ![t][a] = @ + 1]
  /\ best' = [best EXCEPT ![t] = IF Duration[a] > 0 THEN a ELSE @]

AddAttempt(t, a) ==
  /\ counts' = [counts EXCEPT ![t][a] = @ + 1]
  /\ best' = [best EXCEPT ![t] = Fastest(@, a)]

(* store.update(a) in tab t: before the first load only `last' is set, and   *)
(* the new value has no `ongoing', whoever played a.                        *)
Update(t, a) ==
  /\ IF loaded[t] THEN AddAttempt(t, a) ELSE UNCHANGED <<counts, best>>
  /\ last' = [last EXCEPT ![t] = a]
  /\ ongoing' = [ongoing EXCEPT ![t] = None]
  /\ heard' = IF Loading(t) THEN [heard EXCEPT ![t] = @ \union {a}] ELSE heard

(* onGameStart: the first square neither won nor lost the game.             *)
Start(a) ==
  LET t == owner[a] IN
  /\ alive[t] /\ stage[a] = "new" /\ ~Playing(t)
  /\ stage' = [stage EXCEPT ![a] = "playing"]
  /\ ongoing' = [ongoing EXCEPT ![t] = a]
  /\ UNCHANGED <<owner, counts, best, last, loaded, subscribed, dbVars, chan, tabVars, loads, heard, raced>>

(* A game that was paused goes on: onGameStart runs again.                  *)
Resume(a) ==
  LET t == owner[a] IN
  /\ alive[t] /\ stage[a] = "playing"
  /\ ongoing' = [ongoing EXCEPT ![t] = a]
  /\ UNCHANGED <<stage, owner, counts, best, last, loaded, subscribed, dbVars, chan, tabVars, loads, heard, raced>>

(* A game that is reset: nothing tells the store.                           *)
Abandon(a) ==
  /\ alive[owner[a]] /\ stage[a] = "playing"
  /\ stage' = [stage EXCEPT ![a] = "abandoned"]
  /\ UNCHANGED <<owner, storeVars, subscribed, dbVars, chan, tabVars, loads, heard, raced>>

(* onGameEnd 'before': fetch('/submit').  The first square may have decided *)
(* the game, which then never started for the store.                        *)
End(a) ==
  LET t == owner[a] IN
  /\ alive[t]
  /\ stage[a] = "playing" \/ (stage[a] = "new" /\ ~Playing(t))
  /\ stage' = [stage EXCEPT ![a] = "submitting"]
  /\ UNCHANGED <<owner, storeVars, subscribed, dbVars, chan, tabVars, loads, heard, raced>>

(* MUTANT: the listener is on a channel of its own, which hears the other.  *)
AnnounceToAll(t, a) ==
  chan' = [u \in Tab |-> IF alive[u] THEN Append(chan[u], a) ELSE chan[u]]

(* attemptsChan.postMessage: a channel does not hear itself.                *)
Announce(t, a) ==
  chan' = [u \in Tab |-> IF u # t /\ alive[u] THEN Append(chan[u], a) ELSE chan[u]]

(* MUTANT: without the `finally' an attempt the server did not take is not  *)
(* inserted.                                                                *)
InsertIfSubmitted(t, a) ==
  \/ dbq' = IF open[t] THEN Append(dbq, [op |-> "add", tab |-> t, att |-> a]) ELSE dbq
  \/ UNCHANGED dbq

(* insertAttempt: creating a transaction on a closed database throws, which *)
(* only the console gets to know.                                           *)
Insert(t, a) ==
  dbq' = IF open[t] THEN Append(dbq, [op |-> "add", tab |-> t, att |-> a]) ELSE dbq

(* MUTANT: neither update nor updateOngoing drops the ongoing attempt.      *)
HandleKeepsOngoing(a) ==
  LET t == owner[a] IN
  /\ alive[t] /\ stage[a] = "submitting"
  /\ stage' = [stage EXCEPT ![a] = "handled"]
  /\ IF loaded[t] THEN AddAttempt(t, a) ELSE UNCHANGED <<counts, best>>
  /\ last' = [last EXCEPT ![t] = a]
  /\ heard' = IF Loading(t) THEN [heard EXCEPT ![t] = @ \union {a}] ELSE heard
  /\ Announce(t, a) /\ Insert(t, a)
  /\ UNCHANGED <<owner, ongoing, loaded, subscribed, db, snaps, tabVars, loads, raced>>

(* handleAttempt, from the answer or the failure of the request on: the     *)
(* `finally' runs for both, in one task.                                    *)
Handle(a) ==
  LET t == owner[a] IN
  /\ alive[t] /\ stage[a] = "submitting"
  /\ stage' = [stage EXCEPT ![a] = "handled"]
  /\ Update(t, a) /\ Announce(t, a) /\ Insert(t, a)
  /\ UNCHANGED <<owner, loaded, subscribed, db, snaps, tabVars, loads, raced>>

(* MUTANT: a tab inserts what it hears of.                                  *)
ReceiveStores(t) ==
  /\ alive[t] /\ chan[t] # <<>>
  /\ Update(t, Head(chan[t])) /\ Insert(t, Head(chan[t]))
  /\ chan' = [chan EXCEPT ![t] = Tail(@)]
  /\ UNCHANGED <<stage, owner, loaded, subscribed, db, snaps, tabVars, loads, raced>>

(* The BroadcastChannel's message listener.                                 *)
Receive(t) ==
  /\ alive[t] /\ chan[t] # <<>>
  /\ Update(t, Head(chan[t]))
  /\ chan' = [chan EXCEPT ![t] = Tail(@)]
  /\ UNCHANGED <<stage, owner, loaded, subscribed, dbVars, tabVars, loads, raced>>

-----------------------------------------------------------------------------
(* The first component to subscribe (the menu button, or the statistics in  *)
(* an open menu) starts the store: retrieveAttempts creates a transaction.  *)
Subscribe(t) ==
  /\ alive[t] /\ ~subscribed[t] /\ loads < MaxLoads
  /\ subscribed' = [subscribed EXCEPT ![t] = TRUE]
  /\ loads' = loads + 1
  /\ IF open[t]
     THEN /\ dbq' = Append(dbq, [op |-> "read", tab |-> t, att |-> None])
          /\ heard' = IF Loading(t) THEN heard ELSE [heard EXCEPT ![t] = {}]
     ELSE UNCHANGED <<dbq, heard>>
  /\ UNCHANGED <<stage, owner, storeVars, db, snaps, chan, tabVars, raced>>

Unsubscribe(t) ==
  /\ alive[t] /\ subscribed[t]
  /\ subscribed' = [subscribed EXCEPT ![t] = FALSE]
  /\ UNCHANGED <<stage, owner, storeVars, dbVars, chan, tabVars, loads, heard, raced>>

(* IndexedDB runs transactions on one store in the order of their creation, *)
(* whichever tab created them; those of a tab that was closed are aborted.   *)
Transact ==
  /\ dbq # <<>>
  /\ dbq' = Tail(dbq)
  /\ LET tx == Head(dbq) IN
     IF ~alive[tx.tab] THEN UNCHANGED <<db, snaps>>
     ELSE IF tx.op = "add" THEN db' = Append(db, tx.att) /\ UNCHANGED snaps
     ELSE snaps' = [snaps EXCEPT ![tx.tab] = Append(@, db)] /\ UNCHANGED db
  /\ UNCHANGED <<stage, owner, storeVars, subscribed, chan, tabVars, loads, heard, raced>>

(* MUTANT: loaded attempts are added to those the store has.                *)
SetLoadedAdds(t) ==
  /\ alive[t] /\ snaps[t] # <<>>
  /\ LET read == Head(snaps[t]) IN
     /\ counts' = [counts EXCEPT ![t] = [a \in Attempt |->
                     @[a] + IF a \in ToSet(read) THEN 1 ELSE 0]]
     /\ best' = [best EXCEPT ![t] = FoldLeft(Fastest, None, read)]
     /\ last' = [last EXCEPT ![t] = IF read = <<>> THEN None ELSE Last(read)]
     /\ raced' = [raced EXCEPT ![t] = \/ heard[t] \ ToSet(read) # {}
                                      \/ ToSet(chan[t]) \intersect ToSet(read) # {}]
  /\ ongoing' = [ongoing EXCEPT ![t] = None]
  /\ loaded' = [loaded EXCEPT ![t] = TRUE]
  /\ snaps' = [snaps EXCEPT ![t] = Tail(@)]
  /\ heard' = IF Len(snaps[t]) = 1 /\ ~Reading(t) THEN [heard EXCEPT ![t] = {}] ELSE heard
  /\ UNCHANGED <<stage, owner, subscribed, dbq, db, chan, tabVars, loads>>

(* The loader's promise: the store is set to what was read, and to nothing  *)
(* else.                                                                    *)
SetLoaded(t) ==
  /\ alive[t] /\ snaps[t] # <<>>
  /\ LET read == Head(snaps[t]) IN
     /\ counts' = [counts EXCEPT ![t] = [a \in Attempt |-> IF a \in ToSet(read) THEN 1 ELSE 0]]
     /\ best' = [best EXCEPT ![t] = FoldLeft(Fastest, None, read)]
     /\ last' = [last EXCEPT ![t] = IF read = <<>> THEN None ELSE Last(read)]
     /\ raced' = [raced EXCEPT ![t] = \/ heard[t] \ ToSet(read) # {}
                                      \/ ToSet(chan[t]) \intersect ToSet(read) # {}]
  /\ ongoing' = [ongoing EXCEPT ![t] = None]
  /\ loaded' = [loaded EXCEPT ![t] = TRUE]
  /\ snaps' = [snaps EXCEPT ![t] = Tail(@)]
  /\ heard' = IF Len(snaps[t]) = 1 /\ ~Reading(t) THEN [heard EXCEPT ![t] = {}] ELSE heard
  /\ UNCHANGED <<stage, owner, subscribed, dbq, db, chan, tabVars, loads>>

(* The versionchange handler closes the connection; what was created runs.  *)
CloseConnection(t) ==
  /\ alive[t] /\ open[t] /\ Cardinality(Lost) < MaxLosses
  /\ open' = [open EXCEPT ![t] = FALSE]
  /\ UNCHANGED <<stage, owner, storeVars, subscribed, dbVars, chan, alive, loads, heard, raced>>

(* The player closes a tab, whatever it is waiting for.                      *)
CloseTab(t) ==
  /\ alive[t] /\ Cardinality(Lost \ {t}) < MaxLosses
  /\ alive' = [alive EXCEPT ![t] = FALSE]
  /\ chan' = [chan EXCEPT ![t] = <<>>]
  /\ snaps' = [snaps EXCEPT ![t] = <<>>]
  /\ UNCHANGED <<stage, owner, storeVars, subscribed, dbq, db, open, loads, heard, raced>>

Next ==
  \/ \E a \in Attempt : Start(a) \/ Resume(a) \/ Abandon(a) \/ End(a) \/ Handle(a)
  \/ \E t \in Tab : Receive(t) \/ Subscribe(t) \/ Unsubscribe(t) \/ SetLoaded(t)
                    \/ CloseConnection(t) \/ CloseTab(t)
  \/ Transact

\* requests are answered or fail, the database and the channel make progress
Fairness ==
  /\ \A a \in Attempt : WF_vars(Handle(a))
  /\ \A t \in Tab : WF_vars(Receive(t)) /\ WF_vars(SetLoaded(t))
  /\ WF_vars(Transact)

Spec == Init /\ [][Next]_vars /\ Fairness

-----------------------------------------------------------------------------
(* PROPERTIES *)

TypeOK ==
  /\ stage \in [Attempt -> Stage]
  /\ owner \in [Attempt -> Tab]
  /\ {best, last, ongoing} \subseteq [Tab -> Attempt \union {None}]
  /\ counts \in [Tab -> [Attempt -> 0 .. 2]]
  /\ {loaded, subscribed, open, alive, raced} \subseteq [Tab -> BOOLEAN]
  /\ dbq \in Seq(Transaction) /\ db \in Seq(Attempt)
  /\ snaps \in [Tab -> Seq(Seq(Attempt))]
  /\ chan \in [Tab -> Seq(Attempt)]
  /\ loads \in 0 .. MaxLoads
  /\ heard \in [Tab -> SUBSET Attempt]

(* Nothing is on its way to tab t or to the database.                       *)
Quiet(t) == alive[t] /\ ~Loading(t) /\ chan[t] = <<>> /\ dbq = <<>>

(* t counts an attempt once if it is stored and not at all if it is not:    *)
(* whatever a tab lost that was closed, or could not store.                 *)
Exact(t) ==
  \A a \in Attempt : owner[a] \notin Lost =>
    counts[t][a] = IF a \in ToSet(db) THEN 1 ELSE 0

(* The win t shows as the fastest is one it counts and none it counts beats. *)
ShowsFastest(t) ==
  LET wins == {a \in Attempt : counts[t][a] > 0 /\ Duration[a] > 0} IN
  IF wins = {} THEN best[t] = None
  ELSE best[t] \in wins /\ \A a \in wins : Duration[best[t]] <= Duration[a]

(* A tab that shows statistics shows every stored attempt once and nothing  *)
(* else, with the fastest win of those it counts whatever the order it was  *)
(* told of them in (addAttemptToStatistics, menu/context.ts), unless a load *)
(* crossed an update: an attempt it did not read was handled before it was  *)
(* set, or one that it did read was still to be heard of.  There is         *)
(* no third way to go wrong.                                                *)
StatisticsExact ==
  \A t \in Tab : /\ Quiet(t) /\ loaded[t] /\ ~raced[t] => Exact(t)
                 /\ ShowsFastest(t)

(* handleAttempt counts an attempt before it inserts it, so that a tab never *)
(* counts its own attempt twice: a load can replace the count, never add.   *)
OwnCountedOnce == \A a \in Attempt : counts[owner[a]][a] <= 1

(* The ongoing attempt the menu button goes by ("Hang tight...") was        *)
(* started by this page and its result is not shown yet, though submissions *)
(* end in any order and other tabs' attempts come in between.               *)
OngoingUnfinished ==
  \A t \in Tab : ongoing[t] # None =>
    owner[ongoing[t]] = t /\ stage[ongoing[t]] \notin {"new", "handled"}

(* An attempt is inserted by one tab, once and only when it was decided     *)
(* (insertAttempt), and what any tab counts is stored or about to be,       *)
(* unless the tab that played it could not.                                 *)
StoredOnce ==
  /\ IsInjective(db)
  /\ \A i \in 1 .. Len(db) : stage[db[i]] = "handled"
  /\ \A t \in Tab, a \in Attempt :
       counts[t][a] > 0 /\ owner[a] \notin Lost =>
         a \in ToSet(db) \/ \E i \in 1 .. Len(dbq) : dbq[i].att = a

(* README, Gameplay: the attempts are stored, whether or not the server     *)
(* took them (the `finally' of handleAttempt), if only the tab stays open   *)
(* and keeps its connection.                                                *)
EveryAttemptStored ==
  \A a \in Attempt : stage[a] = "submitting" ~> (a \in ToSet(db) \/ owner[a] \in Lost)

(* README, Game: "Attention is paid to sync state across concurrently open  *)
(* tabs of the game", which the statistics of menu/context.ts are part of.  *)
TabsInSync ==
  \A t, u \in Tab : Quiet(t) /\ loaded[t] /\ Quiet(u) /\ loaded[u] => counts[t] = counts[u]
=============================================================================
