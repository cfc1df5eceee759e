------------------------------- MODULE Session -------------------------------
(***************************************************************************)
(* The session client, src/src/session.ts: every call of configureSession   *)
(* (one at boot, one after every game) runs loops that refresh the session  *)
(* the browser's tabs share through localStorage, under a Web Lock.  A loop *)
(* is stopped by its abort signal; the handlers of `online', `offline' and  *)
(* `storage' abort and start loops.  Time is what ExpireSession says: a     *)
(* timer set for the stored session rings only once that session is due.    *)
(***************************************************************************)
EXTENDS Integers, Sequences, FiniteSets

CONSTANTS
  Tab,        \* the open pages of one browser
  Call,       \* the numbers of the calls of configureSession
  MaxCall,    \* BOUND: the number of calls in a page
  Copy,       \* BOUND: the loops of one call that run at a time
  MaxMishaps  \* BOUND: how often the network goes down, comes back or refuses

ASSUME SessionAssumption ==
  /\ MaxMishaps \in Nat
  /\ IsFiniteSet(Tab) /\ IsFiniteSet(Call) /\ IsFiniteSet(Copy)
  /\ Call \subseteq Nat /\ Copy \subseteq Nat /\ 1 \in Copy /\ MaxCall \in [Tab -> Nat]

VARIABLES
  at,       \* where each loop stands
  why,      \* signal.reason of each loop; "none": not aborted
  current,  \* the loops whose controller is `abort' of their call
  called,   \* the calls made by each tab
  locks,    \* the session lock: its holder, and who waits behind it
  store,    \* localStorage's session entry
  status,   \* uiStatus of each tab
  net,      \* is there a network?
  inbox,    \* window events a tab has not handled yet
  mishaps,
  failed    \* history: a refresh has failed

vars == <<at, why, current, called, locks, store, status, net, inbox, mishaps, failed>>

Loop == {l \in [tab : Tab, call : Call, copy : Copy] : l.call <= MaxCall[l.tab]}
Of(t, c, k) == [tab |-> t, call |-> c, copy |-> k]
Reason == {"valid", "error", "offline"}

Mishap == mishaps < MaxMishaps /\ mishaps' = mishaps + 1

(* Inside the lock's callback, after it found no session it can use.        *)
Refreshing == {"ask", "answer", "answered"}

Init ==
  /\ at = [l \in Loop |-> "idle"]
  /\ why = [l \in Loop |-> "none"]
  /\ current = {}
  /\ called = [t \in Tab |-> {}]
  /\ locks = <<>>
  /\ store = "none"
  /\ status = [t \in Tab |-> "error"]
  /\ net = TRUE
  /\ inbox = [t \in Tab |-> <<>>]
  /\ mishaps = 0 /\ failed = FALSE

-----------------------------------------------------------------------------
(* abort.abort(reason) of every call of tab t.  A loop that waits with a     *)
(* listener on its signal ends at once, and shows the reason.               *)
Aborted(t) == {l \in current : l.tab = t /\ why[l] = "none"}
Stopped(t) == {l \in Aborted(t) : at[l] \in {"asleep", "ringing"}}
AfterAbort(t, reason) ==
  [status |-> IF Stopped(t) = {} THEN status[t] ELSE reason,
   why |-> [l \in Loop |-> IF l \in Aborted(t) \ Stopped(t) THEN reason
                           ELSE IF l \in Stopped(t) THEN "none" ELSE why[l]],
   at |-> [l \in Loop |-> IF l \in Stopped(t) THEN "idle" ELSE at[l]],
   current |-> current \ Stopped(t)]

(* A new AbortController and a new loop for every call of the tab.          *)
FreshLoops(t, from) ==
  {l \in Loop : /\ l.tab = t /\ l.call \in called[t] /\ from[l] = "idle"
                /\ \A k \in Copy : k < l.copy => from[Of(t, l.call, k)] # "idle"}
Room(t, from) == \A c \in called[t] : \E k \in Copy : from[Of(t, c, k)] = "idle"

(* What starting the loops New of tab t at point p changes.                 *)
StartAt(New, base, p) ==
  /\ at' = [l \in Loop |-> IF l \in New THEN p ELSE base.at[l]]
  /\ why' = base.why
  /\ current' = {l \in base.current : ~\E n \in New : n.tab = l.tab /\ n.call = l.call} \union New
Now == [at |-> at, why |-> why, current |-> current]

(* fetchSession asks for the lock, whose queue is first come, first served.  *)
Orders(S) == {q \in [1 .. Cardinality(S) -> S] : \A x \in S : \E i \in DOMAIN q : q[i] = x}
Enqueue(New) == \E q \in Orders(New) : locks' = locks \o q

(* configureSession: listeners, and a loop when the browser is online.      *)
Configure(t, c) ==
  /\ c <= MaxCall[t] /\ c \notin called[t] /\ \A d \in Call : d < c => d \in called[t]
  /\ called' = [called EXCEPT ![t] = @ \union {c}]
  /\ IF net
     THEN LET New == {Of(t, c, 1)} IN
          /\ StartAt(New, Now, "queue") /\ Enqueue(New)
          /\ status' = [status EXCEPT ![t] = "pending"]
     ELSE /\ status' = [status EXCEPT ![t] = "offline"]
          /\ UNCHANGED <<at, why, current, locks>>
  /\ UNCHANGED <<store, net, inbox, mishaps, failed>>

Event(t, kind) == inbox[t] # <<>> /\ Head(inbox[t]) = kind
Handled(t) == inbox' = [inbox EXCEPT ![t] = Tail(@)]

(* MUTANT: only a page that shows `offline' starts again.                   *)
OnlineIfShown(t) ==
  /\ Event(t, "online") /\ Handled(t) /\ Room(t, at)
  /\ LET New == IF status[t] = "offline" THEN FreshLoops(t, at) ELSE {} IN
     /\ StartAt(New, Now, "queue") /\ Enqueue(New)
     /\ status' = IF New = {} THEN status ELSE [status EXCEPT ![t] = "pending"]
  /\ UNCHANGED <<called, store, net, mishaps, failed>>

(* The controller of before is replaced, not aborted.                       *)
Online(t) ==
  /\ Event(t, "online") /\ Handled(t) /\ Room(t, at)
  /\ LET New == FreshLoops(t, at) IN
     /\ StartAt(New, Now, "queue") /\ Enqueue(New)
     /\ status' = IF New = {} THEN status ELSE [status EXCEPT ![t] = "pending"]
  /\ UNCHANGED <<called, store, net, mishaps, failed>>

Abort(t, reason) ==
  LET after == AfterAbort(t, reason) IN
  /\ at' = after.at /\ why' = after.why /\ current' = after.current
  /\ status' = [status EXCEPT ![t] = after.status]
  /\ UNCHANGED <<called, locks, store, net, mishaps, failed>>

Offline(t) == Event(t, "offline") /\ Handled(t) /\ Abort(t, "offline")

StorageError(t) == Event(t, "stored error") /\ Handled(t) /\ Abort(t, "error")

(* Another tab refreshed the session: a new loop that begins with a wait.   *)
StorageValid(t) ==
  LET after == AfterAbort(t, "valid")
      New == FreshLoops(t, after.at)
  IN
  /\ Event(t, "stored") /\ Handled(t) /\ Room(t, after.at)
  /\ StartAt(New, after, IF store = "fresh" THEN "asleep" ELSE "ringing")
  /\ status' = [status EXCEPT ![t] = after.status]
  /\ UNCHANGED <<called, locks, store, net, mishaps, failed>>

-----------------------------------------------------------------------------
(* The end of loop(): the status of a loop that was aborted is its reason.   *)
Shown(l) == IF why[l] = "none" THEN "error" ELSE why[l]
EndLoop(l) ==
  /\ at' = [at EXCEPT ![l] = "idle"] /\ why' = [why EXCEPT ![l] = "none"]
  /\ current' = current \ {l}
  /\ status' = [status EXCEPT ![l.tab] = Shown(l)]
Tell(l, kind) ==
  inbox' = [t \in Tab |-> IF t # l.tab /\ called[t] # {} THEN Append(inbox[t], kind)
                          ELSE inbox[t]]

(* A timer rings.  wait() listened to the signal unless it was aborted       *)
(* before; then the loop notices only now.                                  *)
Wake(l) ==
  /\ at[l] = "ringing"
  /\ IF why[l] = "none"
     THEN /\ at' = [at EXCEPT ![l] = "queue"] /\ Enqueue({l})
          /\ status' = [status EXCEPT ![l.tab] = "pending"]
          /\ UNCHANGED <<why, current>>
     ELSE EndLoop(l) /\ UNCHANGED locks
  /\ UNCHANGED <<called, store, net, inbox, mishaps, failed>>

(* MUTANT: the lock is not exclusive.                                       *)
MayEnterShared(l) == TRUE
(* The callback runs when the lock is granted.                              *)
MayEnter(l) == Head(locks) = l

Leave == locks' = Tail(locks)

(* The stored session is good for a while yet: wait for what is left of it.  *)
EnterFresh(l) ==
  /\ at[l] = "queue" /\ MayEnter(l) /\ store = "fresh"
  /\ at' = [at EXCEPT ![l] = "asleep"] /\ Leave
  /\ status' = [status EXCEPT ![l.tab] = "valid"]
  /\ UNCHANGED <<why, current, called, store, net, inbox, mishaps, failed>>

(* No entry, one that is due, or an error, which is as good as none.        *)
EnterStale(l) ==
  /\ at[l] = "queue" /\ MayEnter(l) /\ store # "fresh"
  /\ at' = [at EXCEPT ![l] = "ask"]
  /\ UNCHANGED <<why, current, called, locks, store, status, net, inbox, mishaps, failed>>

(* POST /session answered with a challenge; solving it, and posting the      *)
(* solution, is one more phase.                                             *)
Progress(l, from, to) ==
  /\ at[l] = from /\ why[l] = "none"
  /\ at' = [at EXCEPT ![l] = to]
  /\ UNCHANGED <<why, current, called, locks, store, status, net, inbox, mishaps, failed>>
Challenged(l) == net /\ Progress(l, "ask", "answer")

(* The server sends a session, for a solution or to a client it exempts; it  *)
(* is read and stored in a later task, when the network may be gone.        *)
Answered(l) == net /\ \E p \in {"ask", "answer"} : Progress(l, p, "answered")
Refreshed(l) ==
  /\ at[l] = "answered" /\ why[l] = "none"
  /\ store' = "fresh" /\ Tell(l, "stored") /\ Leave
  /\ at' = [at EXCEPT ![l] = "asleep"]
  /\ status' = [status EXCEPT ![l.tab] = "valid"]
  /\ UNCHANGED <<why, current, called, net, mishaps, failed>>

(* The catch block of fetchSession, and of the loop.                        *)
GiveUp(l) == EndLoop(l) /\ UNCHANGED <<called, net>>

(* Four attempts without network, or an answer that refuses; a solution      *)
(* that came too late for its challenge.                                    *)
(* MUTANT: the callback's promise never settles.                            *)
FailedHoldsLock(l) ==
  /\ at[l] \in Refreshing \ {"answered"} /\ why[l] = "none"
  /\ IF net THEN Mishap ELSE UNCHANGED mishaps
  /\ store' = "error" /\ failed' = TRUE /\ Tell(l, "stored error")
  /\ GiveUp(l) /\ UNCHANGED locks
Failed(l) ==
  /\ at[l] \in Refreshing \ {"answered"} /\ why[l] = "none"
  /\ IF net THEN Mishap ELSE UNCHANGED mishaps
  /\ store' = "error" /\ failed' = TRUE /\ Tell(l, "stored error")
  /\ GiveUp(l) /\ Leave

(* Requests, back-off and the solver reject once the signal is aborted.  The *)
(* entry stays.                                                             *)
Interrupted(l) ==
  /\ at[l] \in Refreshing /\ why[l] # "none"
  /\ GiveUp(l) /\ Leave
  /\ UNCHANGED <<store, inbox, mishaps, failed>>

-----------------------------------------------------------------------------
(* The environment.                                                         *)
ExpireSession ==
  /\ store = "fresh" /\ store' = "due" /\ \A t \in Tab : inbox[t] = <<>>
  /\ at' = [l \in Loop |-> IF at[l] = "asleep" THEN "ringing" ELSE at[l]]
  /\ UNCHANGED <<why, current, called, locks, status, net, inbox, mishaps, failed>>

Flip ==
  /\ Mishap
  /\ net' = ~net
  /\ inbox' = [t \in Tab |-> IF called[t] = {} THEN inbox[t]
                             ELSE Append(inbox[t], IF net THEN "offline" ELSE "online")]
  /\ UNCHANGED <<at, why, current, called, locks, store, status, failed>>

Handler(t) == Online(t) \/ Offline(t) \/ StorageError(t) \/ StorageValid(t)
Step(l) ==
  \/ Wake(l) \/ EnterFresh(l) \/ EnterStale(l) \/ Challenged(l) \/ Answered(l)
  \/ Refreshed(l) \/ Failed(l) \/ Interrupted(l)
System ==
  \/ \E t \in Tab : Handler(t)
  \/ \E l \in Loop : Step(l)
  \/ ExpireSession
Next ==
  \/ \E t \in Tab, c \in Call : Configure(t, c)
  \/ System
  \/ Flip

(* Tasks, requests and timers come to their end one after the other, in any  *)
(* order; nothing makes the network come back, or a player end a game.       *)
Fairness == WF_vars(System)
Spec == Init /\ [][Next]_vars /\ Fairness
-----------------------------------------------------------------------------
SessionTypeOK ==
  /\ at \in [Loop -> {"idle", "asleep", "ringing", "queue"} \union Refreshing]
  /\ why \in [Loop -> Reason \union {"none"}]
  /\ current \in SUBSET Loop
  /\ called \in [Tab -> SUBSET Call]
  /\ locks \in Seq(Loop)
  /\ store \in {"none", "fresh", "due", "error"}
  /\ status \in [Tab -> Reason \union {"pending"}]
  /\ net \in BOOLEAN /\ failed \in BOOLEAN
  /\ inbox \in [Tab -> Seq({"online", "offline", "stored", "stored error"})]
  /\ mishaps \in 0 .. MaxMishaps

(* Nobody asks the server for a session while a good one is stored, whatever *)
(* tabs and calls wake together, are aborted or come back online: the lock   *)
(* is held from reading the entry to writing it (session.ts:94-154).        *)
NoNeedlessRefresh ==
  \A l \in Loop : at[l] \in Refreshing => store # "fresh"

(* As long as no refresh failed, every call of every page that has handled   *)
(* its events has a loop that still listens to its signal: no order of going *)
(* offline and online and of other tabs' refreshes ends the last one         *)
(* (session.ts:45-71).                                                      *)
NobodyForgotten ==
  net /\ ~failed =>
    \A t \in Tab : inbox[t] = <<>> =>
      \A c \in called[t] : \E k \in Copy :
        at[Of(t, c, k)] # "idle" /\ why[Of(t, c, k)] = "none"

(* A page does not show `pending' for ever: the lock is passed on by loops   *)
(* that fail, are aborted or find a good session (session.ts:19-42,94-175). *)
Settles == \A t \in Tab : status[t] = "pending" ~> status[t] # "pending"

(* session.ts:164 "Keep previous localStorage entry if offline": a loop of a *)
(* page that knows it is offline does not write an error.                   *)
OfflineKeepsEntry ==
  [][\A l \in Loop : Failed(l) =>
       net \/ \E i \in DOMAIN inbox[l.tab] : inbox[l.tab][i] = "offline"]_vars
=============================================================================
