---------------------------- MODULE SessionProofs ---------------------------
(***************************************************************************)
(* Proofs about Session, for any pages, calls, loops and mishaps: whoever    *)
(* asks the server for a session holds the lock, and has looked at the entry *)
(* since it does; and no call is left without a loop that listens, unless it *)
(* will hear that its page is online.                                       *)
(***************************************************************************)
EXTENDS Session, FiniteSetTheorems, SequenceTheorems,
        WellFoundedInduction, TLAPS

Waiting == {"queue"} \union Refreshing
Place == {"idle", "asleep", "ringing", "queue"} \union Refreshing

(* Everyone who asked for the lock stands in its queue; who was let in is    *)
(* its head, and found no session to use.                                   *)
LockInv ==
  /\ locks \in Seq(Loop)
  /\ at \in [Loop -> Place]
  /\ \A l \in Loop : at[l] \in Waiting => \E i \in 1 .. Len(locks) : locks[i] = l
  /\ \A l \in Loop : at[l] \in Refreshing => Head(locks) = l /\ store # "fresh"

-----------------------------------------------------------------------------
(* A queue of loops is finite, as pages, calls and copies are.              *)
LEMMA LoopFinite == IsFiniteSet(Loop)
<1> DEFINE D == (Tab \X Call) \X Copy
           L == [tab : Tab, call : Call, copy : Copy]
           f == [p \in D |-> Of(p[1][1], p[1][2], p[2])]
<1>1. IsFiniteSet(D)
  <2>1. IsFiniteSet(Tab \X Call)
    BY SessionAssumption, FS_Product DEF SessionAssumption
  <2>. QED  BY <2>1, SessionAssumption, FS_Product DEF SessionAssumption
<1>2. f \in Surjection(D, L)
  <2>1. f \in [D -> L]
    BY DEF Of
  <2>2. ASSUME NEW l \in L PROVE \E p \in D : f[p] = l
    <3>1. <<<<l.tab, l.call>>, l.copy>> \in D
      OBVIOUS
    <3>2. f[<<<<l.tab, l.call>>, l.copy>>] = l
      BY <3>1 DEF Of
    <3>. QED  BY <3>1, <3>2
  <2>. QED  BY <2>1, <2>2 DEF Surjection
<1>3. IsFiniteSet(L)
  BY <1>1, <1>2, FS_Surjection
<1>4. Loop \in SUBSET L
  BY DEF Loop
<1>. QED  BY <1>3, <1>4, FS_Subset

(* Who asks for the lock comes after those who wait already.                *)
LEMMA EnqueueFacts ==
  ASSUME locks \in Seq(Loop), NEW New \in SUBSET Loop, Enqueue(New)
  PROVE  /\ locks' \in Seq(Loop)
         /\ Len(locks) <= Len(locks')
         /\ \A i \in 1 .. Len(locks) : locks'[i] = locks[i]
         /\ \A l \in New : \E i \in 1 .. Len(locks') : locks'[i] = l
<1>1. PICK q \in Orders(New) : locks' = locks \o q
  BY DEF Enqueue
<1>2. Cardinality(New) \in Nat
  BY LoopFinite, FS_Subset, FS_CardinalityType
<1>3. /\ q \in [1 .. Cardinality(New) -> New]
      /\ \A x \in New : \E i \in DOMAIN q : q[i] = x
  BY DEF Orders
<1>4. q \in Seq(Loop) /\ Len(q) = Cardinality(New)
  BY <1>2, <1>3
<1>5. /\ locks' \in Seq(Loop)
      /\ Len(locks') = Len(locks) + Len(q)
      /\ \A i \in 1 .. Len(locks) + Len(q) :
           locks'[i] = IF i <= Len(locks) THEN locks[i] ELSE q[i - Len(locks)]
  BY <1>1, <1>4, ConcatProperties
<1>6. Len(locks) \in Nat /\ Len(q) \in Nat
  BY <1>4
<1>7. ASSUME NEW l \in New PROVE \E i \in 1 .. Len(locks') : locks'[i] = l
  <2>1. PICK j \in 1 .. Len(q) : q[j] = l
    BY <1>2, <1>3, <1>4
  <2>2. Len(locks) + j \in 1 .. Len(locks) + Len(q)
    BY <1>6
  <2>3. locks'[Len(locks) + j] = q[j]
    BY <1>5, <1>6, <2>2
  <2>. QED  BY <1>5, <2>1, <2>2, <2>3
<1>. QED  BY <1>5, <1>6, <1>7

(* Loops may stop and others ask for the lock, as long as nobody enters.    *)
LEMMA AskingKeeps ==
  ASSUME LockInv, NEW New \in SUBSET Loop, Enqueue(New),
         at' \in [Loop -> Place], store' = store,
         \A l \in Loop : at'[l] \in Waiting => l \in New \/ at'[l] = at[l],
         \A l \in New : at'[l] \notin Refreshing
  PROVE  LockInv'
<1>1. /\ locks' \in Seq(Loop)
      /\ Len(locks) <= Len(locks')
      /\ \A i \in 1 .. Len(locks) : locks'[i] = locks[i]
      /\ \A l \in New : \E i \in 1 .. Len(locks') : locks'[i] = l
  BY EnqueueFacts DEF LockInv
<1>2. Len(locks) \in Nat /\ Len(locks') \in Nat
  BY <1>1 DEF LockInv
<1>3. ASSUME NEW l \in Loop, at'[l] \in Waiting
      PROVE  \E i \in 1 .. Len(locks') : locks'[i] = l
  <2>1. CASE l \in New
    BY <1>1, <2>1
  <2>2. CASE at'[l] = at[l]
    <3>1. PICK i \in 1 .. Len(locks) : locks[i] = l
      BY <1>3, <2>2 DEF LockInv
    <3>. QED  BY <1>1, <1>2, <3>1
  <2>. QED  BY <1>3, <2>1, <2>2
<1>4. ASSUME NEW l \in Loop, at'[l] \in Refreshing
      PROVE  Head(locks') = l /\ store' # "fresh"
  <2>1. at[l] = at'[l] /\ at[l] \in Waiting
    BY <1>4 DEF Waiting
  <2>2. Head(locks) = l /\ store # "fresh"
    BY <1>4, <2>1 DEF LockInv
  <2>3. 1 \in 1 .. Len(locks)
    BY <1>2, <2>1 DEF LockInv
  <2>4. Head(locks') = locks'[1] /\ Head(locks) = locks[1]
    BY <1>1, <1>2, <2>3 DEF LockInv
  <2>. QED  BY <1>1, <2>2, <2>3, <2>4
<1>. QED  BY <1>1, <1>3, <1>4 DEF LockInv

(* The same when nobody asks.                                               *)
LEMMA StoppingKeeps ==
  ASSUME LockInv, at' \in [Loop -> Place], locks' = locks, store' = store,
         \A l \in Loop : at'[l] \in Waiting => at'[l] = at[l]
  PROVE  LockInv'
BY DEF LockInv, Waiting

(* Its holder passes the lock on, and leaves.                               *)
LEMMA LeavingKeeps ==
  ASSUME LockInv, NEW l \in Loop, at[l] \in Waiting, Head(locks) = l, Leave,
         NEW p \in Place \ Waiting, at' = [at EXCEPT ![l] = p]
  PROVE  LockInv'
<1>1. locks # <<>> /\ Len(locks) \in Nat
  BY DEF LockInv
<1>2. /\ locks' \in Seq(Loop) /\ Len(locks') = Len(locks) - 1
      /\ \A i \in 1 .. Len(locks') : locks'[i] = locks[i + 1]
  BY <1>1, HeadTailProperties DEF LockInv, Leave
<1>3. locks[1] = l
  BY <1>1 DEF LockInv
<1>4. at' \in [Loop -> Place]
  BY DEF LockInv
<1>5. ASSUME NEW m \in Loop, at'[m] \in Waiting
      PROVE  m # l /\ \E i \in 1 .. Len(locks') : locks'[i] = m
  <2>1. m # l /\ at'[m] = at[m]
    BY <1>5 DEF LockInv
  <2>2. PICK i \in 1 .. Len(locks) : locks[i] = m
    BY <1>5, <2>1 DEF LockInv
  <2>3. i # 1 /\ i - 1 \in 1 .. Len(locks')
    BY <1>1, <1>2, <1>3, <2>1, <2>2
  <2>4. locks'[i - 1] = m
    BY <1>2, <2>2, <2>3
  <2>. QED  BY <2>1, <2>3, <2>4
<1>6. ASSUME NEW m \in Loop PROVE at'[m] \notin Refreshing
  <2>1. CASE m = l
    BY <2>1 DEF LockInv, Waiting
  <2>2. CASE m # l
    BY <2>2 DEF LockInv
  <2>. QED  BY <2>1, <2>2
<1>. QED  BY <1>2, <1>4, <1>5, <1>6 DEF LockInv

-----------------------------------------------------------------------------
(* Nobody waits at the beginning.                                           *)
LEMMA InitLocks == Init => LockInv
BY DEF Init, LockInv, Place, Waiting, Refreshing

(* Abort and the loops it ends.                                             *)
LEMMA AfterAbortFacts ==
  ASSUME LockInv, NEW t, NEW reason
  PROVE  /\ AfterAbort(t, reason).at \in [Loop -> Place]
         /\ \A l \in Loop : AfterAbort(t, reason).at[l] # "idle" =>
              AfterAbort(t, reason).at[l] = at[l]
BY DEF AfterAbort, LockInv, Place

(* What starting loops does to those there are.                             *)
LEMMA StartFacts ==
  ASSUME NEW New \in SUBSET Loop, NEW base, base.at \in [Loop -> Place], NEW p \in Place,
         StartAt(New, base, p)
  PROVE  /\ at' \in [Loop -> Place]
         /\ \A l \in Loop : at'[l] = IF l \in New THEN p ELSE base.at[l]
BY DEF StartAt

(* A call of configureSession starts a loop, or none.                       *)
LEMMA ConfigureKeeps ==
  ASSUME LockInv, NEW t \in Tab, NEW c \in Call, Configure(t, c)
  PROVE  LockInv'
<1> DEFINE New == {Of(t, c, 1)}
<1>1. CASE net
  <2>1. StartAt(New, Now, "queue") /\ Enqueue(New) /\ store' = store
    BY <1>1 DEF Configure
  <2>2. New \in SUBSET Loop
    BY SessionAssumption DEF SessionAssumption, Configure, Loop, Of
  <2>3. Now.at = at /\ at \in [Loop -> Place] /\ "queue" \in Place
    BY DEF Now, LockInv, Place
  <2> HIDE DEF New
  <2>4. at' \in [Loop -> Place] /\ \A l \in Loop : at'[l] = IF l \in New THEN "queue" ELSE at[l]
    BY <2>1, <2>2, <2>3, StartFacts
  <2>5. \A l \in New : at'[l] \notin Refreshing
    BY <2>2, <2>4 DEF Refreshing
  <2>. QED  BY <2>1, <2>2, <2>4, <2>5, AskingKeeps
<1>2. CASE ~net
  BY <1>2, StoppingKeeps DEF Configure, LockInv
<1>. QED  BY <1>1, <1>2

(* The listeners of a page.                                                 *)
LEMMA HandlerKeeps ==
  ASSUME LockInv, NEW t \in Tab, Handler(t)
  PROVE  LockInv'
<1>1. CASE Online(t)
  <2> DEFINE New == FreshLoops(t, at)
  <2>1. StartAt(New, Now, "queue") /\ Enqueue(New) /\ store' = store
    BY <1>1 DEF Online
  <2>2. New \in SUBSET Loop
    BY DEF FreshLoops
  <2>3. Now.at = at /\ at \in [Loop -> Place] /\ "queue" \in Place
    BY DEF Now, LockInv, Place
  <2> HIDE DEF New
  <2>4. at' \in [Loop -> Place] /\ \A l \in Loop : at'[l] = IF l \in New THEN "queue" ELSE at[l]
    BY <2>1, <2>2, <2>3, StartFacts
  <2>5. \A l \in New : at'[l] \notin Refreshing
    BY <2>2, <2>4 DEF Refreshing
  <2>. QED  BY <2>1, <2>2, <2>4, <2>5, AskingKeeps
<1>2. ASSUME NEW reason, Abort(t, reason) PROVE LockInv'
  <2>1. at' = AfterAbort(t, reason).at /\ locks' = locks /\ store' = store
    BY <1>2 DEF Abort
  <2>. QED  BY <2>1, AfterAbortFacts, StoppingKeeps DEF Waiting, Refreshing
<1>3. CASE StorageValid(t)
  <2> DEFINE after == AfterAbort(t, "valid")
             New == FreshLoops(t, after.at)
             p == IF store = "fresh" THEN "asleep" ELSE "ringing"
  <2>1. StartAt(New, after, p) /\ locks' = locks /\ store' = store
    BY <1>3 DEF StorageValid
  <2>2. New \in SUBSET Loop
    BY DEF FreshLoops
  <2>3. /\ after.at \in [Loop -> Place]
        /\ \A l \in Loop : after.at[l] # "idle" => after.at[l] = at[l]
    BY AfterAbortFacts
  <2>4. p \in Place /\ p \notin Waiting
    BY DEF Place, Waiting, Refreshing
  <2> HIDE DEF after, New, p
  <2>5. at' \in [Loop -> Place] /\ \A l \in Loop : at'[l] = IF l \in New THEN p ELSE after.at[l]
    BY <2>1, <2>2, <2>3, <2>4, StartFacts
  <2>6. \A l \in Loop : at'[l] \in Waiting => at'[l] = at[l]
    BY <2>3, <2>4, <2>5 DEF Waiting, Refreshing
  <2>. QED  BY <2>1, <2>5, <2>6, StoppingKeeps
<1>. QED  BY <1>1, <1>2, <1>3 DEF Handler, Offline, StorageError

(* The steps of a loop, from timer to timer.                                *)
LEMMA StepKeeps ==
  ASSUME LockInv, NEW l \in Loop, Step(l)
  PROVE  LockInv'
<1>0. at \in [Loop -> Place] /\ "idle" \in Place \ Waiting /\ "asleep" \in Place \ Waiting
  BY DEF LockInv, Place, Waiting, Refreshing
<1>1. CASE Wake(l)
  <2>1. CASE why[l] = "none"
    <3>1. at' = [at EXCEPT ![l] = "queue"] /\ Enqueue({l}) /\ store' = store
      BY <1>1, <2>1 DEF Wake
    <3>2. at' \in [Loop -> Place] /\ at'[l] \notin Refreshing
      BY <1>0, <3>1 DEF Place, Refreshing
    <3>3. \A m \in Loop : m \in {l} \/ at'[m] = at[m]
      BY <1>0, <3>1
    <3>. QED  BY <3>1, <3>2, <3>3, AskingKeeps
  <2>2. CASE why[l] # "none"
    BY <1>0, <1>1, <2>2, StoppingKeeps DEF Wake, EndLoop
  <2>. QED  BY <2>1, <2>2
<1>2. CASE EnterFresh(l)
  BY <1>0, <1>2, LeavingKeeps DEF EnterFresh, MayEnter, Waiting
<1>3. CASE EnterStale(l)
  <2>1. /\ at[l] = "queue" /\ Head(locks) = l /\ store # "fresh"
        /\ at' = [at EXCEPT ![l] = "ask"] /\ locks' = locks /\ store' = store
    BY <1>3 DEF EnterStale, MayEnter
  <2>. QED  BY <2>1 DEF LockInv, Place, Waiting, Refreshing
<1>4. ASSUME NEW from \in Refreshing, NEW to \in Refreshing, Progress(l, from, to)
      PROVE  LockInv'
  <2>1. at[l] = from /\ at' = [at EXCEPT ![l] = to] /\ locks' = locks /\ store' = store
    BY <1>4 DEF Progress
  <2>2. at[l] \in Refreshing /\ at[l] \in Waiting /\ to \in Place
    BY <2>1 DEF Waiting, Place
  <2>. QED  BY <2>1, <2>2 DEF LockInv, Waiting
<1>5. CASE Challenged(l) \/ Answered(l)
  BY <1>4, <1>5 DEF Challenged, Answered, Refreshing
<1>6. ASSUME at[l] \in Refreshing, Leave, NEW p \in Place \ Waiting, at' = [at EXCEPT ![l] = p]
      PROVE  LockInv'
  <2>1. at[l] \in Waiting /\ Head(locks) = l
    BY <1>6 DEF LockInv, Waiting
  <2>. QED  BY <1>6, <2>1, LeavingKeeps
<1>7. CASE Refreshed(l)
  BY <1>0, <1>6, <1>7 DEF Refreshed, Refreshing
<1>8. CASE Failed(l)
  BY <1>0, <1>6, <1>8 DEF Failed, GiveUp, EndLoop
<1>9. CASE Interrupted(l)
  BY <1>0, <1>6, <1>9 DEF Interrupted, GiveUp, EndLoop
<1>. QED  BY <1>1, <1>2, <1>3, <1>5, <1>7, <1>8, <1>9 DEF Step

(* A session that is good has nobody who refreshes it.                      *)
LEMMA ExpireKeeps == LockInv /\ ExpireSession => LockInv'
BY DEF LockInv, ExpireSession, Place, Waiting, Refreshing

(* Whoever asks the server holds the lock and found no session to use, for   *)
(* any pages, calls and mishaps (session.ts:94-154).                        *)
THEOREM LockInvariant == Spec => []LockInv
<1>1. LockInv /\ [Next]_vars => LockInv'
  <2> SUFFICES ASSUME LockInv, [Next]_vars PROVE LockInv'
    OBVIOUS
  <2>1. ASSUME NEW t \in Tab, NEW c \in Call, Configure(t, c) PROVE LockInv'
    BY <2>1, ConfigureKeeps
  <2>2. ASSUME NEW t \in Tab, Handler(t) PROVE LockInv'
    BY <2>2, HandlerKeeps
  <2>3. ASSUME NEW l \in Loop, Step(l) PROVE LockInv'
    BY <2>3, StepKeeps
  <2>4. CASE ExpireSession
    BY <2>4, ExpireKeeps
  <2>5. CASE Flip \/ UNCHANGED vars
    BY <2>5 DEF Flip, vars, LockInv
  <2>. QED  BY <2>1, <2>2, <2>3, <2>4, <2>5 DEF Next, System
<1>. QED  BY <1>1, InitLocks, PTL DEF Spec

(* Nobody asks the server for a session while a good one is stored.         *)
THEOREM RefreshNeeded == Spec => []NoNeedlessRefresh
<1>1. LockInv => NoNeedlessRefresh
  BY DEF LockInv, NoNeedlessRefresh
<1>. QED  BY <1>1, LockInvariant, PTL

-----------------------------------------------------------------------------
(* Every call has a loop that listens, or will hear that the page is online. *)
Kind == {"online", "offline", "stored", "stored error"}
Listens(t, c) == \E k \in Copy : at[Of(t, c, k)] # "idle" /\ why[Of(t, c, k)] = "none"
Hears(t, kind) == \E i \in 1 .. Len(inbox[t]) : inbox[t][i] = kind

(* Only loops of calls that were made run; a loop that has ended is the      *)
(* controller's no more, and is not aborted.                                *)
Fits(a, w, cur) ==
  /\ a \in [Loop -> Place] /\ w \in [Loop -> Reason \union {"none"}]
  /\ cur \in SUBSET Loop
  /\ \A l \in Loop : a[l] = "idle" => w[l] = "none" /\ l \notin cur
  /\ \A l \in Loop : a[l] # "idle" => l.call \in called[l.tab]
LoopsFit ==
  /\ Fits(at, why, current)
  /\ called \in [Tab -> SUBSET Call]
  /\ \A t \in Tab : \A c \in called[t] : c <= MaxCall[t]

(* What is on its way to a page: the last news of a network that is there    *)
(* is that it is, and nobody tells of an error before a refresh failed.     *)
InboxTells ==
  /\ inbox \in [Tab -> Seq(Kind)]
  /\ net \in BOOLEAN /\ failed \in BOOLEAN
  /\ \A t \in Tab : called[t] = {} => inbox[t] = <<>>
  /\ net => \A t \in Tab : \A i \in 1 .. Len(inbox[t]) :
       inbox[t][i] = "offline" => \E j \in i + 1 .. Len(inbox[t]) : inbox[t][j] = "online"
  /\ ~failed => \A t \in Tab : ~Hears(t, "stored error")

CallsHeard ==
  net /\ ~failed => \A t \in Tab : \A c \in called[t] : Listens(t, c) \/ Hears(t, "online")

HeardInv == LoopsFit /\ InboxTells /\ CallsHeard

-----------------------------------------------------------------------------
(* Numbers have a least one.                                                *)
LEMMA LeastOf ==
  ASSUME NEW S \in SUBSET Nat, S # {}
  PROVE  \E n \in S : \A m \in S : n <= m
<1> DEFINE R == {p \in Nat \X Nat : p[1] < p[2]}
<1>1. IsWellFoundedOn(R, Nat)
  <2>1. OpToRel(<, Nat) = R
    BY DEF OpToRel
  <2>. QED  BY <2>1, NatLessThanWellFounded
<1>2. PICK n \in S : \A m \in S : ~(<<m, n>> \in R)
  <2> HIDE DEF R
  <2>. QED  BY <1>1, WFMin
<1>3. ASSUME NEW m \in S PROVE n <= m
  <2>1. m \in Nat /\ n \in Nat
    OBVIOUS
  <2>2. ~(m < n)
    BY <1>2, <2>1
  <2>. QED  BY <2>1, <2>2
<1>. QED  BY <1>3

(* A call whose loops leave room gets a new one: the first that has ended.   *)
LEMMA FreshLoop ==
  ASSUME NEW from \in [Loop -> Place], NEW t \in Tab, Room(t, from),
         called \in [Tab -> SUBSET Call], NEW c \in called[t], c <= MaxCall[t]
  PROVE  \E k \in Copy : Of(t, c, k) \in FreshLoops(t, from)
<1> DEFINE S == {k \in Copy : from[Of(t, c, k)] = "idle"}
<1>1. S \in SUBSET Nat /\ S # {}
  BY SessionAssumption DEF SessionAssumption, Room
<1>2. PICK k \in S : \A m \in S : k <= m
  BY <1>1, LeastOf
<1>3. \A m \in Copy : m < k => from[Of(t, c, m)] # "idle"
  <2> SUFFICES ASSUME NEW m \in Copy, m < k, m \in S PROVE FALSE
    OBVIOUS
  <2>. QED  BY <1>1, <1>2
<1>4. Of(t, c, k) \in Loop
  BY <1>2 DEF Of, Loop
<1>5. Of(t, c, k) \in FreshLoops(t, from)
  BY <1>2, <1>3, <1>4 DEF FreshLoops, Of
<1>. QED  BY <1>2, <1>5

-----------------------------------------------------------------------------
(* An abort ends the loops that wait with a listener, marks the others, and  *)
(* leaves other pages alone.                                                *)
LEMMA AbortFits ==
  ASSUME LoopsFit, NEW t \in Tab, NEW reason \in Reason, NEW after, after = AfterAbort(t, reason)
  PROVE  /\ Fits(after.at, after.why, after.current)
         /\ \A l \in Loop : l.tab # t => after.at[l] = at[l] /\ after.why[l] = why[l]
<1>1. /\ Aborted(t) \in SUBSET Loop /\ Stopped(t) \in SUBSET Aborted(t)
      /\ \A l \in Aborted(t) : l \in current /\ l.tab = t /\ at[l] # "idle"
  BY DEF Aborted, Stopped, LoopsFit, Fits
<1>2. /\ after.at = [l \in Loop |-> IF l \in Stopped(t) THEN "idle" ELSE at[l]]
      /\ after.why = [l \in Loop |-> IF l \in Aborted(t) \ Stopped(t) THEN reason
                                     ELSE IF l \in Stopped(t) THEN "none" ELSE why[l]]
      /\ after.current = current \ Stopped(t)
  BY DEF AfterAbort
<1>3. after.at \in [Loop -> Place] /\ after.why \in [Loop -> Reason \union {"none"}]
  BY <1>2 DEF LoopsFit, Fits, Place
<1>4. after.current \in SUBSET Loop
  BY <1>2 DEF LoopsFit, Fits
<1>5. ASSUME NEW l \in Loop, after.at[l] = "idle"
      PROVE  after.why[l] = "none" /\ l \notin after.current
  BY <1>1, <1>2, <1>5 DEF LoopsFit, Fits
<1>6. ASSUME NEW l \in Loop, after.at[l] # "idle" PROVE l.call \in called[l.tab]
  BY <1>2, <1>6 DEF LoopsFit, Fits
<1>7. ASSUME NEW l \in Loop, l.tab # t PROVE after.at[l] = at[l] /\ after.why[l] = why[l]
  BY <1>1, <1>2, <1>7
<1>. QED  BY <1>3, <1>4, <1>5, <1>6, <1>7 DEF Fits

(* Loops that start where others have ended listen, and end no other.        *)
LEMMA StartFits ==
  ASSUME NEW base, Fits(base.at, base.why, base.current),
         NEW New \in SUBSET Loop, \A l \in New : base.at[l] = "idle",
         NEW p \in Place \ {"idle"}, StartAt(New, base, p),
         called' \in [Tab -> SUBSET Call], \A t \in Tab : called[t] \subseteq called'[t],
         \A l \in New : l.call \in called'[l.tab]
  PROVE  /\ Fits(at, why, current)'
         /\ \A l \in New : at'[l] # "idle" /\ why'[l] = "none"
         /\ \A l \in Loop : base.at[l] # "idle" /\ base.why[l] = "none" =>
              at'[l] # "idle" /\ why'[l] = "none"
<1>1. /\ at' = [l \in Loop |-> IF l \in New THEN p ELSE base.at[l]]
      /\ why' = base.why
      /\ \A l \in current' : l \in base.current \/ l \in New
  BY DEF StartAt
<1>2. at' \in [Loop -> Place] /\ why' \in [Loop -> Reason \union {"none"}]
  BY <1>1 DEF Fits
<1>3. current' \in SUBSET Loop
  BY <1>1 DEF Fits
<1>4. ASSUME NEW l \in Loop, at'[l] = "idle" PROVE why'[l] = "none" /\ l \notin current'
  BY <1>1, <1>4 DEF Fits
<1>5. ASSUME NEW l \in Loop, at'[l] # "idle" PROVE l.call \in called'[l.tab]
  <2>1. l.tab \in Tab
    BY DEF Loop
  <2>. QED  BY <1>1, <1>5, <2>1 DEF Fits
<1>6. \A l \in New : at'[l] # "idle" /\ why'[l] = "none"
  BY <1>1 DEF Fits
<1>7. ASSUME NEW l \in Loop, base.at[l] # "idle", base.why[l] = "none"
      PROVE  at'[l] # "idle" /\ why'[l] = "none"
  BY <1>1, <1>7
<1>. QED  BY <1>2, <1>3, <1>4, <1>5, <1>6, <1>7 DEF Fits

(* A page that starts a loop for each of its calls listens for all of them.  *)
LEMMA FreshListen ==
  ASSUME LoopsFit, NEW t \in Tab, NEW base, Fits(base.at, base.why, base.current),
         \A l \in Loop : l.tab # t => base.at[l] = at[l] /\ base.why[l] = why[l],
         Room(t, base.at), NEW p \in Place \ {"idle"}, StartAt(FreshLoops(t, base.at), base, p),
         called' = called
  PROVE  /\ LoopsFit'
         /\ \A c \in called[t] : Listens(t, c)'
         /\ \A u \in Tab : \A c \in called[u] : Listens(u, c) => Listens(u, c)'
<1>0. PICK New : New = FreshLoops(t, base.at)
  OBVIOUS
<1>1. New \in SUBSET Loop /\ \A l \in New : base.at[l] = "idle" /\ l.call \in called[l.tab]
  BY <1>0 DEF FreshLoops
<1>2. /\ Fits(at, why, current)'
      /\ \A l \in New : at'[l] # "idle" /\ why'[l] = "none"
      /\ \A l \in Loop : base.at[l] # "idle" /\ base.why[l] = "none" =>
           at'[l] # "idle" /\ why'[l] = "none"
  BY <1>0, <1>1, StartFits DEF LoopsFit
<1>3. LoopsFit'
  BY <1>2 DEF LoopsFit
<1>4. ASSUME NEW c \in called[t] PROVE Listens(t, c)'
  <2>1. PICK k \in Copy : Of(t, c, k) \in New
    BY <1>0, FreshLoop DEF Fits, LoopsFit
  <2>. QED  BY <1>2, <2>1 DEF Listens, Of
<1>5. ASSUME NEW u \in Tab, NEW c \in called[u], Listens(u, c), u # t PROVE Listens(u, c)'
  <2>1. PICK k \in Copy : at[Of(u, c, k)] # "idle" /\ why[Of(u, c, k)] = "none"
    BY <1>5 DEF Listens
  <2>2. Of(u, c, k) \in Loop /\ Of(u, c, k).tab # t
    BY <1>5 DEF Of, Loop, LoopsFit
  <2>3. at'[Of(u, c, k)] # "idle" /\ why'[Of(u, c, k)] = "none"
    BY <1>2, <2>1, <2>2
  <2>. QED  BY <2>3 DEF Listens, Of
<1>. QED  BY <1>3, <1>4, <1>5

(* A loop that ends was not heard any more: it had been aborted; the steps of *)
(* the others leave who listens.                                            *)
LEMMA ListeningKept ==
  ASSUME LoopsFit, called' = called,
         \A l \in Loop : at[l] # "idle" /\ why[l] = "none" => at'[l] # "idle" /\ why'[l] = "none"
  PROVE  \A t \in Tab : \A c \in called[t] : Listens(t, c) => Listens(t, c)'
<1> SUFFICES ASSUME NEW t \in Tab, NEW c \in called[t], Listens(t, c) PROVE Listens(t, c)'
  OBVIOUS
<1>1. PICK k \in Copy : at[Of(t, c, k)] # "idle" /\ why[Of(t, c, k)] = "none"
  BY DEF Listens
<1>2. Of(t, c, k) \in Loop
  BY DEF Of, Loop, LoopsFit
<1>3. at'[Of(t, c, k)] # "idle" /\ why'[Of(t, c, k)] = "none"
  BY <1>1, <1>2
<1>. QED  BY <1>3 DEF Listens, Of

-----------------------------------------------------------------------------
(* Who handles an event has the ones behind it left.                        *)
LEMMA HandledTells ==
  ASSUME InboxTells, NEW t \in Tab, inbox[t] # <<>>, Handled(t),
         net' = net, failed' = failed, called' = called
  PROVE  /\ InboxTells'
         /\ \A u \in Tab : u # t /\ Hears(u, "online") => Hears(u, "online")'
         /\ Head(inbox[t]) # "online" /\ Hears(t, "online") => Hears(t, "online")'
         /\ Head(inbox[t]) = "offline" /\ net => Hears(t, "online")'
         /\ Head(inbox[t]) = "stored error" => failed
<1>1. /\ inbox'[t] \in Seq(Kind) /\ Len(inbox[t]) \in Nat \ {0}
      /\ Len(inbox'[t]) = Len(inbox[t]) - 1 /\ Head(inbox[t]) = inbox[t][1]
      /\ \A i \in 1 .. Len(inbox'[t]) : inbox'[t][i] = inbox[t][i + 1] /\ i + 1 \in 1 .. Len(inbox[t])
      /\ inbox' \in [Tab -> Seq(Kind)]
      /\ \A u \in Tab : u # t => inbox'[u] = inbox[u]
  <2>1. inbox[t] \in Seq(Kind) /\ inbox'[t] = Tail(inbox[t])
    BY DEF InboxTells, Handled
  <2>2. inbox'[t] \in Seq(Kind) /\ Len(inbox'[t]) = Len(inbox[t]) - 1
    BY <2>1, HeadTailProperties
  <2>3. Len(inbox[t]) \in Nat \ {0} /\ Head(inbox[t]) = inbox[t][1]
    BY <2>1
  <2>4. \A i \in 1 .. Len(inbox'[t]) : inbox'[t][i] = inbox[t][i + 1]
    BY <2>1, HeadTailProperties
  <2>5. \A i \in 1 .. Len(inbox'[t]) : i + 1 \in 1 .. Len(inbox[t])
    BY <2>2, <2>3
  <2>6. \A u \in Tab : u # t => inbox'[u] = inbox[u]
    BY DEF InboxTells, Handled
  <2>7. inbox' = [inbox EXCEPT ![t] = inbox'[t]]
    BY <2>1 DEF InboxTells, Handled
  <2>8. inbox' \in [Tab -> Seq(Kind)]
    BY <2>2, <2>7 DEF InboxTells
  <2>. QED  BY <2>2, <2>3, <2>4, <2>5, <2>6, <2>8
<1>2. ASSUME NEW j \in 2 .. Len(inbox[t])
      PROVE  j - 1 \in 1 .. Len(inbox'[t]) /\ inbox'[t][j - 1] = inbox[t][j]
  <2>1. j - 1 \in 1 .. Len(inbox'[t]) /\ (j - 1) + 1 = j
    BY <1>1
  <2>. QED  BY <1>1, <2>1
<1>3. ASSUME net, NEW u \in Tab, NEW i \in 1 .. Len(inbox'[u]), inbox'[u][i] = "offline"
      PROVE  \E j \in i + 1 .. Len(inbox'[u]) : inbox'[u][j] = "online"
  <2>1. CASE u # t
    <3>1. inbox'[u] = inbox[u]
      BY <1>1, <2>1
    <3>2. i \in 1 .. Len(inbox[u]) /\ inbox[u][i] = "offline"
      BY <1>3, <3>1
    <3>3. PICK j \in i + 1 .. Len(inbox[u]) : inbox[u][j] = "online"
      BY <1>3, <3>2 DEF InboxTells
    <3>. QED  BY <3>1, <3>3
  <2>2. CASE u = t
    <3>1. i + 1 \in 1 .. Len(inbox[t]) /\ inbox[t][i + 1] = "offline"
      BY <1>1, <1>3, <2>2
    <3>2. PICK j \in (i + 1) + 1 .. Len(inbox[t]) : inbox[t][j] = "online"
      BY <1>3, <3>1 DEF InboxTells
    <3>3. j \in 2 .. Len(inbox[t]) /\ j - 1 \in i + 1 .. Len(inbox'[t])
      BY <1>1, <2>2, <3>1, <3>2
    <3>. QED  BY <1>2, <2>2, <3>2, <3>3
  <2>. QED  BY <2>1, <2>2
<1>4. ASSUME ~failed, NEW u \in Tab PROVE ~Hears(u, "stored error")'
  <2>1. ~Hears(u, "stored error")
    BY <1>4 DEF InboxTells
  <2>2. CASE u # t
    BY <1>1, <2>1, <2>2 DEF Hears
  <2>3. CASE u = t
    BY <1>1, <2>1, <2>3 DEF Hears
  <2>. QED  BY <2>2, <2>3
<1>a. ASSUME NEW u \in Tab, called[u] = {} PROVE inbox'[u] = <<>>
  <2>1. inbox[u] = <<>> /\ u # t
    BY <1>a DEF InboxTells
  <2>. QED  BY <1>1, <2>1
<1>5. InboxTells'
  BY <1>1, <1>3, <1>4, <1>a DEF InboxTells
<1>6. \A u \in Tab : u # t /\ Hears(u, "online") => Hears(u, "online")'
  BY <1>1 DEF Hears
<1>7. ASSUME Head(inbox[t]) # "online", Hears(t, "online") PROVE Hears(t, "online")'
  <2>1. PICK j \in 1 .. Len(inbox[t]) : inbox[t][j] = "online"
    BY <1>7 DEF Hears
  <2>2. j # 1
    BY <1>1, <1>7, <2>1
  <2>3. j \in 2 .. Len(inbox[t])
    BY <1>1, <2>1, <2>2
  <2>. QED  BY <1>2, <2>1, <2>3 DEF Hears
<1>8. ASSUME Head(inbox[t]) = "offline", net PROVE Hears(t, "online")'
  <2>1. 1 \in 1 .. Len(inbox[t]) /\ inbox[t][1] = "offline"
    BY <1>1, <1>8
  <2>2. PICK j \in 1 + 1 .. Len(inbox[t]) : inbox[t][j] = "online"
    BY <1>8, <2>1 DEF InboxTells
  <2>3. j \in 2 .. Len(inbox[t])
    BY <2>2
  <2>. QED  BY <1>2, <2>2, <2>3 DEF Hears
<1>9. ASSUME Head(inbox[t]) = "stored error" PROVE failed
  <2>1. 1 \in 1 .. Len(inbox[t])
    BY <1>1
  <2>2. inbox[t][1] = "stored error"
    BY <1>1, <1>9
  <2>3. Hears(t, "stored error")
    BY <2>1, <2>2 DEF Hears
  <2>. QED  BY <2>3 DEF InboxTells
<1>. QED  BY <1>5, <1>6, <1>7, <1>8, <1>9

LEMMA Further ==
  ASSUME NEW m \in Nat, NEW n \in Nat, m <= n, NEW i \in 1 .. m, NEW j \in i + 1 .. m
  PROVE  j \in 1 .. m /\ j \in i + 1 .. n
OBVIOUS

(* An event that is sent comes behind those a page has not handled.          *)
LEMMA ToldHears ==
  ASSUME inbox \in [Tab -> Seq(Kind)], NEW S \in SUBSET Tab, NEW kind \in Kind,
         inbox' = [t \in Tab |-> IF t \in S THEN Append(inbox[t], kind) ELSE inbox[t]]
  PROVE  /\ inbox' \in [Tab -> Seq(Kind)]
         /\ \A t \in Tab : {Len(inbox[t]), Len(inbox'[t])} \subseteq Nat /\ Len(inbox[t]) <= Len(inbox'[t])
         /\ \A t \in Tab : \A i \in 1 .. Len(inbox[t]) : inbox'[t][i] = inbox[t][i]
         /\ \A t \in Tab : \A i \in 1 .. Len(inbox'[t]) : i \in 1 .. Len(inbox[t]) \/ inbox'[t][i] = kind
         /\ \A t \in S : Len(inbox'[t]) = Len(inbox[t]) + 1 /\ inbox'[t][Len(inbox'[t])] = kind
         /\ \A t \in Tab : \A k \in Kind : Hears(t, k) => Hears(t, k)'
<1>1. ASSUME NEW t \in Tab
      PROVE  /\ inbox'[t] \in Seq(Kind)
             /\ {Len(inbox[t]), Len(inbox'[t])} \subseteq Nat /\ Len(inbox[t]) <= Len(inbox'[t])
             /\ \A i \in 1 .. Len(inbox[t]) : inbox'[t][i] = inbox[t][i]
             /\ \A i \in 1 .. Len(inbox'[t]) : i \in 1 .. Len(inbox[t]) \/ inbox'[t][i] = kind
             /\ t \in S => Len(inbox'[t]) = Len(inbox[t]) + 1 /\ inbox'[t][Len(inbox'[t])] = kind
  <2>0. inbox[t] \in Seq(Kind) /\ Len(inbox[t]) \in Nat
    OBVIOUS
  <2>1. CASE t \in S
    <3>1. inbox'[t] = Append(inbox[t], kind)
      BY <2>1
    <3>2. /\ inbox'[t] \in Seq(Kind) /\ Len(inbox'[t]) = Len(inbox[t]) + 1
          /\ \A i \in 1 .. Len(inbox[t]) : inbox'[t][i] = inbox[t][i]
          /\ inbox'[t][Len(inbox[t]) + 1] = kind
      BY <2>0, <3>1, AppendProperties
    <3>3. \A i \in 1 .. Len(inbox'[t]) : i \in 1 .. Len(inbox[t]) \/ i = Len(inbox[t]) + 1
      BY <2>0, <3>2
    <3>. QED  BY <2>0, <3>2, <3>3
  <2>2. CASE t \notin S
    BY <2>0, <2>2
  <2>. QED  BY <2>1, <2>2
<1>2. inbox' \in [Tab -> Seq(Kind)]
  BY <1>1
<1>3. ASSUME NEW t \in Tab, NEW k \in Kind, Hears(t, k) PROVE Hears(t, k)'
  <2>1. PICK i \in 1 .. Len(inbox[t]) : inbox[t][i] = k
    BY <1>3 DEF Hears
  <2>2. i \in 1 .. Len(inbox'[t]) /\ inbox'[t][i] = k
    BY <1>1, <2>1
  <2>. QED  BY <2>2 DEF Hears
<1>. QED  BY <1>1, <1>2, <1>3

(* What a page tells the others of its session.                             *)
LEMMA ToldTells ==
  ASSUME InboxTells, NEW l \in Loop, NEW kind \in {"stored", "stored error"}, Tell(l, kind),
         net' = net, called' = called, failed' \in BOOLEAN,
         failed => failed', kind = "stored error" => failed'
  PROVE  InboxTells' /\ \A t \in Tab : Hears(t, "online") => Hears(t, "online")'
<1> DEFINE S == {t \in Tab : t # l.tab /\ called[t] # {}}
<1>1. /\ inbox' \in [Tab -> Seq(Kind)]
      /\ \A t \in Tab : {Len(inbox[t]), Len(inbox'[t])} \subseteq Nat /\ Len(inbox[t]) <= Len(inbox'[t])
      /\ \A t \in Tab : \A i \in 1 .. Len(inbox[t]) : inbox'[t][i] = inbox[t][i]
      /\ \A t \in Tab : \A i \in 1 .. Len(inbox'[t]) : i \in 1 .. Len(inbox[t]) \/ inbox'[t][i] = kind
      /\ \A t \in Tab : \A k \in Kind : Hears(t, k) => Hears(t, k)'
  <2>1. inbox' = [t \in Tab |-> IF t \in S THEN Append(inbox[t], kind) ELSE inbox[t]]
    BY DEF Tell
  <2>2. S \in SUBSET Tab /\ kind \in Kind /\ inbox \in [Tab -> Seq(Kind)]
    BY DEF Kind, InboxTells
  <2> HIDE DEF S
  <2>. QED  BY <2>1, <2>2, ToldHears
<1>2. ASSUME NEW t \in Tab, called[t] = {} PROVE inbox'[t] = <<>>
  BY <1>2 DEF InboxTells, Tell
<1>3. ASSUME net, NEW t \in Tab, NEW i \in 1 .. Len(inbox'[t]), inbox'[t][i] = "offline"
      PROVE  \E j \in i + 1 .. Len(inbox'[t]) : inbox'[t][j] = "online"
  <2>1. i \in 1 .. Len(inbox[t])
    BY <1>1, <1>3
  <2>2. inbox[t][i] = "offline"
    BY <1>1, <1>3, <2>1
  <2>3. PICK j \in i + 1 .. Len(inbox[t]) : inbox[t][j] = "online"
    BY <1>3, <2>1, <2>2 DEF InboxTells
  <2>4. j \in 1 .. Len(inbox[t]) /\ j \in i + 1 .. Len(inbox'[t])
    <3>1. /\ Len(inbox[t]) \in Nat /\ Len(inbox'[t]) \in Nat
          /\ Len(inbox[t]) <= Len(inbox'[t])
      BY <1>1
    <3>. QED  BY <2>1, <2>3, <3>1, Further
  <2>. QED  BY <1>1, <2>3, <2>4
<1>4. ASSUME ~failed', NEW t \in Tab, Hears(t, "stored error")' PROVE FALSE
  <2>1. PICK i \in 1 .. Len(inbox'[t]) : inbox'[t][i] = "stored error"
    BY <1>4 DEF Hears
  <2>2. ~failed /\ kind = "stored"
    BY <1>4
  <2>3. i \in 1 .. Len(inbox[t])
    BY <1>1, <2>1, <2>2
  <2>4. Hears(t, "stored error")
    BY <1>1, <2>1, <2>3 DEF Hears
  <2>. QED  BY <2>2, <2>4 DEF InboxTells
<1>5. InboxTells'
  BY <1>1, <1>2, <1>3, <1>4 DEF InboxTells
<1>. QED  BY <1>1, <1>5 DEF Kind

(* What the browser tells every page when the network goes or comes back.    *)
LEMMA FlipHeard ==
  ASSUME HeardInv, Flip
  PROVE  HeardInv'
<1> DEFINE S == {t \in Tab : called[t] # {}}
           kind == IF net THEN "offline" ELSE "online"
<1>1. /\ inbox' \in [Tab -> Seq(Kind)]
      /\ \A t \in Tab : Len(inbox[t]) \in Nat
      /\ \A t \in Tab : \A i \in 1 .. Len(inbox'[t]) : i \in 1 .. Len(inbox[t]) \/ inbox'[t][i] = kind
      /\ \A t \in S : Len(inbox'[t]) = Len(inbox[t]) + 1 /\ inbox'[t][Len(inbox'[t])] = kind
      /\ \A t \in Tab : \A i \in 1 .. Len(inbox[t]) : inbox'[t][i] = inbox[t][i]
  <2>1. inbox' = [t \in Tab |-> IF t \in S THEN Append(inbox[t], kind) ELSE inbox[t]]
    BY DEF Flip
  <2>2. S \in SUBSET Tab /\ kind \in Kind /\ inbox \in [Tab -> Seq(Kind)]
    BY DEF Kind, HeardInv, InboxTells
  <2> HIDE DEF S, kind
  <2>. QED  BY <2>1, <2>2, ToldHears
<1>2. /\ LoopsFit' /\ called' = called /\ failed' = failed
      /\ net' = ~net /\ net' \in BOOLEAN /\ failed' \in BOOLEAN
  BY DEF Flip, HeardInv, LoopsFit, InboxTells, Fits
<1>3. ASSUME NEW t \in Tab, called[t] = {} PROVE inbox'[t] = <<>>
  BY <1>3 DEF HeardInv, InboxTells, Flip
<1>4. ASSUME net', NEW t \in Tab, called[t] # {}
      PROVE  /\ Len(inbox'[t]) \in 1 .. Len(inbox'[t])
             /\ inbox'[t][Len(inbox'[t])] = "online"
  <2>1. t \in S /\ kind = "online"
    BY <1>2, <1>4
  <2>. QED  BY <1>1, <2>1
<1>5. ASSUME net', NEW t \in Tab, NEW i \in 1 .. Len(inbox'[t]), inbox'[t][i] = "offline"
      PROVE  \E j \in i + 1 .. Len(inbox'[t]) : inbox'[t][j] = "online"
  <2>1. CASE called[t] = {}
    BY <1>3, <1>5, <2>1
  <2>2. CASE called[t] # {}
    <3>1. i # Len(inbox'[t])
      BY <1>4, <1>5, <2>2
    <3>2. Len(inbox'[t]) \in i + 1 .. Len(inbox'[t])
      BY <1>4, <1>5, <2>2, <3>1
    <3>. QED  BY <1>4, <1>5, <2>2, <3>2
  <2>. QED  BY <2>1, <2>2
<1>6. ASSUME ~failed', NEW t \in Tab, Hears(t, "stored error")' PROVE FALSE
  <2>1. PICK i \in 1 .. Len(inbox'[t]) : inbox'[t][i] = "stored error"
    BY <1>6 DEF Hears
  <2>2. i \in 1 .. Len(inbox[t])
    BY <1>1, <2>1
  <2>3. Hears(t, "stored error")
    BY <1>1, <2>1, <2>2 DEF Hears
  <2>. QED  BY <1>2, <1>6, <2>3 DEF HeardInv, InboxTells
<1>7. InboxTells'
  BY <1>1, <1>2, <1>3, <1>5, <1>6 DEF InboxTells
<1>8. CallsHeard'
  <2> SUFFICES ASSUME net', NEW t \in Tab, NEW c \in called[t] PROVE Hears(t, "online")'
    BY <1>2 DEF CallsHeard
  <2>. QED  BY <1>4 DEF Hears
<1>. QED  BY <1>2, <1>7, <1>8 DEF HeardInv

-----------------------------------------------------------------------------
(* Whom nobody hears hears the others' calls still.                         *)
LEMMA HeardKept ==
  ASSUME HeardInv, called' = called, net' /\ ~failed' => net /\ ~failed,
         net /\ ~failed => \A t \in Tab : \A c \in called[t] :
           Listens(t, c) \/ Hears(t, "online") => Listens(t, c)' \/ Hears(t, "online")'
  PROVE  CallsHeard'
BY DEF HeardInv, CallsHeard

(* A call of configureSession begins with a loop, or, offline, without.      *)
LEMMA ConfigureHeard ==
  ASSUME HeardInv, NEW t \in Tab, NEW c \in Call, Configure(t, c)
  PROVE  HeardInv'
<1>1. /\ c <= MaxCall[t] /\ c \notin called[t]
      /\ called' = [called EXCEPT ![t] = @ \union {c}]
      /\ UNCHANGED <<net, inbox, failed>>
  BY DEF Configure
<1>2. /\ called' \in [Tab -> SUBSET Call] /\ \A u \in Tab : called[u] \subseteq called'[u]
      /\ \A u \in Tab : \A d \in called'[u] : d \in called[u] \/ (u = t /\ d = c)
      /\ c \in called'[t]
  BY <1>1 DEF HeardInv, LoopsFit
<1>3. \A u \in Tab : \A d \in called'[u] : d <= MaxCall[u]
  BY <1>1, <1>2 DEF HeardInv, LoopsFit
<1>4. InboxTells'
  <2>1. \A u \in Tab : called'[u] = {} => called[u] = {}
    BY <1>2
  <2>2. \A u \in Tab : Hears(u, "stored error")' <=> Hears(u, "stored error")
    BY <1>1 DEF Hears
  <2>3. /\ inbox' \in [Tab -> Seq(Kind)]
        /\ net' \in BOOLEAN /\ failed' \in BOOLEAN
        /\ \A u \in Tab : called'[u] = {} => inbox'[u] = <<>>
    BY <1>1, <2>1 DEF HeardInv, InboxTells
  <2>4. net' => \A u \in Tab : \A i \in 1 .. Len(inbox'[u]) :
          inbox'[u][i] = "offline" => \E j \in i + 1 .. Len(inbox'[u]) : inbox'[u][j] = "online"
    <3>1. inbox' = inbox /\ (net' => net)
      BY <1>1
    <3>2. net => \A u \in Tab : \A i \in 1 .. Len(inbox[u]) :
            inbox[u][i] = "offline" => \E j \in i + 1 .. Len(inbox[u]) : inbox[u][j] = "online"
      BY DEF HeardInv, InboxTells
    <3>. QED  BY <3>1, <3>2, Zenon
  <2>5. ~failed' => \A u \in Tab : ~Hears(u, "stored error")'
    BY <1>1, <2>2 DEF HeardInv, InboxTells
  <2>. QED  BY <2>3, <2>4, <2>5 DEF InboxTells
<1>5. CASE net
  <2>1. PICK New : New = {Of(t, c, 1)}
    OBVIOUS
  <2>2. /\ New \in SUBSET Loop /\ \A l \in New : l = Of(t, c, 1)
        /\ \A l \in New : l.call \in called'[l.tab]
    BY <1>1, <1>2, <2>1, SessionAssumption DEF SessionAssumption, Loop, Of
  <2>3. \A l \in New : at[l] = "idle"
    BY <1>1, <2>2 DEF Of, HeardInv, LoopsFit, Fits
  <2>4. StartAt(New, Now, "queue")
    BY <1>5, <2>1 DEF Configure
  <2>5. /\ Now.at = at /\ Now.why = why /\ Now.current = current
        /\ "queue" \in Place \ {"idle"}
    BY DEF Now, Place
  <2>6. Fits(Now.at, Now.why, Now.current)
    BY <2>5 DEF HeardInv, LoopsFit
  <2>7. /\ Fits(at, why, current)'
        /\ \A l \in New : at'[l] # "idle" /\ why'[l] = "none"
        /\ \A l \in Loop : at[l] # "idle" /\ why[l] = "none" => at'[l] # "idle" /\ why'[l] = "none"
    BY <1>2, <2>2, <2>3, <2>4, <2>5, <2>6, StartFits
  <2>8. LoopsFit'
    BY <1>2, <1>3, <2>7 DEF LoopsFit
  <2>9. ASSUME ~failed, NEW u \in Tab, NEW d \in called'[u]
        PROVE  Listens(u, d)' \/ Hears(u, "online")'
    <3>1. CASE u = t /\ d = c
      <4>1. Of(u, d, 1) \in New /\ 1 \in Copy
        BY <2>1, <3>1, SessionAssumption DEF SessionAssumption
      <4>. QED  BY <2>7, <4>1 DEF Listens, Of
    <3>2. CASE d \in called[u] /\ Listens(u, d)
      <4>1. PICK k \in Copy : at[Of(u, d, k)] # "idle" /\ why[Of(u, d, k)] = "none"
        BY <3>2 DEF Listens
      <4>2. Of(u, d, k) \in Loop
        BY <3>2 DEF Of, Loop, HeardInv, LoopsFit
      <4>3. at'[Of(u, d, k)] # "idle" /\ why'[Of(u, d, k)] = "none"
        BY <2>7, <4>1, <4>2
      <4>. QED  BY <4>3 DEF Listens, Of
    <3>3. CASE d \in called[u] /\ Hears(u, "online")
      BY <1>1, <3>3 DEF Hears
    <3>4. d \in called[u] => Listens(u, d) \/ Hears(u, "online")
      BY <1>5, <2>9 DEF HeardInv, CallsHeard
    <3>. QED  BY <1>2, <3>1, <3>2, <3>3, <3>4
  <2>10. CallsHeard'
    BY <1>1, <2>9 DEF CallsHeard
  <2>. QED  BY <1>4, <2>8, <2>10 DEF HeardInv
<1>6. CASE ~net
  <2>1. UNCHANGED <<at, why, current>>
    BY <1>6 DEF Configure
  <2>2. \A l \in Loop : at[l] # "idle" => l.call \in called'[l.tab]
    <3>1. \A l \in Loop : l.tab \in Tab
      BY DEF Loop
    <3>. QED  BY <1>2, <3>1 DEF HeardInv, LoopsFit, Fits
  <2>3. LoopsFit'
    BY <1>2, <1>3, <2>1, <2>2 DEF HeardInv, LoopsFit, Fits
  <2>4. CallsHeard'
    BY <1>1, <1>6 DEF CallsHeard
  <2>. QED  BY <1>4, <2>3, <2>4 DEF HeardInv
<1>. QED  BY <1>5, <1>6

(* Offline: the loops of the page are aborted, but the network is back, and  *)
(* the page will be told.  Online and stored: each call gets a new loop.     *)
LEMMA HandlerHeard ==
  ASSUME HeardInv, NEW t \in Tab, Handler(t)
  PROVE  HeardInv'
<1>0. UNCHANGED <<called, net, failed>> /\ inbox[t] # <<>> /\ Handled(t)
  BY DEF Handler, Online, Offline, StorageError, StorageValid, Abort, Event
<1>1. /\ InboxTells'
      /\ \A u \in Tab : u # t /\ Hears(u, "online") => Hears(u, "online")'
      /\ Head(inbox[t]) # "online" /\ Hears(t, "online") => Hears(t, "online")'
      /\ Head(inbox[t]) = "offline" /\ net => Hears(t, "online")'
      /\ Head(inbox[t]) = "stored error" => failed
  BY <1>0, HandledTells DEF HeardInv
<1>2. ASSUME NEW base, Fits(base.at, base.why, base.current),
             \A l \in Loop : l.tab # t => base.at[l] = at[l] /\ base.why[l] = why[l],
             Room(t, base.at), NEW p \in Place \ {"idle"}, StartAt(FreshLoops(t, base.at), base, p)
      PROVE  HeardInv'
  <2>1. /\ LoopsFit'
        /\ \A c \in called[t] : Listens(t, c)'
        /\ \A u \in Tab : \A c \in called[u] : u # t /\ Listens(u, c) => Listens(u, c)'
    BY <1>0, <1>2, FreshListen DEF HeardInv
  <2>2. CallsHeard'
    BY <1>0, <1>1, <2>1, HeardKept
  <2>. QED  BY <1>1, <2>1, <2>2 DEF HeardInv
<1>3. CASE Online(t)
  <2>1. StartAt(FreshLoops(t, at), Now, "queue") /\ Room(t, at)
    BY <1>3 DEF Online
  <2>2. /\ Now.at = at /\ Now.why = why /\ Now.current = current
        /\ "queue" \in Place \ {"idle"}
    BY DEF Now, Place
  <2>. QED  BY <1>2, <2>1, <2>2 DEF HeardInv, LoopsFit
<1>4. CASE StorageValid(t)
  <2>1. PICK after : after = AfterAbort(t, "valid")
    OBVIOUS
  <2>2. PICK p : p = IF store = "fresh" THEN "asleep" ELSE "ringing"
    OBVIOUS
  <2>3. StartAt(FreshLoops(t, after.at), after, p) /\ Room(t, after.at)
    BY <1>4, <2>1, <2>2 DEF StorageValid
  <2>4. p \in Place \ {"idle"} /\ "valid" \in Reason
    BY <2>2 DEF Place, Reason
  <2>5. /\ Fits(after.at, after.why, after.current)
        /\ \A l \in Loop : l.tab # t => after.at[l] = at[l] /\ after.why[l] = why[l]
    BY <2>1, <2>4, AbortFits DEF HeardInv
  <2>. QED  BY <1>2, <2>3, <2>4, <2>5
<1>5. ASSUME NEW reason \in Reason, Abort(t, reason),
             net /\ ~failed => Hears(t, "online")'
      PROVE  HeardInv'
  <2>1. PICK after : after = AfterAbort(t, reason)
    OBVIOUS
  <2>2. at' = after.at /\ why' = after.why /\ current' = after.current
    BY <1>5, <2>1 DEF Abort
  <2>3. /\ Fits(after.at, after.why, after.current)
        /\ \A l \in Loop : l.tab # t => after.at[l] = at[l] /\ after.why[l] = why[l]
    BY <1>5, <2>1, AbortFits DEF HeardInv
  <2>4. LoopsFit'
    BY <1>0, <2>2, <2>3 DEF HeardInv, LoopsFit, Fits
  <2>5. ASSUME NEW u \in Tab, u # t, NEW c \in called[u], Listens(u, c)
        PROVE  Listens(u, c)'
    <3>1. PICK k \in Copy : at[Of(u, c, k)] # "idle" /\ why[Of(u, c, k)] = "none"
      BY <2>5 DEF Listens
    <3>2. Of(u, c, k) \in Loop /\ Of(u, c, k).tab # t
      BY <2>5 DEF Of, Loop, HeardInv, LoopsFit
    <3>3. at'[Of(u, c, k)] # "idle" /\ why'[Of(u, c, k)] = "none"
      BY <2>2, <2>3, <3>1, <3>2
    <3>. QED  BY <3>3 DEF Listens, Of
  <2>6. CallsHeard'
    BY <1>0, <1>1, <1>5, <2>5, HeardKept
  <2>. QED  BY <1>1, <2>4, <2>6 DEF HeardInv
<1>6. CASE Offline(t)
  <2>1. Head(inbox[t]) = "offline" /\ Abort(t, "offline") /\ "offline" \in Reason
    BY <1>6 DEF Offline, Event, Reason
  <2>. QED  BY <1>1, <1>5, <2>1
<1>7. CASE StorageError(t)
  <2>1. Head(inbox[t]) = "stored error" /\ Abort(t, "error") /\ "error" \in Reason
    BY <1>7 DEF StorageError, Event, Reason
  <2>. QED  BY <1>1, <1>5, <2>1
<1>. QED  BY <1>3, <1>4, <1>6, <1>7 DEF Handler

(* A loop that moves on listens as before.                                  *)
LEMMA MovingHeard ==
  ASSUME HeardInv, NEW l \in Loop, at[l] # "idle", NEW p \in Place \ {"idle"},
         at' = [at EXCEPT ![l] = p], UNCHANGED <<why, current, called>>
  PROVE  /\ LoopsFit'
         /\ \A t \in Tab : \A c \in called[t] : Listens(t, c) => Listens(t, c)'
<1>1. /\ at \in [Loop -> Place] /\ at' \in [Loop -> Place]
      /\ \A m \in Loop : at'[m] = "idle" => at[m] = "idle"
      /\ \A m \in Loop : at'[m] # "idle" => at[m] # "idle"
  BY DEF HeardInv, LoopsFit, Fits
<1>2. LoopsFit'
  BY <1>1 DEF HeardInv, LoopsFit, Fits
<1>3. \A t \in Tab : \A c \in called[t] : Listens(t, c) => Listens(t, c)'
  BY <1>1, ListeningKept DEF HeardInv
<1>. QED  BY <1>2, <1>3

(* A loop that ends leaves the others.                                      *)
LEMMA EndingHeard ==
  ASSUME HeardInv, NEW l \in Loop, EndLoop(l), called' = called
  PROVE  /\ LoopsFit'
         /\ why[l] # "none" =>
              \A t \in Tab : \A c \in called[t] : Listens(t, c) => Listens(t, c)'
<1>1. /\ at' = [at EXCEPT ![l] = "idle"] /\ why' = [why EXCEPT ![l] = "none"]
      /\ current' = current \ {l}
  BY DEF EndLoop
<1>2. /\ at \in [Loop -> Place] /\ why \in [Loop -> Reason \union {"none"}]
      /\ at' \in [Loop -> Place] /\ why' \in [Loop -> Reason \union {"none"}]
      /\ current' \in SUBSET Loop
  BY <1>1 DEF HeardInv, LoopsFit, Fits, Place
<1>3. LoopsFit'
  BY <1>1, <1>2 DEF HeardInv, LoopsFit, Fits
<1>4. ASSUME why[l] # "none"
      PROVE  \A t \in Tab : \A c \in called[t] : Listens(t, c) => Listens(t, c)'
  <2>1. \A m \in Loop : at[m] # "idle" /\ why[m] = "none" => at'[m] # "idle" /\ why'[m] = "none"
    BY <1>1, <1>2, <1>4
  <2>. QED  BY <2>1, ListeningKept DEF HeardInv
<1>. QED  BY <1>3, <1>4

(* A page that has not been told anything keeps what it has.                *)
LEMMA InboxKept ==
  ASSUME InboxTells, UNCHANGED <<inbox, net, failed, called>>
  PROVE  InboxTells' /\ \A t \in Tab : Hears(t, "online") => Hears(t, "online")'
<1>1. \A t \in Tab : \A k \in Kind : Hears(t, k)' <=> Hears(t, k)
  BY DEF Hears
<1>2. net' => \A t \in Tab : \A i \in 1 .. Len(inbox'[t]) :
        inbox'[t][i] = "offline" => \E j \in i + 1 .. Len(inbox'[t]) : inbox'[t][j] = "online"
  <2>1. inbox' = inbox /\ (net' => net)
    OBVIOUS
  <2>2. net => \A t \in Tab : \A i \in 1 .. Len(inbox[t]) :
          inbox[t][i] = "offline" => \E j \in i + 1 .. Len(inbox[t]) : inbox[t][j] = "online"
    BY DEF InboxTells
  <2>. QED  BY <2>1, <2>2, Zenon
<1>3. ~failed' => \A t \in Tab : ~Hears(t, "stored error")'
  BY <1>1 DEF InboxTells, Kind
<1>4. InboxTells'
  BY <1>2, <1>3 DEF InboxTells
<1>. QED  BY <1>1, <1>4 DEF Kind

(* No step of a loop ends it while it listens, except a failure.            *)
LEMMA StepHeard ==
  ASSUME HeardInv, NEW l \in Loop, Step(l)
  PROVE  HeardInv'
<1>1. ASSUME at[l] # "idle", NEW p \in Place \ {"idle"}, at' = [at EXCEPT ![l] = p],
             UNCHANGED <<why, current, called, net, failed, inbox>>
      PROVE  HeardInv'
  <2>1. LoopsFit' /\ \A t \in Tab : \A c \in called[t] : Listens(t, c) => Listens(t, c)'
    BY <1>1, MovingHeard
  <2>2. InboxTells' /\ \A t \in Tab : Hears(t, "online") => Hears(t, "online")'
    BY <1>1, InboxKept DEF HeardInv
  <2>3. CallsHeard'
    BY <1>1, <2>1, <2>2, HeardKept
  <2>. QED  BY <2>1, <2>2, <2>3 DEF HeardInv
<1>2. ASSUME why[l] # "none", EndLoop(l), UNCHANGED <<called, net, failed, inbox>>
      PROVE  HeardInv'
  <2>1. LoopsFit' /\ \A t \in Tab : \A c \in called[t] : Listens(t, c) => Listens(t, c)'
    BY <1>2, EndingHeard
  <2>2. InboxTells' /\ \A t \in Tab : Hears(t, "online") => Hears(t, "online")'
    BY <1>2, InboxKept DEF HeardInv
  <2>3. CallsHeard'
    BY <1>2, <2>1, <2>2, HeardKept
  <2>. QED  BY <2>1, <2>2, <2>3 DEF HeardInv
<1>3. CASE Wake(l)
  <2>1. CASE why[l] = "none"
    BY <1>1, <1>3, <2>1 DEF Wake, Place
  <2>2. CASE why[l] # "none"
    BY <1>2, <1>3, <2>2 DEF Wake
  <2>. QED  BY <2>1, <2>2
<1>4. CASE EnterFresh(l)
  BY <1>1, <1>4 DEF EnterFresh, Place
<1>5. CASE EnterStale(l)
  BY <1>1, <1>5 DEF EnterStale, Place, Refreshing
<1>6. ASSUME NEW from \in Refreshing, NEW to \in Refreshing, Progress(l, from, to)
      PROVE  HeardInv'
  <2>1. at[l] # "idle" /\ to \in Place \ {"idle"}
    BY <1>6 DEF Progress, Place, Refreshing
  <2>. QED  BY <1>1, <1>6, <2>1 DEF Progress
<1>7. CASE Challenged(l) \/ Answered(l)
  BY <1>6, <1>7 DEF Challenged, Answered, Refreshing
<1>8. CASE Refreshed(l)
  <2>1. /\ at[l] # "idle" /\ at' = [at EXCEPT ![l] = "asleep"]
        /\ UNCHANGED <<why, current, called, net, failed>> /\ Tell(l, "stored")
    BY <1>8 DEF Refreshed
  <2>2. LoopsFit' /\ \A t \in Tab : \A c \in called[t] : Listens(t, c) => Listens(t, c)'
    BY <2>1, MovingHeard DEF Place
  <2>3. failed' \in BOOLEAN /\ InboxTells /\ (failed => failed')
    BY <2>1 DEF HeardInv, InboxTells
  <2>4. InboxTells' /\ \A t \in Tab : Hears(t, "online") => Hears(t, "online")'
    BY <2>1, <2>3, ToldTells
  <2>5. CallsHeard'
    BY <2>1, <2>2, <2>4, HeardKept
  <2>. QED  BY <2>2, <2>4, <2>5 DEF HeardInv
<1>9. CASE Failed(l)
  <2>1. /\ EndLoop(l) /\ UNCHANGED <<called, net>> /\ failed' /\ failed' = TRUE
        /\ Tell(l, "stored error")
    BY <1>9 DEF Failed, GiveUp
  <2>2. LoopsFit'
    BY <2>1, EndingHeard
  <2>3. InboxTells'
    BY <2>1, ToldTells DEF HeardInv
  <2>4. CallsHeard'
    BY <2>1 DEF CallsHeard
  <2>. QED  BY <2>2, <2>3, <2>4 DEF HeardInv
<1>10. CASE Interrupted(l)
  BY <1>2, <1>10 DEF Interrupted, GiveUp
<1>. QED  BY <1>3, <1>4, <1>5, <1>7, <1>8, <1>9, <1>10 DEF Step

(* The timers of a session that is due: loops that wait ring.               *)
LEMMA ExpireHeard ==
  ASSUME HeardInv, ExpireSession
  PROVE  HeardInv'
<1>1. /\ at' = [l \in Loop |-> IF at[l] = "asleep" THEN "ringing" ELSE at[l]]
      /\ UNCHANGED <<why, current, called, net, inbox, failed>>
  BY DEF ExpireSession
<1>2. /\ at \in [Loop -> Place] /\ at' \in [Loop -> Place]
      /\ \A m \in Loop : at'[m] = "idle" <=> at[m] = "idle"
  BY <1>1 DEF HeardInv, LoopsFit, Fits, Place
<1>3. LoopsFit'
  BY <1>1, <1>2 DEF HeardInv, LoopsFit, Fits
<1>4. \A t \in Tab : \A c \in called[t] : Listens(t, c) => Listens(t, c)'
  BY <1>1, <1>2, ListeningKept DEF HeardInv
<1>5. InboxTells' /\ \A t \in Tab : Hears(t, "online") => Hears(t, "online")'
  BY <1>1, InboxKept DEF HeardInv
<1>6. CallsHeard'
  BY <1>1, <1>4, <1>5, HeardKept
<1>. QED  BY <1>3, <1>5, <1>6 DEF HeardInv

LEMMA InitHeard == Init => HeardInv
<1> SUFFICES ASSUME Init PROVE HeardInv
  OBVIOUS
<1>1. LoopsFit
  BY DEF Init, LoopsFit, Fits, Place, Reason
<1>2. \A t \in Tab : inbox[t] = <<>> /\ called[t] = {} /\ Len(inbox[t]) = 0
  BY DEF Init
<1>3. inbox \in [Tab -> Seq(Kind)] /\ net \in BOOLEAN /\ failed \in BOOLEAN
  <2>1. inbox = [t \in Tab |-> <<>>] /\ <<>> \in Seq(Kind)
    BY DEF Init
  <2>2. inbox \in [Tab -> Seq(Kind)]
    BY <2>1
  <2>. QED  BY <2>2 DEF Init
<1>4. \A t \in Tab : 1 .. Len(inbox[t]) = {}
  BY <1>2
<1>5. InboxTells
  BY <1>2, <1>3, <1>4 DEF InboxTells, Hears
<1>6. CallsHeard
  BY <1>2 DEF CallsHeard
<1>. QED  BY <1>1, <1>5, <1>6 DEF HeardInv

(* Every call that is not heard will hear that the page is online, whatever  *)
(* the order of aborts, refreshes and news (session.ts:45-71,94-175).        *)
THEOREM HeardInvariant == Spec => []HeardInv
<1>1. HeardInv /\ [Next]_vars => HeardInv'
  <2> SUFFICES ASSUME HeardInv, [Next]_vars PROVE HeardInv'
    OBVIOUS
  <2>1. ASSUME NEW t \in Tab, NEW c \in Call, Configure(t, c) PROVE HeardInv'
    BY <2>1, ConfigureHeard
  <2>2. ASSUME NEW t \in Tab, Handler(t) PROVE HeardInv'
    BY <2>2, HandlerHeard
  <2>3. ASSUME NEW l \in Loop, Step(l) PROVE HeardInv'
    BY <2>3, StepHeard
  <2>4. CASE ExpireSession
    BY <2>4, ExpireHeard
  <2>5. CASE Flip
    BY <2>5, FlipHeard
  <2>6. CASE UNCHANGED vars
    <3>1. UNCHANGED <<at, why, current, called, net, inbox, failed>>
      BY <2>6 DEF vars
    <3>2. LoopsFit'
      BY <3>1 DEF HeardInv, LoopsFit, Fits
    <3>3. \A t \in Tab : \A c \in called[t] : Listens(t, c) => Listens(t, c)'
      BY <3>1, ListeningKept DEF HeardInv
    <3>4. InboxTells' /\ \A t \in Tab : Hears(t, "online") => Hears(t, "online")'
      BY <3>1, InboxKept DEF HeardInv
    <3>5. CallsHeard'
      BY <3>1, <3>3, <3>4, HeardKept
    <3>. QED  BY <3>2, <3>4, <3>5 DEF HeardInv
  <2>. QED  BY <2>1, <2>2, <2>3, <2>4, <2>5, <2>6 DEF Next, System
<1>. QED  BY <1>1, InitHeard, PTL DEF Spec

(* As long as no refresh failed, every call of every page that has handled   *)
(* its events has a loop that listens, for any pages, calls and mishaps.     *)
THEOREM NoCallForgotten == Spec => []NobodyForgotten
<1>1. HeardInv => NobodyForgotten
  <2> SUFFICES ASSUME HeardInv, net, ~failed, NEW t \in Tab, inbox[t] = <<>>, NEW c \in called[t]
               PROVE  Listens(t, c)
    BY DEF NobodyForgotten, Listens
  <2>1. ~Hears(t, "online")
    BY DEF Hears
  <2>. QED  BY <2>1 DEF HeardInv, CallsHeard
<1>. QED  BY <1>1, HeardInvariant, PTL
=============================================================================
