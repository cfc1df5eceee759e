------------------------------- MODULE Sharing -------------------------------
(***************************************************************************)
(* Share links: getShareContent (src/src/menu/internal/share.ts), called by  *)
(* the Share components of a browser's pages, over the links cached in       *)
(* IndexedDB (src/src/db/link.ts) and the server's Repository.  Requests     *)
(* and answers may be lost; the name and the record shared may change        *)
(* between two requests.                                                    *)
(***************************************************************************)
EXTENDS Repository

CONSTANTS
  Widget,     \* Share components, of all pages; several share one record
  Record,     \* what a player can share: won attempts, and the count of wins
              \* that one load of the page knows
  Counts,     \* those records that are counts of wins (gamemode `random')
  MaxChanges  \* BOUND: renamings and wins

ASSUME SharingAssumption == Counts \subseteq Record /\ MaxChanges \in Nat

VARIABLES
  uuid,     \* attempt.serverID of each record; None: undefined
  sent,     \* records whose attempt was submitted
  data,     \* what each record says
  name,     \* the player's name
  cache,    \* the object store `links'
  phase,    \* where each widget's call of getShareContent stands
  req,      \* its arguments, with the code found
  tries,    \* how often Save has tried for it
  said,     \* history: what each link was created to say
  shown,    \* history: each code shown, and what for
  changes

clientVars == <<uuid, sent, data, name, cache, phase, req, tries, said, shown, changes>>
vars == <<repoVars, clientVars>>

Request == [rec : Record, att : Attempt \union {None}, theme : Theme, name : Name,
            data : 0 .. MaxChanges, code : Code \union {None}]
NoRequest == [code |-> None]
Themes == {Renamed(t) : t \in Theme}   \* those Theme.Validate accepts

Init ==
  /\ RepositoryInit
  /\ uuid = [r \in Record |-> None] /\ sent = {}
  /\ data = [r \in Record |-> 0]
  /\ name = Anonymous
  /\ cache = {}
  /\ phase = [w \in Widget |-> "idle"]
  /\ req = [w \in Widget |-> NoRequest]
  /\ tries = [w \in Widget |-> 0]
  /\ said = <<>> /\ shown = {} /\ changes = 0

-----------------------------------------------------------------------------
(* handleAttempt submits a won attempt; its answer may be lost.             *)
SubmitRecord(r, a, answered) ==
  /\ r \notin sent \union Counts
  /\ Submit(a)
  /\ sent' = sent \union {r}
  /\ uuid' = IF answered THEN [uuid EXCEPT ![r] = a] ELSE uuid
  /\ UNCHANGED <<data, name, cache, phase, req, tries, said, shown, changes>>

Change ==
  /\ changes < MaxChanges /\ changes' = changes + 1
  /\ \/ \E n \in Name \ {name} : name' = n /\ UNCHANGED data
     \/ \E r \in Counts : data' = [data EXCEPT ![r] = @ + 1] /\ UNCHANGED name
  /\ UNCHANGED <<repoVars, uuid, sent, cache, phase, req, tries, said, shown>>

(* The click handler of Share.svelte: one call at a time.  It captures the   *)
(* record as it is displayed.                                               *)
Click(w, r, t) ==
  /\ phase[w] = "idle" /\ r \in sent \union Counts
  /\ phase' = [phase EXCEPT ![w] = "find"]
  /\ req' = [req EXCEPT ![w] = [rec |-> r, att |-> uuid[r], theme |-> t, name |-> name,
                                data |-> data[r], code |-> None]]
  /\ UNCHANGED <<repoVars, uuid, sent, data, name, cache, tries, said, shown, changes>>

(* The unique indexes of the store: by attempt, and by name, gamemode, time  *)
(* and theme.  A record stands for gamemode and time; the time of a count is *)
(* that of the load of the page, so that the count another load knows is     *)
(* another record.                                                          *)
SameAttempt(x, y) == x.att # None /\ x.att = y.att /\ x.name = y.name /\ x.theme = y.theme
SameGame(x, y) == x.rec = y.rec /\ x.name = y.name /\ x.theme = y.theme

(* findCachedLink.  Whether there is a valid session is up to Session.      *)
Hit(q) == {x \in cache : IF q.att # None THEN SameAttempt(q, x) ELSE SameGame(q, x)}

Show(w, q) ==
  /\ phase' = [phase EXCEPT ![w] = "idle"]
  /\ req' = [req EXCEPT ![w] = NoRequest]
  /\ shown' = shown \union {q}
Fail(w) ==
  /\ phase' = [phase EXCEPT ![w] = "idle"]
  /\ req' = [req EXCEPT ![w] = NoRequest]
  /\ UNCHANGED shown

Find(w) ==
  /\ phase[w] = "find"
  /\ \/ \E x \in Hit(req[w]) : Show(w, [req[w] EXCEPT !.code = x.code])
     \/ Hit(req[w]) = {} /\ Fail(w)
     \/ /\ Hit(req[w]) = {}
        /\ phase' = [phase EXCEPT ![w] = "posted"] /\ UNCHANGED <<req, shown>>
  /\ UNCHANGED <<repoVars, uuid, sent, data, name, cache, tries, said, changes>>

(* The server works on the request: one try of Save.                        *)
Serve(w, c) ==
  LET q == req[w] IN
  /\ phase[w] = "posted" /\ tries[w] < MaxTries
  /\ \E v \in Verdicts(q, c) :
       /\ TrySave(q, c, v)
       /\ tries' = [tries EXCEPT ![w] = IF v = "retry" THEN @ + 1 ELSE 0]
       /\ phase' = IF v = "retry" THEN phase
                   ELSE [phase EXCEPT ![w] = IF v = "saved" THEN "answered" ELSE "refused"]
       /\ req' = IF v = "saved" THEN [req EXCEPT ![w].code = c] ELSE req
       /\ said' = IF v = "saved" THEN With(said, c, [rec |-> q.rec, data |-> q.data]) ELSE said
  /\ UNCHANGED <<uuid, sent, data, name, cache, shown, changes>>

(* A refusal, ten codes that exist, or a lost request or answer.            *)
Error(w) ==
  /\ \/ phase[w] = "refused"
     \/ phase[w] \in {"posted", "answered"}
  /\ tries' = [tries EXCEPT ![w] = 0]
  /\ Fail(w)
  /\ UNCHANGED <<repoVars, uuid, sent, data, name, cache, said, changes>>

(* MUTANT: the link is cached under the name of now.                        *)
CacheNow(w) ==
  LET q == [req[w] EXCEPT !.name = name] IN
  /\ phase[w] = "answered"
  /\ cache' = IF \E x \in cache : SameAttempt(q, x) \/ SameGame(q, x) \/ q.code = x.code
              THEN cache ELSE cache \union {q}
  /\ Show(w, req[w])
  /\ UNCHANGED <<repoVars, uuid, sent, data, name, tries, said, changes>>
(* cacheLink: a transaction that aborts when a key exists; the link is shown *)
(* in any case.                                                             *)
Cache(w) ==
  LET q == req[w] IN
  /\ phase[w] = "answered"
  /\ cache' = IF \E x \in cache : SameAttempt(q, x) \/ SameGame(q, x) \/ q.code = x.code
              THEN cache ELSE cache \union {q}
  /\ Show(w, q)
  /\ UNCHANGED <<repoVars, uuid, sent, data, name, tries, said, changes>>

Client ==
  \/ \E r \in Record, a \in Attempt, answered \in BOOLEAN : SubmitRecord(r, a, answered)
  \/ \E w \in Widget, r \in Record, t \in Themes : Click(w, r, t)
  \/ \E w \in Widget : Find(w) \/ Cache(w) \/ Error(w)
  \/ \E w \in Widget, c \in Code : Serve(w, c)
  \/ Change
Next == Client \/ ((Program \/ Crash) /\ UNCHANGED clientVars)
Spec == Init /\ [][Next]_vars

-----------------------------------------------------------------------------
(* What the browser believes of a link is what the server stores, however    *)
(* requests, losses, renamings and crashes interleave (share.ts:115-141,     *)
(* link.ts:47-66): the cache hands out no code of another attempt or theme.  *)
CacheAgrees ==
  \A x \in cache :
    /\ x.code \in DOMAIN links
    /\ x.att # None => links[x.code].att = x.att
    /\ links[x.code].theme = x.theme /\ links[x.code].name = x.name

(* Two players, or one twice, never get two links for one submitted attempt  *)
(* in one theme, and a link shown for a duration says that duration.  Counts *)
(* of wins are left out: their cached link goes on saying an old count       *)
(* (statistics.ts:44 sets no `when' for them).                              *)
LinksMeanOneThing ==
  /\ \A x, y \in shown : x.att # None /\ x.att = y.att /\ x.theme = y.theme => x.code = y.code
  /\ \A x \in shown : x.rec \notin Counts => said[x.code] = [rec |-> x.rec, data |-> x.data]
                                            /\ links[x.code].theme = x.theme
=============================================================================
