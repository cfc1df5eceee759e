------------------------------- MODULE Opening ------------------------------
(***************************************************************************)
(* Opening the browser's database: open() of src/src/util/indexedDB, the     *)
(* migrations of src/src/db/schema.ts and what main() makes of both, in tabs *)
(* whose code may be of different versions.  IndexedDB handles the requests  *)
(* of an origin one after the other; an upgrade waits until every other      *)
(* connection is closed, which one with a transaction is only after it.      *)
(***************************************************************************)
EXTENDS Integers, Sequences, FiniteSets, SequencesExt

CONSTANTS
  Page,         \* page loads
  Version       \* schema.version of the code each page runs: migrations.length

ASSUME OpeningAssumption == Version \in [Page -> Nat \ {0}]

VARIABLES
  disk,     \* the database: its version, and the migrations it went through
  work,     \* the same, as the upgrade under way leaves it
  queue,    \* open requests
  step,     \* where the first of them stands
  told,     \* connections that have yet to handle its versionchange event
  conn,     \* of each page: "none", "open", "closing"
  busy,     \* pages with a transaction under way
  page      \* what main() came to

oVars == <<disk, work, queue, step, told, conn, busy, page>>

NewDisk == [version |-> 0, applied |-> <<>>]

OpeningInit ==
  /\ disk = NewDisk /\ work = NewDisk
  /\ queue = <<>> /\ step = "start" /\ told = {}
  /\ conn = [p \in Page |-> "none"] /\ busy = {}
  /\ page = [p \in Page |-> "none"]

Connected == {p \in Page : conn[p] # "none"}
First(p) == queue # <<>> /\ Head(queue) = p
Dequeue == queue' = Tail(queue) /\ step' = "start" /\ told' = {}

-----------------------------------------------------------------------------
\* main() calls open()
Open(p) ==
  /\ page[p] = "none"
  /\ page' = [page EXCEPT ![p] = "opening"]
  /\ queue' = Append(queue, p)
  /\ UNCHANGED <<disk, work, step, told, conn, busy>>

(* onsuccess.  A promise that onblocked rejected stays so; the connection    *)
(* is open all the same.                                                    *)
Succeed(p) ==
  /\ conn' = [conn EXCEPT ![p] = "open"]
  /\ page' = IF page[p] = "opening" THEN [page EXCEPT ![p] = "ready"] ELSE page
  /\ Dequeue

(* onerror: the database is newer than the code, or cannot be opened.       *)
Reject(p) ==
  /\ page' = IF page[p] = "opening" THEN [page EXCEPT ![p] = "failed"] ELSE page
  /\ Dequeue

OpenCurrent(p) ==
  /\ First(p) /\ step = "start" /\ Version[p] = disk.version
  /\ Succeed(p)
  /\ UNCHANGED <<disk, work, busy>>

RequestError(p) ==
  /\ First(p)
  /\ \/ step = "start" /\ Version[p] < disk.version
     \/ step = "upgrade"
  /\ Reject(p)
  /\ work' = disk
  /\ UNCHANGED <<disk, conn, busy>>

(* An older database: the pages that hold it are asked to close it.         *)
AskToClose(p) ==
  /\ First(p) /\ step = "start" /\ Version[p] > disk.version
  /\ told' = Connected /\ step' = "asked"
  /\ UNCHANGED <<disk, work, queue, conn, busy, page>>

(* MUTANT: the connection is left open.                                     *)
VersionChangeIgnored(q) ==
  /\ q \in told /\ told' = told \ {q}
  /\ page' = [page EXCEPT ![q] = IF @ = "ready" THEN "over" ELSE @]
  /\ UNCHANGED <<disk, work, queue, step, conn, busy>>
(* onversionchange: db.close(), and game.forceEnd().                        *)
VersionChange(q) ==
  /\ q \in told /\ told' = told \ {q}
  /\ conn' = [conn EXCEPT ![q] = IF q \in busy THEN "closing" ELSE "none"]
  /\ page' = [page EXCEPT ![q] = IF @ = "ready" THEN "over" ELSE @]
  /\ UNCHANGED <<disk, work, queue, step, busy>>

(* onblocked: all were told and one has a transaction to end.               *)
Blocked(p) ==
  /\ First(p) /\ step = "asked" /\ told = {} /\ Connected # {}
  /\ step' = "blocked"
  /\ page' = [page EXCEPT ![p] = IF @ = "opening" THEN "failed" ELSE @]
  /\ UNCHANGED <<disk, work, queue, told, conn, busy>>

(* MUTANT: the first migration not applied yet is skipped.                  *)
MigrationsSkipping(from, to) == [i \in 1 .. (to - from) - 1 |-> from + i + 1]
\* createConfigurator
Migrations(from, to) == [i \in 1 .. to - from |-> from + i]

(* onupgradeneeded, in the upgrade's transaction.                           *)
Upgrade(p) ==
  /\ First(p) /\ step \in {"asked", "blocked"} /\ told = {} /\ Connected = {}
  /\ step' = "upgrade"
  /\ work' = [version |-> Version[p],
              applied |-> disk.applied \o Migrations(disk.version, Version[p])]
  /\ UNCHANGED <<disk, queue, told, conn, busy, page>>

CommitUpgrade(p) ==
  /\ First(p) /\ step = "upgrade"
  /\ disk' = work
  /\ Succeed(p)
  /\ UNCHANGED <<work, busy>>

-----------------------------------------------------------------------------
(* retrieveAttempts, insertAttempt, findCachedLink, cacheLink               *)
Begin(p) ==
  /\ page[p] = "ready" /\ conn[p] = "open" /\ p \notin busy
  /\ busy' = busy \union {p}
  /\ UNCHANGED <<disk, work, queue, step, told, conn, page>>
End(p) ==
  /\ p \in busy /\ busy' = busy \ {p}
  /\ conn' = [conn EXCEPT ![p] = IF @ = "closing" THEN "none" ELSE @]
  /\ UNCHANGED <<disk, work, queue, step, told, page>>

(* A page is closed or left: what it had under way is undone.  It asked for *)
(* the database once at most.                                               *)
LeavePage(p) ==
  /\ page[p] \notin {"none", "left"} /\ page' = [page EXCEPT ![p] = "left"]
  /\ conn' = [conn EXCEPT ![p] = "none"] /\ busy' = busy \ {p}
  /\ IF First(p) THEN Dequeue /\ work' = disk
     ELSE /\ \/ \E i \in 1 .. Len(queue) : queue[i] = p /\ queue' = RemoveAt(queue, i)
             \/ (\A i \in 1 .. Len(queue) : queue[i] # p) /\ UNCHANGED queue
          /\ told' = told \ {p}
          /\ UNCHANGED <<step, work>>
  /\ UNCHANGED disk

Answer(p) ==
  \/ OpenCurrent(p) \/ RequestError(p) \/ AskToClose(p) \/ Blocked(p)
  \/ Upgrade(p) \/ CommitUpgrade(p)
OpeningNext ==
  \E p \in Page : Open(p) \/ Answer(p) \/ VersionChange(p) \/ Begin(p) \/ End(p) \/ LeavePage(p)

OpeningSpec == OpeningInit /\ [][OpeningNext]_oVars

(* The database serves its requests, events are delivered and transactions   *)
(* end; nobody needs to close a page.                                       *)
OpeningFairness ==
  \A p \in Page : WF_oVars(Answer(p)) /\ WF_oVars(VersionChange(p)) /\ WF_oVars(End(p))

-----------------------------------------------------------------------------
(* A page that plays has the schema its code was written for: the database   *)
(* went through each migration up to its version once and in order, however  *)
(* upgrades fail, are left or are made by pages of other versions            *)
(* (schema.ts:20-26, indexedDB/index.ts:35-65).                             *)
PlaysOnOwnSchema ==
  /\ disk.applied = [i \in 1 .. disk.version |-> i]
  /\ \A p \in Page : page[p] = "ready" => conn[p] = "open" /\ Version[p] = disk.version

(* Pages of older code give way: every request to open is answered, though   *)
(* no page is closed and transactions are under way (index.ts:78-83).       *)
RequestsEnd == queue # <<>> ~> queue = <<>>
=============================================================================
