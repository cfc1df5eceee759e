----------------------------- MODULE Repository -----------------------------
(***************************************************************************)
(* The server's database: how a program opens and migrates it before it     *)
(* serves (CreateDB in src/internal/cmd/internal/db.go, the migrations and  *)
(* the script FromV1ToV2), and what the handlers of /submit and /share make *)
(* of it (src/internal/repo/sqlite).  A program may crash at any step and   *)
(* be started again; SQLite undoes the transaction it was in.               *)
(***************************************************************************)
EXTENDS Integers, FiniteSets

CONSTANTS
  Code,        \* the codes share.NewCode can draw
  Theme, Name, \* "iris" among them: a theme that was renamed later
  Attempt,     \* the UUIDs the server can draw, and attempts have
  None,        \* SQL's null
  OldCodes,    \* codes of links older than the table of attempts
  Anonymous,   \* the empty name
  MaxTries,    \* 10 in Save
  MaxCrashes   \* BOUND: how often the server crashes

ASSUME RepositoryAssumption ==
  /\ {"iris", "flowers"} \subseteq Theme
  /\ OldCodes \subseteq Code /\ Anonymous \in Name /\ None \notin Attempt
  /\ MaxTries \in Nat \ {0} /\ MaxCrashes \in Nat

VARIABLES
  schema,    \* how many of the migrations are applied
  dirty,     \* schema_migrations.dirty
  counted,   \* are the migration files numbered 1, 2, ... (or by date)?
  links,     \* code -> link
  attempts,  \* id -> [kind, verification]
  server,    \* what the program is doing
  crashes

dbVars == <<schema, dirty, links, attempts>>
repoVars == <<dbVars, counted, server, crashes>>

Newest == 5      \* migrations/*.up.sql
LinksFix == 3    \* 20250428184530_links-fix
ToFlowers == 4   \* 20260315213129_rename_to_flowers
Link == [att : Attempt \union {None}, theme : Theme, name : Name]
Row == [kind : {"WIN", "LOSE", "RESET"}, verification : {"PENDING", "UNKNOWN"}]
Free == Attempt \ DOMAIN attempts
With(f, k, v) == [x \in DOMAIN f \union {k} |-> IF x = k THEN v ELSE f[x]]

(* A new database, or one an older program left, of before there were        *)
(* attempts.                                                                *)
RepositoryInit ==
  /\ counted \in BOOLEAN
  /\ \/ schema = 0 /\ links = <<>>
     \/ schema = 1 /\ links \in [OldCodes -> [att : {None}, theme : {"iris"}, name : {Anonymous}]]
  /\ dirty = FALSE /\ attempts = <<>>
  /\ server = "down" /\ crashes = 0

-----------------------------------------------------------------------------
(* CreateDB.  golang-migrate marks a version dirty before it runs its file,  *)
(* and clean after; it refuses to go on from a dirty version.               *)
Start ==
  /\ server = "down"
  /\ server' = IF dirty THEN "failed"
               ELSE IF counted /\ schema = 1 THEN "steps" ELSE "up to date"
  /\ UNCHANGED <<dbVars, counted, crashes>>

Mark(from) ==
  /\ server = from /\ ~dirty /\ schema < Newest
  /\ schema' = schema + 1 /\ dirty' = TRUE
  /\ UNCHANGED <<links, attempts, counted, server, crashes>>

(* links_new has attempt_id not null references attempts.                   *)
(* MUTANT: links without an attempt are copied all the same.                *)
FileSucceedsAlways == TRUE
FileSucceeds ==
  schema = LinksFix => \A c \in DOMAIN links : links[c].att \in DOMAIN attempts

(* Themes were renamed once.                                                *)
Renamed(t) == IF t = "iris" THEN "flowers" ELSE t

(* What the files make of the links.                                        *)
(* MUTANT: links are copied with a join on their attempts.                  *)
MigratedJoining ==
  [c \in {d \in DOMAIN links : schema # LinksFix \/ links[d].att \in DOMAIN attempts} |->
     IF schema = ToFlowers THEN [links[c] EXCEPT !.theme = Renamed(@)] ELSE links[c]]
Migrated ==
  IF schema = ToFlowers THEN [c \in DOMAIN links |-> [links[c] EXCEPT !.theme = Renamed(@)]]
  ELSE links

RunFile(from, ran) ==
  /\ server = from /\ dirty
  /\ server' = IF FileSucceeds THEN ran ELSE "failed"
  /\ links' = Migrated
  /\ UNCHANGED <<schema, dirty, attempts, counted, crashes>>

(* A crash before this leaves a version that is dirty though its file ran.   *)
MarkClean(ran, next) ==
  /\ server = ran
  /\ dirty' = FALSE /\ server' = next
  /\ UNCHANGED <<schema, links, attempts, counted, crashes>>

(* m.Steps(1), then the script; otherwise, and then, m.Up().                *)
MarkStep == Mark("steps")
RunStep == RunFile("steps", "stepped")
CleanStep == MarkClean("stepped", "script")
MarkUp == Mark("up to date")
RunUp == RunFile("up to date", "migrated")
CleanUp == MarkClean("migrated", "up to date")

(* attemptFromRecord.                                                       *)
Unknown == [kind |-> "WIN", verification |-> "UNKNOWN"]

(* FromV1ToV2: one transaction gives every link an attempt of its own.      *)
FromV1ToV2 ==
  /\ server = "script"
  /\ \E id \in [DOMAIN links -> Free] :
       /\ \A c, d \in DOMAIN links : c # d => id[c] # id[d]
       /\ links' = [c \in DOMAIN links |-> [links[c] EXCEPT !.att = id[c]]]
       /\ attempts' = [a \in DOMAIN attempts \union {id[c] : c \in DOMAIN links} |->
                         IF a \in DOMAIN attempts THEN attempts[a] ELSE Unknown]
  /\ server' = "up to date"
  /\ UNCHANGED <<schema, dirty, counted, crashes>>

Listen ==
  /\ server = "up to date" /\ schema = Newest /\ ~dirty
  /\ server' = "serving"
  /\ UNCHANGED <<dbVars, counted, crashes>>

Crash ==
  /\ server \notin {"down", "failed"} /\ crashes < MaxCrashes
  /\ server' = "down" /\ crashes' = crashes + 1
  /\ UNCHANGED <<dbVars, counted>>

Program ==
  \/ Start \/ MarkStep \/ RunStep \/ CleanStep \/ FromV1ToV2
  \/ MarkUp \/ RunUp \/ CleanUp \/ Listen

-----------------------------------------------------------------------------
(* Repository.Submit: any kind of attempt, not verified yet.                *)
Submit(a) ==
  /\ server = "serving" /\ a \in Free
  /\ attempts' = With(attempts, a, [kind |-> "WIN", verification |-> "PENDING"])
  /\ UNCHANGED <<schema, dirty, links, counted, server, crashes>>

Shareable(a) == a \in DOMAIN attempts /\ attempts[a].verification # "UNKNOWN"
(* MUTANT: links are unique by attempt, name and theme.                     *)
TakenByName(r) ==
  \E d \in DOMAIN links : links[d].att = r.att /\ links[d].theme = r.theme /\ links[d].name = r.name
Taken(r) == \E d \in DOMAIN links : links[d].att = r.att /\ links[d].theme = r.theme

(* The outcomes of trySaveWithCode with the code c, for a request that may   *)
(* name an attempt.  SQLite reports one of the constraints that a row breaks.*)
(* The page offers no other attempts than wins to share.                    *)
Verdicts(r, c) ==
  IF r.att # None /\ ~Shareable(r.att) THEN {"not found"}
  ELSE IF r.att # None /\ attempts[r.att].kind # "WIN" THEN {"attempt is not a win"}
  ELSE IF c \in DOMAIN links
  THEN {"retry"} \union (IF r.att # None /\ Taken(r) THEN {"already submitted"} ELSE {})
  ELSE IF r.att # None /\ Taken(r) THEN {"already submitted"} ELSE {"saved"}

(* MUTANT: the attempt is created before the transaction.                   *)
InsertEagerly(r, c, a, v) ==
  /\ attempts' = IF r.att = None THEN With(attempts, a, Unknown) ELSE attempts
  /\ links' = IF v = "saved"
              THEN With(links, c, [att |-> IF r.att = None THEN a ELSE r.att,
                                   theme |-> r.theme, name |-> r.name]) ELSE links
(* The transaction of one try: it creates the attempt of a request that has  *)
(* none, and is rolled back unless the link is inserted.                    *)
Insert(r, c, a, v) ==
  IF v = "saved"
  THEN /\ attempts' = IF r.att = None THEN With(attempts, a, Unknown) ELSE attempts
       /\ links' = With(links, c, [att |-> IF r.att = None THEN a ELSE r.att,
                                   theme |-> r.theme, name |-> r.name])
  ELSE UNCHANGED <<attempts, links>>

TrySave(r, c, v) ==
  /\ server = "serving" /\ v \in Verdicts(r, c)
  /\ \E a \in IF r.att = None THEN Free ELSE {None} : Insert(r, c, a, v)
  /\ UNCHANGED <<schema, dirty, counted, server, crashes>>

-----------------------------------------------------------------------------
RepositoryTypeOK ==
  /\ schema \in 0 .. Newest /\ dirty \in BOOLEAN /\ counted \in BOOLEAN
  /\ DOMAIN links \subseteq Code /\ \A c \in DOMAIN links : links[c] \in Link
  /\ DOMAIN attempts \subseteq Attempt /\ \A a \in DOMAIN attempts : attempts[a] \in Row
  /\ server \in {"down", "steps", "stepped", "script", "up to date", "migrated", "serving", "failed"}
  /\ crashes \in 0 .. MaxCrashes

(* Whatever step a start was interrupted at, a program that serves does so   *)
(* on the newest schema, where every link has its attempt (db.go:72-80,      *)
(* migrations.go:12-59, links-fix.up.sql).                                  *)
ServesMigrated ==
  server = "serving" =>
    /\ schema = Newest /\ ~dirty
    /\ \A c \in DOMAIN links : links[c].att \in DOMAIN attempts /\ links[c].theme # "iris"

(* No crash, retry or refusal leaves an attempt nobody made: those created   *)
(* for a link belong to exactly one (sqlite.go:63-112, migrations.go:43-51). *)
NoOrphans ==
  \A a \in DOMAIN attempts : attempts[a].verification = "UNKNOWN" =>
    Cardinality({c \in DOMAIN links : links[c].att = a}) = 1

(* A link outlives every migration and crash, as it was made.               *)
LinksKept ==
  [][\A c \in DOMAIN links :
       /\ c \in DOMAIN links'
       /\ links'[c].name = links[c].name
       /\ links'[c].theme \in {links[c].theme, Renamed(links[c].theme)}
       /\ links[c].att # None => links'[c].att = links[c].att]_links
=============================================================================
