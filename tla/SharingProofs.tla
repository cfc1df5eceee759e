---------------------------- MODULE SharingProofs ---------------------------
(***************************************************************************)
(* Proofs about Repository and Sharing, for any codes, themes, names,        *)
(* attempts, widgets, records and bounds: what migrations, crashes, retries, *)
(* lost answers and renamings leave true of the links.                      *)
(***************************************************************************)
EXTENDS Sharing, FiniteSetTheorems, TLAPS

\* version v of the schema is complete: its file ran
Through(v) == schema > v \/ (schema = v /\ ~dirty)

RepoType ==
  /\ schema \in 0 .. Newest
  /\ DOMAIN links \subseteq Code /\ \A c \in DOMAIN links : links[c] \in Link
  /\ DOMAIN attempts \subseteq Attempt /\ \A a \in DOMAIN attempts : attempts[a] \in Row

(* No attempt was made and no link knows of one.                            *)
Untouched == DOMAIN attempts = {} /\ \A c \in DOMAIN links : links[c].att = None

(* How far a start came tells what the schema is and what it still holds:    *)
(* only a schema that was never stepped to version 2 gets the script, and    *)
(* nothing is submitted before the last file ran.                           *)
StartInv ==
  /\ schema <= 1 => Untouched
  /\ server = "steps" => Untouched /\ schema \in {1, 2} /\ (schema = 2 <=> dirty)
  /\ server = "stepped" => Untouched /\ schema = 2
  /\ server = "script" => Untouched /\ schema = 2 /\ ~dirty
  /\ server = "serving" => Through(Newest)

(* A version whose file ran is dirty until it is marked clean.               *)
RanInv ==
  server \in {"stepped", "migrated"} =>
    /\ dirty
    /\ schema = LinksFix => \A c \in DOMAIN links : links[c].att \in DOMAIN attempts
    /\ schema = ToFlowers => \A c \in DOMAIN links : links[c].theme # "iris"

LinksInv ==
  /\ Through(LinksFix) => \A c \in DOMAIN links : links[c].att \in DOMAIN attempts
  /\ Through(ToFlowers) => \A c \in DOMAIN links : links[c].theme # "iris"
  /\ \A c, d \in DOMAIN links :
       c # d /\ links[c].att = links[d].att /\ links[c].att # None =>
         Through(Newest) /\ links[c].theme # links[d].theme
  /\ \A a \in DOMAIN attempts : attempts[a].verification = "UNKNOWN" =>
       \E c \in DOMAIN links :
         links[c].att = a /\ \A d \in DOMAIN links : links[d].att = a => d = c

RepoInv == RepoType /\ StartInv /\ RanInv /\ LinksInv

Shared == [rec : Record, att : Attempt \union {None}, theme : Themes, name : Name,
           data : Nat, code : Code \union {None}]

(* A request names its record's attempt, or none, and says what a record     *)
(* that never changes says.                                                 *)
Known(q) == (q.att # None => q.att = uuid[q.rec]) /\ (q.rec \notin Counts => q.data = 0)

(* A request that was answered is one the server has a link for, which was   *)
(* made to say what it says.                                                *)
Settled(q) ==
  /\ q \in Shared /\ Known(q)
  /\ q.code \in DOMAIN links
  /\ q.att # None => links[q.code].att = q.att
  /\ links[q.code].theme = q.theme /\ links[q.code].name = q.name
  /\ q.code \in DOMAIN said
  /\ q.rec \notin Counts => said[q.code] = [rec |-> q.rec, data |-> q.data]

Phase == {"idle", "find", "posted", "refused", "answered"}
ClientType ==
  /\ uuid \in [Record -> Attempt \union {None}] /\ sent \subseteq Record
  /\ data \in [Record -> Nat] /\ name \in Name
  /\ phase \in [Widget -> Phase] /\ req \in [Widget -> Shared \union {NoRequest}]
  /\ DOMAIN said \subseteq DOMAIN links

RecordInv ==
  /\ \A r \in Record : uuid[r] # None => r \in sent /\ uuid[r] \in DOMAIN attempts
  /\ \A r, s \in Record : uuid[r] = uuid[s] /\ uuid[r] # None => r = s
  /\ \A r \in Record \ Counts : data[r] = 0

(* What the browser keeps or shows, it has from a server on the last schema. *)
SettledInv ==
  /\ \A w \in Widget : phase[w] # "idle" => req[w] \in Shared /\ Known(req[w])
  /\ \A w \in Widget : phase[w] = "answered" => Settled(req[w]) /\ Through(Newest)
  /\ \A q \in cache \union shown : Settled(q) /\ Through(Newest)

SharingInv == RepoInv /\ ClientType /\ RecordInv /\ SettledInv
-----------------------------------------------------------------------------
(* Every theme of today is one after the renaming.                          *)
LEMMA ThemesOfToday == Themes \subseteq Theme \ {"iris"}
BY RepositoryAssumption DEF RepositoryAssumption, Themes, Renamed

LEMMA RepoStart == RepositoryInit => RepoInv
<1> SUFFICES ASSUME RepositoryInit PROVE RepoInv
  OBVIOUS
<1>. USE RepositoryAssumption DEF RepositoryAssumption
<1>1. DOMAIN attempts = {}
  BY DEF RepositoryInit
<1>2. schema \in {0, 1} /\ dirty = FALSE /\ server = "down"
  BY DEF RepositoryInit
<1>3. DOMAIN links \subseteq Code /\ \A c \in DOMAIN links : links[c] \in Link /\ links[c].att = None
  <2>1. CASE links = <<>>
    BY <2>1
  <2>2. CASE links \in [OldCodes -> [att : {None}, theme : {"iris"}, name : {Anonymous}]]
    BY <2>2 DEF Link
  <2>. QED  BY <2>1, <2>2 DEF RepositoryInit
<1>4. RepoType
  BY <1>1, <1>2, <1>3 DEF RepoType, Newest
<1>5. StartInv
  BY <1>1, <1>2, <1>3 DEF StartInv, Untouched
<1>6. LinksInv
  BY <1>1, <1>2, <1>3 DEF LinksInv, Through, LinksFix, ToFlowers
<1>7. RanInv
  BY <1>2 DEF RanInv
<1>. QED  BY <1>4, <1>5, <1>6, <1>7 DEF RepoInv

-----------------------------------------------------------------------------
(* The steps of a start, one lemma for each kind.                           *)

\* what is served is only read by a start
Kept == UNCHANGED <<links, attempts>>

LEMMA ControlStep ==
  ASSUME RepoInv, Start \/ Listen \/ Crash
  PROVE  RepoInv' /\ Kept /\ UNCHANGED <<schema, dirty>>
<1>1. UNCHANGED <<schema, dirty, links, attempts>>
  BY DEF Start, Listen, Crash, dbVars
<1>2. LinksInv'
  BY <1>1 DEF RepoInv, LinksInv, Through
<1>3. RepoType'
  BY <1>1 DEF RepoInv, RepoType, Start, Listen, Crash
<1>4. StartInv'
  <2>1. CASE Start
    <3>1. schema <= 1 => Untouched'
      BY <1>1 DEF RepoInv, StartInv, Untouched
    <3>2. CASE dirty
      BY <1>1, <2>1, <3>1, <3>2 DEF StartInv, Start
    <3>3. CASE ~dirty /\ ~(counted /\ schema = 1)
      BY <1>1, <2>1, <3>1, <3>3 DEF StartInv, Start
    <3>4. CASE ~dirty /\ schema = 1
      <4>1. Untouched' /\ schema' = 1 /\ ~dirty'
        BY <1>1, <3>1, <3>4
      <4>2. server' \in {"steps", "up to date", "failed"}
        BY <2>1, <3>4 DEF Start
      <4>3. server' \notin {"stepped", "script", "serving"}
        BY <4>2
      <4>4. schema' \in {1, 2} /\ schema' # 2
        BY <4>1
      <4>. QED  BY <4>1, <4>3, <4>4, Zenon DEF StartInv
    <3>. QED  BY <3>2, <3>3, <3>4
  <2>2. CASE Listen
    BY <1>1, <2>2 DEF RepoInv, RepoType, StartInv, Untouched, Listen, Through
  <2>3. CASE Crash
    BY <1>1, <2>3 DEF RepoInv, RepoType, StartInv, Untouched, Crash
  <2>. QED  BY <2>1, <2>2, <2>3
<1>5. RanInv'
  BY DEF RanInv, Start, Listen, Crash
<1>. QED  BY <1>1, <1>2, <1>3, <1>4, <1>5 DEF RepoInv, Kept

LEMMA MarkStepHolds ==
  ASSUME RepoInv, MarkStep \/ MarkUp
  PROVE  RepoInv' /\ Kept /\ ~Through(Newest)
<1>1. /\ links' = links /\ attempts' = attempts
      /\ schema' = schema + 1 /\ schema < Newest
      /\ dirty' /\ ~dirty
  BY Zenon DEF MarkStep, MarkUp, Mark
<1>2a. server' = server /\ (server = "steps" \/ server = "up to date")
  BY Zenon DEF MarkStep, MarkUp, Mark
<1>2. schema \in 0 .. 4 /\ schema' \in 1 .. 5
  BY <1>1 DEF RepoInv, RepoType, Newest
<1>3. /\ Through(LinksFix)' => Through(LinksFix)
      /\ Through(ToFlowers)' => Through(ToFlowers)
      /\ ~Through(Newest)
  BY <1>1, <1>2 DEF Through, LinksFix, ToFlowers, Newest
<1>4. LinksInv'
  BY <1>1, <1>3 DEF RepoInv, LinksInv
<1>5. RepoType'
  BY <1>1, <1>2 DEF RepoInv, RepoType, Newest
<1>6. StartInv'
  <2>1. CASE server = "steps"
    <3>1. Untouched' /\ schema' = 2
      BY <1>1, <2>1 DEF RepoInv, StartInv, Untouched
    <3>. QED  BY <1>1, <1>2a, <2>1, <3>1 DEF StartInv
  <2>2. CASE server = "up to date"
    <3>1. schema' <= 1 => Untouched'
      BY <1>1, <1>2 DEF RepoInv, StartInv, Untouched
    <3>. QED  BY <1>2a, <2>2, <3>1 DEF StartInv
  <2>. QED  BY <1>2a, <2>1, <2>2
<1>7. RanInv'
  BY <1>2a DEF RanInv
<1>. QED  BY <1>1, <1>3, <1>4, <1>5, <1>6, <1>7 DEF RepoInv, Kept

(* A file changes no link but for its theme, and that to today's.           *)
LEMMA MigratedFacts ==
  ASSUME RepoType
  PROVE  /\ DOMAIN Migrated = DOMAIN links
         /\ \A c \in DOMAIN links :
              /\ Migrated[c] \in Link
              /\ Migrated[c].att = links[c].att /\ Migrated[c].name = links[c].name
              /\ Migrated[c].theme = IF schema = ToFlowers THEN Renamed(links[c].theme)
                                     ELSE links[c].theme
<1>1. \A c \in DOMAIN links : links[c] \in Link
  BY DEF RepoType
<1>2. CASE schema # ToFlowers
  BY <1>1, <1>2 DEF Migrated
<1>3. CASE schema = ToFlowers
  <2>1. Migrated = [c \in DOMAIN links |-> [links[c] EXCEPT !.theme = Renamed(@)]]
    BY <1>3 DEF Migrated
  <2>2. \A t \in Theme : Renamed(t) \in Theme
    BY RepositoryAssumption DEF RepositoryAssumption, Renamed
  <2>. QED  BY <1>1, <1>3, <2>1, <2>2 DEF Link
<1>. QED  BY <1>2, <1>3

LEMMA RunFileHolds ==
  ASSUME RepoInv, RunStep \/ RunUp
  PROVE  /\ RepoInv' /\ ~Through(Newest)
         /\ links' = Migrated /\ attempts' = attempts
<1>0. /\ dirty /\ dirty' = dirty /\ links' = Migrated /\ schema' = schema /\ attempts' = attempts
      /\ ~FileSucceeds => server' = "failed"
  BY Zenon DEF RunStep, RunUp, RunFile
<1>1. /\ dirty /\ dirty' /\ links' = Migrated /\ schema' = schema /\ attempts' = attempts
      /\ ~FileSucceeds => server' = "failed"
  BY <1>0
<1>2. schema \in 0 .. 5
  BY <1>1 DEF RepoInv, RepoType, Newest
<1>3. /\ DOMAIN links' = DOMAIN links
      /\ \A c \in DOMAIN links : links'[c] \in Link /\ links'[c].att = links[c].att
      /\ \A c \in DOMAIN links :
           links'[c].theme = IF schema = ToFlowers THEN Renamed(links[c].theme)
                             ELSE links[c].theme
  BY <1>1, MigratedFacts DEF RepoInv
<1>4. ~Through(Newest)
  BY <1>1, <1>2 DEF Through, Newest
<1>5. LinksInv'
  <2>1. Through(LinksFix)' => \A c \in DOMAIN links' : links'[c].att \in DOMAIN attempts'
    BY <1>1, <1>3 DEF RepoInv, LinksInv, Through
  <2>2. Through(ToFlowers)' => \A c \in DOMAIN links' : links'[c].theme # "iris"
    BY <1>1, <1>2, <1>3 DEF RepoInv, LinksInv, Through, ToFlowers
  <2>3. ASSUME NEW c \in DOMAIN links', NEW d \in DOMAIN links',
               c # d /\ links'[c].att = links'[d].att /\ links'[c].att # None
        PROVE  FALSE
    BY <1>3, <1>4, <2>3 DEF RepoInv, LinksInv
  <2>4. \A a \in DOMAIN attempts' : attempts'[a].verification = "UNKNOWN" =>
          \E c \in DOMAIN links' :
            links'[c].att = a /\ \A d \in DOMAIN links' : links'[d].att = a => d = c
    BY <1>1, <1>3 DEF RepoInv, LinksInv
  <2>. QED  BY <2>1, <2>2, <2>3, <2>4 DEF LinksInv
<1>6. RepoType'
  BY <1>1, <1>2, <1>3 DEF RepoInv, RepoType
<1>7. StartInv'
  <2>1. Untouched => Untouched'
    BY <1>1, <1>3 DEF Untouched
  <2>2. schema <= 1 => Untouched
    BY DEF RepoInv, StartInv
  <2>3. CASE RunStep
    <3>1. Untouched /\ schema = 2 /\ server' \in {"stepped", "failed"}
      BY <1>1, <2>3 DEF RunStep, RunFile, RepoInv, StartInv
    <3>. QED  BY <1>1, <2>1, <3>1 DEF StartInv
  <2>4. CASE RunUp
    <3>1. server' \in {"migrated", "failed"}
      BY <2>4 DEF RunUp, RunFile
    <3>. QED  BY <1>1, <2>1, <2>2, <3>1 DEF StartInv
  <2>. QED  BY <2>3, <2>4
<1>8. RanInv'
  <2>1. ASSUME FileSucceeds, schema = LinksFix, NEW c \in DOMAIN links'
        PROVE  links'[c].att \in DOMAIN attempts'
    BY <1>1, <1>3, <2>1 DEF FileSucceeds
  <2>2. ASSUME schema = ToFlowers, NEW c \in DOMAIN links' PROVE links'[c].theme # "iris"
    BY <1>3, <2>2 DEF Renamed
  <2>. QED  BY <1>1, <2>1, <2>2 DEF RanInv
<1>. QED  BY <1>1, <1>4, <1>5, <1>6, <1>7, <1>8 DEF RepoInv

LEMMA MarkCleanHolds ==
  ASSUME RepoInv, CleanStep \/ CleanUp
  PROVE  RepoInv' /\ Kept /\ ~Through(Newest)
<1>1. /\ links' = links /\ attempts' = attempts /\ schema' = schema /\ ~dirty'
      /\ server \in {"stepped", "migrated"} /\ server' \in {"script", "up to date"}
      /\ server' = "script" => server = "stepped"
  BY Zenon DEF CleanStep, CleanUp, MarkClean
<1>2. schema \in 0 .. 5 /\ dirty
  BY <1>1 DEF RepoInv, RepoType, RanInv, Newest
<1>3. ~Through(Newest)
  BY <1>2 DEF Through, Newest
<1>4. LinksInv'
  <2>1. Through(LinksFix)' => \A c \in DOMAIN links' : links'[c].att \in DOMAIN attempts'
    BY <1>1 DEF RepoInv, LinksInv, RanInv, Through
  <2>2. Through(ToFlowers)' => \A c \in DOMAIN links' : links'[c].theme # "iris"
    BY <1>1 DEF RepoInv, LinksInv, RanInv, Through
  <2>3. ASSUME NEW c \in DOMAIN links', NEW d \in DOMAIN links',
               c # d /\ links'[c].att = links'[d].att /\ links'[c].att # None
        PROVE  FALSE
    BY <1>1, <1>3, <2>3 DEF RepoInv, LinksInv
  <2>4. \A a \in DOMAIN attempts' : attempts'[a].verification = "UNKNOWN" =>
          \E c \in DOMAIN links' :
            links'[c].att = a /\ \A d \in DOMAIN links' : links'[d].att = a => d = c
    <3>1. \A a \in DOMAIN attempts : attempts[a].verification = "UNKNOWN" =>
            \E c \in DOMAIN links :
              links[c].att = a /\ \A d \in DOMAIN links : links[d].att = a => d = c
      BY DEF RepoInv, LinksInv
    <3>2. links' = links /\ attempts' = attempts
      BY <1>1
    <3>. QED  BY <3>1, <3>2
  <2>. QED  BY <2>1, <2>2, <2>3, <2>4 DEF LinksInv
<1>5. RepoType' /\ RanInv'
  BY <1>1 DEF RepoInv, RepoType, RanInv
<1>6. StartInv'
  BY <1>1 DEF RepoInv, StartInv, Untouched
<1>. QED  BY <1>1, <1>3, <1>4, <1>5, <1>6 DEF RepoInv, Kept

(* The script gives every link an attempt of its own.                       *)
LEMMA ScriptHolds ==
  ASSUME RepoInv, FromV1ToV2
  PROVE  /\ RepoInv' /\ ~Through(Newest)
         /\ DOMAIN links' = DOMAIN links /\ DOMAIN attempts = {}
         /\ \A c \in DOMAIN links : /\ links[c].att = None
                                    /\ links'[c].name = links[c].name
                                    /\ links'[c].theme = links[c].theme
<1>0. server = "script" /\ server' = "up to date"
  BY Zenon DEF FromV1ToV2
<1>1. schema' = 2 /\ schema = 2 /\ ~dirty /\ ~dirty' /\ Untouched
  BY <1>0, Zenon DEF FromV1ToV2, RepoInv, StartInv
<1>2. PICK id \in [DOMAIN links -> Free] :
        /\ \A c, d \in DOMAIN links : c # d => id[c] # id[d]
        /\ links' = [c \in DOMAIN links |-> [links[c] EXCEPT !.att = id[c]]]
        /\ attempts' = [a \in DOMAIN attempts \union {id[c] : c \in DOMAIN links} |->
                          IF a \in DOMAIN attempts THEN attempts[a] ELSE Unknown]
  BY DEF FromV1ToV2
<1>3. /\ DOMAIN links' = DOMAIN links
      /\ \A c \in DOMAIN links :
           /\ id[c] \in Attempt /\ links'[c] \in Link
           /\ links'[c].att = id[c] /\ links'[c].name = links[c].name
           /\ links'[c].theme = links[c].theme
  BY <1>2 DEF RepoInv, RepoType, Link, Free
<1>4. /\ DOMAIN attempts' = {id[c] : c \in DOMAIN links}
      /\ \A a \in DOMAIN attempts' : attempts'[a] = Unknown
  BY <1>1, <1>2 DEF Untouched
<1>5. RepoType'
  BY <1>1, <1>3, <1>4 DEF RepoInv, RepoType, Unknown, Row
<1>6. StartInv'
  <2>1. ~(schema' <= 1)
    BY <1>1
  <2>. QED  BY <1>0, <2>1 DEF StartInv
<1>7. LinksInv'
  <2>1. ~Through(ToFlowers)'
    BY <1>1 DEF Through, ToFlowers
  <2>2. \A c \in DOMAIN links' : links'[c].att \in DOMAIN attempts'
    BY <1>3, <1>4
  <2>3. \A c, d \in DOMAIN links' : links'[c].att = links'[d].att => c = d
    BY <1>2, <1>3
  <2>4. \A a \in DOMAIN attempts' : \E c \in DOMAIN links' : links'[c].att = a
    BY <1>3, <1>4
  <2>. QED  BY <2>1, <2>2, <2>3, <2>4 DEF LinksInv
<1>8. ~Through(Newest)
  BY <1>1 DEF Through, Newest
<1>9. RanInv'
  BY <1>0 DEF RanInv
<1>. QED  BY <1>1, <1>3, <1>5, <1>6, <1>7, <1>8, <1>9 DEF RepoInv, Untouched

(* What a start makes of the links: nothing once the schema is the newest.   *)
LEMMA ProgramHolds ==
  ASSUME RepoInv, Program \/ Crash
  PROVE  /\ RepoInv'
         /\ DOMAIN links' = DOMAIN links /\ DOMAIN attempts \subseteq DOMAIN attempts'
         /\ Through(Newest) => Through(Newest)' /\ links' = links
<1>1. CASE Start \/ Listen \/ Crash
  BY <1>1, ControlStep DEF Kept, Through
<1>2. CASE MarkStep \/ MarkUp
  BY <1>2, MarkStepHolds DEF Kept
<1>5. CASE CleanStep \/ CleanUp
  BY <1>5, MarkCleanHolds DEF Kept
<1>3. CASE RunStep \/ RunUp
  BY <1>3, RunFileHolds, MigratedFacts DEF RepoInv
<1>4. CASE FromV1ToV2
  BY <1>4, ScriptHolds
<1>. QED  BY <1>1, <1>2, <1>3, <1>4, <1>5 DEF Program

-----------------------------------------------------------------------------
(* What the handlers do, which a server on the newest schema runs.          *)

LEMMA NewestIsLast ==
  ASSUME schema \in 0 .. Newest, Through(Newest), schema' = schema, dirty' = dirty
  PROVE  /\ schema = Newest /\ ~dirty /\ Through(Newest)'
         /\ Through(LinksFix) /\ Through(ToFlowers)
         /\ ~(schema' <= 1)
BY DEF Through, Newest, LinksFix, ToFlowers

LEMMA ServedNewest ==
  ASSUME RepoInv, server = "serving", UNCHANGED <<schema, dirty>>
  PROVE  /\ Through(Newest) /\ Through(Newest)'
         /\ Through(LinksFix) /\ Through(ToFlowers)
         /\ ~(schema' <= 1)
<1>1. Through(Newest)
  BY DEF RepoInv, StartInv
<1>2. schema \in 0 .. Newest
  BY DEF RepoInv, RepoType
<1>. QED  BY <1>1, <1>2, NewestIsLast

LEMMA SubmitHolds ==
  ASSUME RepoInv, NEW a, Submit(a)
  PROVE  /\ RepoInv' /\ links' = links /\ UNCHANGED <<schema, dirty>>
         /\ a \in Attempt /\ a \notin DOMAIN attempts
         /\ DOMAIN attempts' = DOMAIN attempts \union {a}
<1>0. server = "serving" /\ UNCHANGED <<schema, dirty, links, server>>
  BY DEF Submit
<1>1. Through(Newest)' /\ ~(schema' <= 1)
  BY <1>0, ServedNewest
<1>2. /\ a \in Attempt /\ a \notin DOMAIN attempts
      /\ attempts' = With(attempts, a, [kind |-> "WIN", verification |-> "PENDING"])
  BY DEF Submit, Free
<1>3. /\ DOMAIN attempts' = DOMAIN attempts \union {a}
      /\ attempts'[a] = [kind |-> "WIN", verification |-> "PENDING"]
      /\ \A b \in DOMAIN attempts : b # a => attempts'[b] = attempts[b]
  BY <1>2 DEF With
<1>4. RepoType'
  BY <1>0, <1>2, <1>3 DEF RepoInv, RepoType, Row
<1>5. StartInv'
  BY <1>0, <1>1 DEF StartInv
<1>6. LinksInv'
  BY <1>0, <1>2, <1>3 DEF RepoInv, LinksInv, Through
<1>7. RanInv'
  BY <1>0 DEF RanInv
<1>. QED  BY <1>0, <1>2, <1>3, <1>4, <1>5, <1>6, <1>7 DEF RepoInv

(* A link made by a try is what was asked for, under a code nobody had.      *)
Saved(q, c) ==
  /\ c \notin DOMAIN links
  /\ DOMAIN links' = DOMAIN links \union {c}
  /\ \A d \in DOMAIN links : links'[d] = links[d]
  /\ q.att # None => links'[c].att = q.att
  /\ links'[c].theme = q.theme /\ links'[c].name = q.name

LEMMA TrySaveHolds ==
  ASSUME RepoInv, NEW q \in Shared, NEW c \in Code, NEW v, TrySave(q, c, v)
  PROVE  /\ RepoInv' /\ Through(Newest) /\ UNCHANGED <<schema, dirty>>
         /\ DOMAIN attempts \subseteq DOMAIN attempts'
         /\ IF v = "saved" THEN Saved(q, c) ELSE UNCHANGED <<links, attempts>>
<1>0. server = "serving" /\ UNCHANGED <<schema, dirty, server>>
  BY DEF TrySave
<1>1. /\ Through(Newest) /\ Through(Newest)'
      /\ Through(LinksFix) /\ Through(ToFlowers) /\ ~(schema' <= 1)
  BY <1>0, ServedNewest
<1>2. StartInv'
  BY <1>0, <1>1 DEF StartInv
<1>5. RanInv'
  BY <1>0 DEF RanInv
<1>3. CASE v # "saved"
  <2>1. UNCHANGED <<links, attempts>>
    BY <1>3 DEF TrySave, Insert
  <2>2. RepoType' /\ LinksInv'
    BY <1>0, <2>1 DEF RepoInv, RepoType, LinksInv, Through
  <2>. QED  BY <1>0, <1>1, <1>2, <1>3, <1>5, <2>1, <2>2 DEF RepoInv
<1>4. CASE v = "saved"
  <2>0. q.theme \in Theme /\ q.theme # "iris" /\ q.name \in Name /\ q.att \in Attempt \union {None}
    BY ThemesOfToday DEF Shared
  <2>1. /\ c \notin DOMAIN links
        /\ q.att # None => /\ q.att \in DOMAIN attempts
                           /\ attempts[q.att].verification # "UNKNOWN"
                           /\ \A d \in DOMAIN links : ~(links[d].att = q.att /\ links[d].theme = q.theme)
    BY <1>4 DEF TrySave, Verdicts, Shareable, Taken
  <2>2. PICK a \in IF q.att = None THEN Free ELSE {None} : Insert(q, c, a, v)
    BY DEF TrySave
  <2>. DEFINE new == IF q.att = None THEN a ELSE q.att
  <2>3. /\ new \in Attempt /\ new # None
        /\ q.att = None => new \notin DOMAIN attempts
    BY <2>0, <2>2, RepositoryAssumption DEF Free, RepositoryAssumption
  <2>4. /\ attempts' = IF q.att = None THEN With(attempts, a, Unknown) ELSE attempts
        /\ links' = With(links, c, [att |-> new, theme |-> q.theme, name |-> q.name])
    BY <1>4, <2>2 DEF Insert
  <2>5. /\ DOMAIN links' = DOMAIN links \union {c}
        /\ links'[c] = [att |-> new, theme |-> q.theme, name |-> q.name]
        /\ \A d \in DOMAIN links : links'[d] = links[d]
    BY <2>1, <2>4 DEF With
  <2>6. /\ DOMAIN attempts' = DOMAIN attempts \union {new}
        /\ q.att = None => attempts'[new] = Unknown
        /\ q.att # None => attempts'[new] = attempts[new] /\ attempts[new].verification # "UNKNOWN"
        /\ \A b \in DOMAIN attempts : attempts'[b] = attempts[b]
    <3>1. CASE q.att = None
      BY <2>3, <2>4, <3>1 DEF With
    <3>2. CASE q.att # None
      BY <2>1, <2>4, <3>2
    <3>. QED  BY <3>1, <3>2
  <2>7. RepoType'
    <3>1. attempts'[new] \in Row
      BY <2>1, <2>6 DEF RepoInv, RepoType, Unknown, Row
    <3>2. links'[c] \in Link
      BY <2>0, <2>3, <2>5 DEF Link
    <3>. HIDE DEF new
    <3>. QED  BY <1>0, <2>3, <2>5, <2>6, <3>1, <3>2 DEF RepoInv, RepoType
  <2>8. \A d \in DOMAIN links : links[d].att \in DOMAIN attempts /\ links[d].theme # "iris"
    BY <1>1 DEF RepoInv, LinksInv
  <2>9. \A d \in DOMAIN links : links[d].att = new => q.att # None /\ links[d].theme # q.theme
    BY <2>1, <2>3, <2>8
  <2>10. LinksInv'
    <3>. HIDE DEF new
    <3>1. \A d \in DOMAIN links' : links'[d].att \in DOMAIN attempts' /\ links'[d].theme # "iris"
      BY <2>0, <2>5, <2>6, <2>8
    <3>2. ASSUME NEW d \in DOMAIN links', NEW e \in DOMAIN links', d # e,
                 links'[d].att = links'[e].att
          PROVE  links'[d].theme # links'[e].theme
      <4>1. CASE d # c /\ e # c
        BY <2>5, <2>8, <3>2, <4>1, RepositoryAssumption
           DEF RepoInv, RepoType, LinksInv, RepositoryAssumption
      <4>2. CASE d = c \/ e = c
        BY <2>5, <2>9, <3>2, <4>2
      <4>. QED  BY <4>1, <4>2
    <3>3. ASSUME NEW b \in DOMAIN attempts', attempts'[b].verification = "UNKNOWN"
          PROVE  \E d \in DOMAIN links' :
                   links'[d].att = b /\ \A e \in DOMAIN links' : links'[e].att = b => e = d
      <4>1. CASE b = new
        <5>1. q.att = None
          BY <2>6, <3>3, <4>1
        <5>. QED  BY <2>5, <2>9, <4>1, <5>1
      <4>2. CASE b # new
        <5>1. b \in DOMAIN attempts /\ attempts[b].verification = "UNKNOWN"
          BY <2>6, <3>3, <4>2
        <5>. QED  BY <2>5, <4>2, <5>1 DEF RepoInv, LinksInv
      <4>. QED  BY <4>1, <4>2
    <3>. QED  BY <1>1, <3>1, <3>2, <3>3 DEF LinksInv
  <2>11. Saved(q, c)
    BY <2>1, <2>5 DEF Saved
  <2>. QED  BY <1>0, <1>1, <1>2, <1>4, <1>5, <2>6, <2>7, <2>10, <2>11 DEF RepoInv
<1>. QED  BY <1>3, <1>4

-----------------------------------------------------------------------------
(* What every step of the system leaves of what was settled.                *)
Grows ==
  /\ DOMAIN links \subseteq DOMAIN links' /\ \A c \in DOMAIN links : links'[c] = links[c]
  /\ DOMAIN said \subseteq DOMAIN said' /\ \A c \in DOMAIN said : said'[c] = said[c]
  /\ \A r \in Record : uuid[r] # None => uuid'[r] = uuid[r]

LEMMA KnownStays ==
  ASSUME NEW q \in Shared, Known(q), Grows
  PROVE  Known(q)'
BY DEF Known, Grows, Shared

LEMMA SettledStays ==
  ASSUME NEW q, Settled(q), Grows
  PROVE  Settled(q)'
<1>1. q \in Shared /\ Known(q)'
  BY KnownStays DEF Settled
<1>. QED  BY <1>1 DEF Settled, Grows

LEMMA ProgramStep ==
  ASSUME SharingInv, Program \/ Crash, UNCHANGED clientVars
  PROVE  SharingInv'
<1>1. UNCHANGED <<uuid, sent, data, name, cache, phase, req, said, shown>>
  BY DEF clientVars
<1>2. /\ RepoInv'
      /\ DOMAIN links' = DOMAIN links /\ DOMAIN attempts \subseteq DOMAIN attempts'
      /\ Through(Newest) => Through(Newest)' /\ links' = links
  BY ProgramHolds DEF SharingInv
<1>3. ClientType'
  BY <1>1, <1>2 DEF SharingInv, ClientType
<1>4. RecordInv'
  BY <1>1, <1>2 DEF SharingInv, RecordInv
<1>5. SettledInv'
  <2>1. \A w \in Widget : phase[w] # "idle" => req[w] \in Shared /\ Known(req[w])'
    BY <1>1 DEF SharingInv, SettledInv, Known
  <2>2. CASE Through(Newest)
    <3>1. Grows /\ Through(Newest)'
      BY <1>1, <1>2, <2>2 DEF Grows
    <3>2. ASSUME NEW q, Settled(q)
          PROVE  Settled(q)'
      BY <3>1, <3>2, SettledStays
    <3>3. \A w \in Widget : phase[w] = "answered" => Settled(req[w])'
      <4>1. \A w \in Widget : Settled(req[w]) => (Settled(req[w]))'
        BY <1>1, <1>2, <2>2 DEF Settled, Known
      <4>. QED  BY <4>1 DEF SharingInv, SettledInv
    <3>. QED  BY <1>1, <2>1, <3>1, <3>2, <3>3 DEF SharingInv, SettledInv
  <2>3. CASE ~Through(Newest)
    <3>1. cache \union shown = {} /\ \A w \in Widget : phase[w] # "answered"
      BY <2>3 DEF SharingInv, SettledInv
    <3>. QED  BY <1>1, <2>1, <3>1 DEF SettledInv
  <2>. QED  BY <2>2, <2>3
<1>. QED  BY <1>2, <1>3, <1>4, <1>5 DEF SharingInv

LEMMA SubmitRecordStep ==
  ASSUME SharingInv, NEW r \in Record, NEW a \in Attempt, NEW answered \in BOOLEAN,
         SubmitRecord(r, a, answered)
  PROVE  SharingInv'
<1>1. UNCHANGED <<data, name, cache, phase, req, said, shown>>
  BY DEF SubmitRecord
<1>2. /\ RepoInv' /\ links' = links /\ UNCHANGED <<schema, dirty>>
      /\ a \notin DOMAIN attempts
      /\ DOMAIN attempts' = DOMAIN attempts \union {a}
  BY SubmitHolds DEF SubmitRecord, SharingInv
<1>3. /\ r \notin sent /\ r \notin Counts /\ sent' = sent \union {r}
      /\ uuid' = uuid \/ uuid' = [uuid EXCEPT ![r] = a]
  BY DEF SubmitRecord
<1>4. uuid[r] = None /\ a # None
  BY <1>3, RepositoryAssumption DEF SharingInv, RecordInv, RepositoryAssumption
<1>5. /\ uuid' \in [Record -> Attempt \union {None}]
      /\ \A s \in Record : s # r => uuid'[s] = uuid[s]
      /\ uuid'[r] \in {None, a}
  BY <1>3, <1>4 DEF SharingInv, ClientType
<1>6. ClientType'
  BY <1>1, <1>2, <1>3, <1>5 DEF SharingInv, ClientType
<1>7. RecordInv'
  BY <1>1, <1>2, <1>3, <1>4, <1>5 DEF SharingInv, RecordInv
<1>8. Grows /\ (Through(Newest) => Through(Newest)')
  BY <1>1, <1>2, <1>4, <1>5 DEF Grows, Through
<1>9. SettledInv'
  BY <1>1, <1>8 DEF SharingInv, SettledInv, Settled, Known, Grows, Shared
<1>. QED  BY <1>2, <1>6, <1>7, <1>9 DEF SharingInv

(* A step of the client alone.                                              *)
LEMMA RepoAlone ==
  ASSUME SharingInv, UNCHANGED repoVars
  PROVE  RepoInv' /\ links' = links /\ attempts' = attempts /\ (Through(Newest) => Through(Newest)')
<1>1. UNCHANGED <<schema, dirty, links, attempts, server>>
  BY DEF repoVars, dbVars
<1>2. RepoType' /\ LinksInv' /\ (Through(Newest) => Through(Newest)')
  BY <1>1 DEF SharingInv, RepoInv, RepoType, LinksInv, Through
<1>3. StartInv'
  <2>1. /\ Through(Newest)' <=> Through(Newest)
        /\ Untouched' <=> Untouched
    BY <1>1 DEF Through, Untouched
  <2>. QED  BY <1>1, <2>1 DEF SharingInv, RepoInv, StartInv
<1>4. RanInv'
  BY <1>1 DEF SharingInv, RepoInv, RanInv
<1>. QED  BY <1>1, <1>2, <1>3, <1>4 DEF RepoInv

LEMMA ChangeStep ==
  ASSUME SharingInv, Change
  PROVE  SharingInv'
<1>1. UNCHANGED <<uuid, sent, cache, phase, req, said, shown>> /\ UNCHANGED repoVars
  BY DEF Change
<1>2. /\ RepoInv' /\ links' = links /\ attempts' = attempts
      /\ Through(Newest) => Through(Newest)'
  BY <1>1, RepoAlone
<1>3. /\ name' \in Name /\ data' \in [Record -> Nat]
      /\ \A r \in Record \ Counts : data'[r] = data[r]
  BY SharingAssumption DEF Change, SharingInv, ClientType, SharingAssumption
<1>4. ClientType'
  BY <1>1, <1>2, <1>3 DEF SharingInv, ClientType
<1>5. RecordInv'
  BY <1>1, <1>2, <1>3 DEF SharingInv, RecordInv
<1>6. SettledInv'
  BY <1>1, <1>2 DEF SharingInv, SettledInv, Settled, Known
<1>. QED  BY <1>2, <1>4, <1>5, <1>6 DEF SharingInv

LEMMA ClickStep ==
  ASSUME SharingInv, NEW w \in Widget, NEW r \in Record, NEW t \in Themes, Click(w, r, t)
  PROVE  SharingInv'
<1>1. UNCHANGED <<uuid, sent, data, name, cache, said, shown>> /\ UNCHANGED repoVars
  BY DEF Click
<1>2. /\ RepoInv' /\ links' = links /\ attempts' = attempts
      /\ Through(Newest) => Through(Newest)'
  BY <1>1, RepoAlone
<1>3. PICK q : q = [rec |-> r, att |-> uuid[r], theme |-> t, name |-> name,
                    data |-> data[r], code |-> None]
  OBVIOUS
<1>4. q \in Shared /\ Known(q)
  BY <1>3 DEF SharingInv, ClientType, RecordInv, Shared, Known
<1>5. phase' = [phase EXCEPT ![w] = "find"] /\ req' = [req EXCEPT ![w] = q]
  BY <1>3 DEF Click
<1>6. ClientType' /\ RecordInv'
  BY <1>1, <1>2, <1>4, <1>5 DEF SharingInv, ClientType, RecordInv, Phase
<1>7. SettledInv'
  <2>1. /\ phase'[w] = "find" /\ req'[w] = q
        /\ \A v \in Widget : v # w => phase'[v] = phase[v] /\ req'[v] = req[v]
    BY <1>5 DEF SharingInv, ClientType
  <2>2. \A v \in Widget : phase'[v] # "idle" => req'[v] \in Shared /\ Known(req[v])'
    BY <1>1, <1>4, <2>1 DEF SharingInv, SettledInv, Known
  <2>3. \A v \in Widget : phase'[v] = "answered" => Settled(req[v])' /\ Through(Newest)'
    BY <1>1, <1>2, <2>1 DEF SharingInv, SettledInv, Settled, Known
  <2>4. \A x \in cache' \union shown' : Settled(x)' /\ Through(Newest)'
    BY <1>1, <1>2 DEF SharingInv, SettledInv, Settled, Known
  <2>. QED  BY <2>2, <2>3, <2>4 DEF SettledInv
<1>. QED  BY <1>2, <1>6, <1>7 DEF SharingInv

(* A call that ends: what is shown was settled.                             *)
LEMMA EndsSettled ==
  ASSUME SharingInv, NEW w \in Widget, UNCHANGED repoVars,
         UNCHANGED <<uuid, sent, data, name, said>>,
         phase' = [phase EXCEPT ![w] = "idle"], req' = [req EXCEPT ![w] = NoRequest],
         \A x \in cache' \union shown' : x \in cache \union shown \/ (Settled(x) /\ Through(Newest))
  PROVE  SharingInv'
<1>1. /\ RepoInv' /\ links' = links /\ attempts' = attempts
      /\ Through(Newest) => Through(Newest)'
  BY RepoAlone
<1>2. ClientType' /\ RecordInv'
  BY <1>1 DEF SharingInv, ClientType, RecordInv, Phase
<1>3. /\ phase'[w] = "idle"
      /\ \A v \in Widget : v # w => phase'[v] = phase[v] /\ req'[v] = req[v]
  BY DEF SharingInv, ClientType
<1>4. \A v \in Widget : phase'[v] # "idle" => req'[v] \in Shared /\ Known(req[v])'
  BY <1>3 DEF SharingInv, SettledInv, Known
<1>5. \A v \in Widget : phase'[v] = "answered" => Settled(req[v])' /\ Through(Newest)'
  BY <1>1, <1>3 DEF SharingInv, SettledInv, Settled, Known
<1>6. \A x \in cache' \union shown' : Settled(x)' /\ Through(Newest)'
  BY <1>1 DEF SharingInv, SettledInv, Settled, Known
<1>. QED  BY <1>1, <1>2, <1>4, <1>5, <1>6 DEF SharingInv, SettledInv

(* A cached link answers the call: the attempt is the record's own.          *)
LEMMA HitSettled ==
  ASSUME SharingInv, NEW q \in Shared, Known(q), NEW x \in Hit(q),
         NEW y, y = [q EXCEPT !.code = x.code]
  PROVE  Settled(y) /\ Through(Newest)
<1>1. x \in cache /\ x \in Shared /\ Settled(x) /\ Through(Newest)
  BY DEF Hit, SharingInv, SettledInv, Settled
<1>2. /\ x.name = q.name /\ x.theme = q.theme /\ x.rec \in Record /\ q.rec \in Record
      /\ q.att # None => q.att = x.att
      /\ q.att = None => q.rec = x.rec
  BY <1>1 DEF Hit, SameAttempt, SameGame, Shared
<1>3. x.rec = q.rec
  BY <1>1, <1>2 DEF SharingInv, RecordInv, Settled, Known
<1>4. /\ y \in Shared /\ y.rec = q.rec /\ y.att = q.att /\ y.theme = q.theme
      /\ y.name = q.name /\ y.data = q.data /\ y.code = x.code
  BY <1>1 DEF Shared
<1>5. Known(y)
  BY <1>4 DEF Known
<1>6. /\ x.code \in DOMAIN links /\ x.code \in DOMAIN said
      /\ x.att # None => links[x.code].att = x.att
      /\ links[x.code].theme = x.theme /\ links[x.code].name = x.name
      /\ x.rec \notin Counts => said[x.code] = [rec |-> x.rec, data |-> x.data]
      /\ x.rec \notin Counts => x.data = 0
  BY <1>1 DEF Settled, Known
<1>7. q.rec \notin Counts => q.data = 0
  BY DEF Known
<1>. QED  BY <1>1, <1>2, <1>3, <1>4, <1>5, <1>6, <1>7 DEF Settled

LEMMA FindStep ==
  ASSUME SharingInv, NEW w \in Widget, Find(w)
  PROVE  SharingInv'
<1>1. UNCHANGED repoVars /\ UNCHANGED <<uuid, sent, data, name, cache, said>>
  BY DEF Find
<1>2. phase[w] = "find" /\ req[w] \in Shared /\ Known(req[w])
  BY DEF Find, SharingInv, SettledInv
<1>3. ASSUME NEW x \in Hit(req[w]), Show(w, [req[w] EXCEPT !.code = x.code])
      PROVE  SharingInv'
  <2>1. PICK y : y = [req[w] EXCEPT !.code = x.code]
    OBVIOUS
  <2>2. Settled(y) /\ Through(Newest)
    BY <1>2, <2>1, HitSettled
  <2>. QED  BY <1>1, <1>3, <2>1, <2>2, EndsSettled DEF Show
<1>4. CASE Fail(w)
  BY <1>1, <1>4, EndsSettled DEF Fail
<1>5. CASE phase' = [phase EXCEPT ![w] = "posted"] /\ UNCHANGED <<req, shown>>
  <2>1. /\ RepoInv' /\ links' = links /\ attempts' = attempts
        /\ Through(Newest) => Through(Newest)'
    BY <1>1, RepoAlone
  <2>2. /\ phase'[w] = "posted" /\ req' = req /\ shown' = shown
        /\ \A v \in Widget : v # w => phase'[v] = phase[v]
    BY <1>5 DEF SharingInv, ClientType
  <2>3. ClientType' /\ RecordInv'
    BY <1>1, <1>5, <2>1 DEF SharingInv, ClientType, RecordInv, Phase
  <2>4. SettledInv'
    BY <1>1, <1>2, <2>1, <2>2 DEF SharingInv, SettledInv, Settled, Known
  <2>. QED  BY <2>1, <2>3, <2>4 DEF SharingInv
<1>. QED  BY <1>3, <1>4, <1>5 DEF Find

LEMMA ErrorStep ==
  ASSUME SharingInv, NEW w \in Widget, Error(w)
  PROVE  SharingInv'
BY EndsSettled DEF Error, Fail

LEMMA CacheStep ==
  ASSUME SharingInv, NEW w \in Widget, Cache(w)
  PROVE  SharingInv'
<1>1. PICK q : q = req[w]
  OBVIOUS
<1>2. Settled(q) /\ Through(Newest)
  BY <1>1 DEF Cache, SharingInv, SettledInv
<1>3. /\ UNCHANGED repoVars /\ UNCHANGED <<uuid, sent, data, name, said>>
      /\ phase' = [phase EXCEPT ![w] = "idle"] /\ req' = [req EXCEPT ![w] = NoRequest]
      /\ cache' = cache \/ cache' = cache \union {q}
      /\ shown' = shown \union {q}
  BY <1>1 DEF Cache, Show
<1>. QED  BY <1>2, <1>3, EndsSettled

LEMMA ServeStep ==
  ASSUME SharingInv, NEW w \in Widget, NEW c \in Code, Serve(w, c)
  PROVE  SharingInv'
<1>1. PICK q : q = req[w]
  OBVIOUS
<1>2. UNCHANGED <<uuid, sent, data, name, cache, shown>>
  BY DEF Serve
<1>3. phase[w] = "posted" /\ q \in Shared /\ Known(q)
  BY <1>1 DEF Serve, SharingInv, SettledInv
<1>9. PICK out :
        /\ TrySave(q, c, out)
        /\ phase' = IF out = "retry" THEN phase
                    ELSE [phase EXCEPT ![w] = IF out = "saved" THEN "answered" ELSE "refused"]
        /\ req' = IF out = "saved" THEN [req EXCEPT ![w].code = c] ELSE req
        /\ said' = IF out = "saved" THEN With(said, c, [rec |-> q.rec, data |-> q.data]) ELSE said
  BY <1>1 DEF Serve
<1>4. /\ RepoInv' /\ Through(Newest) /\ UNCHANGED <<schema, dirty>>
      /\ DOMAIN attempts \subseteq DOMAIN attempts'
      /\ IF out = "saved" THEN Saved(q, c) ELSE UNCHANGED <<links, attempts>>
  BY <1>3, <1>9, TrySaveHolds DEF SharingInv
<1>5. Through(Newest)'
  BY <1>4 DEF Through
<1>6. RecordInv'
  BY <1>2, <1>4 DEF SharingInv, RecordInv
<1>7. CASE out # "saved"
  <2>1. /\ links' = links /\ said' = said /\ req' = req
        /\ phase' = phase \/ phase' = [phase EXCEPT ![w] = "refused"]
    BY <1>4, <1>7, <1>9
  <2>2. /\ phase' \in [Widget -> Phase]
        /\ \A v \in Widget : phase'[v] # phase[v] => v = w /\ phase'[v] = "refused"
    BY <2>1 DEF SharingInv, ClientType, Phase
  <2>3. ClientType'
    BY <1>2, <1>4, <2>1, <2>2 DEF SharingInv, ClientType
  <2>4. SettledInv'
    BY <1>1, <1>2, <1>3, <1>5, <2>1, <2>2 DEF SharingInv, SettledInv, Settled, Known
  <2>. QED  BY <1>4, <1>6, <2>3, <2>4 DEF SharingInv
<1>8. CASE out = "saved"
  <2>1. PICK y : y = [q EXCEPT !.code = c]
    OBVIOUS
  <2>2. /\ phase' = [phase EXCEPT ![w] = "answered"] /\ req' = [req EXCEPT ![w] = y]
        /\ said' = With(said, c, [rec |-> q.rec, data |-> q.data])
    BY <1>1, <1>8, <1>9, <2>1
  <2>3. /\ y \in Shared /\ y.rec = q.rec /\ y.att = q.att /\ y.theme = q.theme
        /\ y.name = q.name /\ y.data = q.data /\ y.code = c
    BY <1>3, <2>1 DEF Shared
  <2>4. /\ c \notin DOMAIN links /\ DOMAIN links' = DOMAIN links \union {c}
        /\ \A d \in DOMAIN links : links'[d] = links[d]
        /\ q.att # None => links'[c].att = q.att
        /\ links'[c].theme = q.theme /\ links'[c].name = q.name
    BY <1>4, <1>8 DEF Saved
  <2>5. DOMAIN said \subseteq DOMAIN links
    BY DEF SharingInv, ClientType
  <2>6. /\ DOMAIN said' = DOMAIN said \union {c}
        /\ said'[c] = [rec |-> q.rec, data |-> q.data]
        /\ \A d \in DOMAIN said : said'[d] = said[d]
    BY <2>2, <2>4, <2>5 DEF With
  <2>7. /\ phase'[w] = "answered" /\ req'[w] = y
        /\ \A v \in Widget : v # w => phase'[v] = phase[v] /\ req'[v] = req[v]
    BY <2>2 DEF SharingInv, ClientType
  <2>8. ClientType'
    BY <1>2, <2>2, <2>3, <2>4, <2>5, <2>6 DEF SharingInv, ClientType, Phase
  <2>9. Known(y)' /\ Settled(y)'
    BY <1>2, <1>3, <2>3, <2>4, <2>6 DEF Known, Settled
  <2>10. Grows
    BY <1>2, <2>4, <2>6 DEF Grows
  <2>11. \A v \in Widget : phase'[v] # "idle" => req'[v] \in Shared /\ Known(req[v])'
    BY <1>2, <2>3, <2>7, <2>9 DEF SharingInv, SettledInv, Known
  <2>12. \A v \in Widget : phase'[v] = "answered" => Settled(req[v])'
    <3>1. ASSUME NEW v \in Widget, v # w, phase'[v] = "answered"
          PROVE  Settled(req[v])'
      <4>1. PICK x : x = req[v]
        OBVIOUS
      <4>2. Settled(x) /\ req'[v] = x
        BY <2>7, <3>1, <4>1 DEF SharingInv, SettledInv
      <4>3. Settled(x)'
        BY <2>10, <4>2, SettledStays
      <4>. QED  BY <4>2, <4>3 DEF Settled, Known
    <3>2. Settled(req[w])'
      BY <2>7, <2>9 DEF Settled, Known
    <3>. QED  BY <3>1, <3>2
  <2>13. \A x \in cache' \union shown' : Settled(x)'
    <3>1. ASSUME NEW x \in cache \union shown
          PROVE  Settled(x)'
      BY <2>10, SettledStays DEF SharingInv, SettledInv
    <3>. QED  BY <1>2, <3>1 DEF Settled, Known
  <2>14. SettledInv'
    BY <1>5, <2>11, <2>12, <2>13 DEF SettledInv
  <2>. QED  BY <1>4, <1>6, <2>8, <2>14 DEF SharingInv
<1>. QED  BY <1>7, <1>8

-----------------------------------------------------------------------------
LEMMA SharingStart == Init => SharingInv
<1> SUFFICES ASSUME Init PROVE SharingInv
  OBVIOUS
<1>1. RepoInv
  BY RepoStart DEF Init
<1>2. ClientType
  BY RepositoryAssumption DEF Init, ClientType, Phase, RepositoryAssumption
<1>3. RecordInv
  BY DEF Init, RecordInv
<1>4. SettledInv
  BY DEF Init, SettledInv
<1>. QED  BY <1>1, <1>2, <1>3, <1>4 DEF SharingInv

LEMMA SharingStep == SharingInv /\ [Next]_vars => SharingInv'
<1> SUFFICES ASSUME SharingInv, [Next]_vars PROVE SharingInv'
  OBVIOUS
<1>1. CASE (Program \/ Crash) /\ UNCHANGED clientVars
  BY <1>1, ProgramStep
<1>2. CASE Client
  BY <1>2, SubmitRecordStep, ClickStep, FindStep, CacheStep, ErrorStep, ServeStep, ChangeStep
     DEF Client
<1>3. CASE UNCHANGED vars
  <2>1. UNCHANGED repoVars /\ UNCHANGED <<uuid, sent, data, name, cache, phase, req, said, shown>>
    BY <1>3 DEF vars, clientVars
  <2>2. /\ RepoInv' /\ links' = links /\ attempts' = attempts
        /\ Through(Newest) => Through(Newest)'
    BY <2>1, RepoAlone
  <2>3. ClientType' /\ RecordInv'
    BY <2>1, <2>2 DEF SharingInv, ClientType, RecordInv
  <2>4. SettledInv'
    BY <2>1, <2>2 DEF SharingInv, SettledInv, Settled, Known
  <2>. QED  BY <2>2, <2>3, <2>4 DEF SharingInv
<1>. QED  BY <1>1, <1>2, <1>3 DEF Next

(* However crashes, retries, lost answers and renamings interleave, how far  *)
(* the schema came says what the links are, and what the browser kept of a   *)
(* link is what the server stores (db.go, migrations.go, sqlite.go, share.ts).*)
THEOREM SharingInvariant == Spec => []SharingInv
<1>. QED  BY SharingStart, SharingStep, PTL DEF Spec

(* Whatever step a start was interrupted at, a program that serves does so   *)
(* on the newest schema, where every link has its attempt and no old theme.  *)
THEOREM ServedMigrated == Spec => []ServesMigrated
<1>1. SharingInv => ServesMigrated
  <2> SUFFICES ASSUME SharingInv, server = "serving"
               PROVE  /\ schema = Newest /\ ~dirty
                      /\ \A c \in DOMAIN links : links[c].att \in DOMAIN attempts /\ links[c].theme # "iris"
    BY DEF ServesMigrated
  <2>1. Through(Newest) /\ schema \in 0 .. Newest
    BY DEF SharingInv, RepoInv, StartInv, RepoType
  <2>2. /\ schema = Newest /\ ~dirty
        /\ Through(LinksFix) /\ Through(ToFlowers)
    BY <2>1 DEF Through, Newest, LinksFix, ToFlowers
  <2>3. \A c \in DOMAIN links : links[c].att \in DOMAIN attempts /\ links[c].theme # "iris"
    BY <2>2 DEF SharingInv, RepoInv, LinksInv
  <2>. QED  BY <2>2, <2>3
<1>. QED  BY <1>1, SharingInvariant, PTL

(* An attempt made for a link has that link alone.                          *)
THEOREM OneLinkEach == Spec => []NoOrphans
<1>1. SharingInv => NoOrphans
  <2> SUFFICES ASSUME SharingInv, NEW a \in DOMAIN attempts, attempts[a].verification = "UNKNOWN"
               PROVE  Cardinality({c \in DOMAIN links : links[c].att = a}) = 1
    BY DEF NoOrphans
  <2>1. PICK c \in DOMAIN links :
          links[c].att = a /\ \A d \in DOMAIN links : links[d].att = a => d = c
    BY DEF SharingInv, RepoInv, LinksInv
  <2>2. {d \in DOMAIN links : links[d].att = a} = {c}
    BY <2>1
  <2>. QED  BY <2>2, FS_Singleton
<1>. QED  BY <1>1, SharingInvariant, PTL

(* The browser's cache hands out no code of another attempt, theme or name.  *)
THEOREM CacheFaithful == Spec => []CacheAgrees
<1>1. SharingInv => CacheAgrees
  BY DEF SharingInv, SettledInv, Settled, CacheAgrees
<1>. QED  BY <1>1, SharingInvariant, PTL

(* One attempt has one link in a theme, and a link shown for a duration says *)
(* that duration.                                                           *)
THEOREM LinkMeaning == Spec => []LinksMeanOneThing
<1>1. SharingInv => LinksMeanOneThing
  <2> SUFFICES ASSUME SharingInv PROVE LinksMeanOneThing
    OBVIOUS
  <2>1. \A x \in shown : Settled(x)
    BY DEF SharingInv, SettledInv
  <2>2. ASSUME NEW x \in shown, NEW y \in shown,
               x.att # None /\ x.att = y.att /\ x.theme = y.theme
        PROVE  x.code = y.code
    <3>1. /\ x.code \in DOMAIN links /\ y.code \in DOMAIN links
          /\ links[x.code].att = links[y.code].att /\ links[x.code].att # None
          /\ links[x.code].theme = links[y.code].theme
      BY <2>1, <2>2 DEF Settled
    <3>. QED  BY <3>1 DEF SharingInv, RepoInv, LinksInv
  <2>3. \A x \in shown : x.rec \notin Counts => /\ said[x.code] = [rec |-> x.rec, data |-> x.data]
                                               /\ links[x.code].theme = x.theme
    BY <2>1 DEF Settled
  <2>. QED  BY <2>2, <2>3 DEF LinksMeanOneThing
<1>. QED  BY <1>1, SharingInvariant, PTL

(* A link outlives every migration and crash, as it was made.               *)
THEOREM LinksOutlive == Spec => LinksKept
<1>. DEFINE Outlives ==
       \A c \in DOMAIN links :
         /\ c \in DOMAIN links'
         /\ links'[c].name = links[c].name
         /\ links'[c].theme \in {links[c].theme, Renamed(links[c].theme)}
         /\ links[c].att # None => links'[c].att = links[c].att
<1>1. SharingInv /\ [Next]_vars => [Outlives]_links
  <2> SUFFICES ASSUME SharingInv, Next PROVE Outlives \/ links' = links
    BY DEF vars, repoVars, dbVars
  <2>1. CASE Start \/ Listen \/ Crash \/ MarkStep \/ MarkUp \/ CleanStep \/ CleanUp
    BY <2>1, ControlStep, MarkStepHolds, MarkCleanHolds DEF SharingInv, Kept
  <2>2. CASE RunStep \/ RunUp
    BY <2>2, RunFileHolds, MigratedFacts DEF SharingInv, RepoInv
  <2>3. CASE FromV1ToV2
    BY <2>3, ScriptHolds DEF SharingInv
  <2>4. ASSUME NEW w \in Widget, NEW c \in Code, Serve(w, c)
        PROVE  Outlives \/ links' = links
    <3>1. PICK q : q = req[w]
      OBVIOUS
    <3>2. q \in Shared /\ \E v : TrySave(q, c, v)
      BY <2>4, <3>1 DEF Serve, SharingInv, SettledInv
    <3>3. Saved(q, c) \/ links' = links
      BY <3>2, TrySaveHolds DEF SharingInv
    <3>. QED  BY <3>3 DEF Saved
  <2>5. CASE Client /\ ~ \E w \in Widget, c \in Code : Serve(w, c)
    BY <2>5 DEF Client, SubmitRecord, Submit, Click, Find, Cache, Error, Change, repoVars, dbVars
  <2>. QED  BY <2>1, <2>2, <2>3, <2>4, <2>5 DEF Next, Program
<1>. QED  BY <1>1, SharingInvariant, PTL DEF Spec, LinksKept
=============================================================================
