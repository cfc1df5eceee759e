--------------------------- MODULE AttemptsProofs ---------------------------
(***************************************************************************)
(* Proofs about Attempts, for any tabs, attempts, durations and bounds: an   *)
(* attempt is stored once, counted once by the tab that played it, and shown *)
(* as under way only while it is; and a tab that has heard all it was told   *)
(* shows what its last load and the messages since then add up to.           *)
(***************************************************************************)
EXTENDS Attempts, TLAPS

Handled == {a \in Attempt : stage[a] = "handled"}

Types ==
  /\ stage \in [Attempt -> Stage] /\ owner \in [Attempt -> Tab]
  /\ counts \in [Tab -> [Attempt -> Nat]]
  /\ ongoing \in [Tab -> Attempt \union {None}]
  /\ alive \in [Tab -> BOOLEAN] /\ open \in [Tab -> BOOLEAN]
  /\ DOMAIN loaded = Tab
  /\ dbq \in Seq(Transaction)

(* Whatever is stored, was read, is heard of or is counted was handled; a    *)
(* tab hears of no attempt of its own.                                      *)
Flow ==
  /\ db \in Seq(Handled)
  /\ snaps \in [Tab -> Seq(Seq(Handled))]
  /\ chan \in [Tab -> Seq(Attempt)]
  /\ \A t \in Tab : chan[t] \in Seq({a \in Handled : owner[a] # t})
  /\ \A t \in Tab, a \in Attempt : counts[t][a] > 0 => a \in Handled

Adds(i, a) == i \in 1 .. Len(dbq) /\ dbq[i].op = "add" /\ dbq[i].att = a
Stored(a) == a \in ToSet(db)

(* The transactions that were not run yet insert other attempts than those   *)
(* stored, each once and for the tab that played it.                        *)
Queue ==
  /\ \A i \in 1 .. Len(dbq) : dbq[i].op = "add" =>
       dbq[i].att \in Handled /\ dbq[i].tab = owner[dbq[i].att] /\ ~Stored(dbq[i].att)
  /\ \A i, j \in 1 .. Len(dbq) :
       dbq[i].op = "add" /\ dbq[j].op = "add" /\ dbq[i].att = dbq[j].att => i = j
  /\ IsInjective(db)
  /\ \A a \in Handled : owner[a] \notin Lost => Stored(a) \/ \E i \in 1 .. Len(dbq) : Adds(i, a)

AttemptsInv == Types /\ Flow /\ Queue /\ OwnCountedOnce /\ OngoingUnfinished
-----------------------------------------------------------------------------
LEMMA SeqOfMore ==
  ASSUME NEW S, NEW T, S \subseteq T
  PROVE  Seq(S) \subseteq Seq(T)
OBVIOUS

LEMMA TailOf ==
  ASSUME NEW S, NEW s \in Seq(S), s # <<>>
  PROVE  /\ Head(s) \in S /\ Head(s) = s[1]
         /\ Tail(s) \in Seq(S) /\ Len(Tail(s)) = Len(s) - 1
         /\ \A i \in 1 .. Len(Tail(s)) : Tail(s)[i] = s[i + 1] /\ i + 1 \in 1 .. Len(s)
OBVIOUS

LEMMA AppendOf ==
  ASSUME NEW S, NEW s \in Seq(S), NEW x \in S
  PROVE  /\ Append(s, x) \in Seq(S) /\ Len(Append(s, x)) = Len(s) + 1
         /\ \A i \in 1 .. Len(s) : Append(s, x)[i] = s[i]
         /\ Append(s, x)[Len(s) + 1] = x
         /\ ToSet(Append(s, x)) = ToSet(s) \union {x}
BY DEF ToSet

(* Steps before an attempt is handled touch nothing it goes through.         *)
LEMMA BeforeHandled ==
  ASSUME AttemptsInv, NEW a \in Attempt, Start(a) \/ Resume(a) \/ Abandon(a) \/ End(a)
  PROVE  AttemptsInv'
<1>1. UNCHANGED <<owner, counts, loaded, dbq, db, snaps, chan, open, alive>>
  BY DEF Start, Resume, Abandon, End, storeVars, dbVars, tabVars
<1>2. PICK s \in Stage \ {"new", "handled"} : stage' = [stage EXCEPT ![a] = s] /\ stage[a] # "handled"
  <2>1. CASE Resume(a)
    <3>1. stage[a] = "playing" /\ stage' = [stage EXCEPT ![a] = "playing"]
      BY <2>1 DEF Resume, AttemptsInv, Types
    <3>. QED  BY <3>1 DEF Stage
  <2>2. CASE Start(a) \/ Abandon(a) \/ End(a)
    BY <2>2 DEF Start, Abandon, End, Stage
  <2>. QED  BY <2>1, <2>2
<1>3. Handled' = Handled
  BY <1>2 DEF AttemptsInv, Types, Handled
<1>4. /\ ongoing' \in [Tab -> Attempt \union {None}]
      /\ \A t \in Tab : ongoing'[t] = ongoing[t] \/ (ongoing'[t] = a /\ owner[a] = t)
  <2>1. CASE Start(a) \/ Resume(a)
    BY <2>1 DEF Start, Resume, AttemptsInv, Types
  <2>2. CASE Abandon(a) \/ End(a)
    BY <2>2 DEF Abandon, End, storeVars, AttemptsInv, Types
  <2>. QED  BY <2>1, <2>2
<1>5. Types'
  BY <1>1, <1>2, <1>4 DEF AttemptsInv, Types
<1>6. Flow'
  BY <1>1, <1>3 DEF AttemptsInv, Flow
<1>7. Queue'
  BY <1>1, <1>3 DEF AttemptsInv, Queue, Lost, Stored, Adds
<1>8. OwnCountedOnce'
  BY <1>1 DEF AttemptsInv, OwnCountedOnce
<1>9. OngoingUnfinished'
  BY <1>1, <1>2, <1>4, AttemptsAssumption DEF AttemptsInv, OngoingUnfinished, Types, AttemptsAssumption
<1>. QED  BY <1>5, <1>6, <1>7, <1>8, <1>9 DEF AttemptsInv

(* A store that is updated with an attempt counts it once more or not, and   *)
(* counts no other.                                                         *)
LEMMA UpdateFacts ==
  ASSUME Types, NEW t \in Tab, NEW a \in Attempt, Update(t, a)
  PROVE  /\ counts' \in [Tab -> [Attempt -> Nat]]
         /\ counts'[t][a] \in {counts[t][a], counts[t][a] + 1}
         /\ \A u \in Tab, b \in Attempt : u # t \/ b # a => counts'[u][b] = counts[u][b]
         /\ ongoing' = [ongoing EXCEPT ![t] = None]
<1>1. CASE loaded[t]
  <2>1. counts' = [counts EXCEPT ![t][a] = @ + 1]
    BY <1>1 DEF Update, AddAttempt
  <2>. QED  BY <2>1 DEF Types, Update
<1>2. CASE ~loaded[t]
  BY <1>2 DEF Update, Types
<1>. QED  BY <1>1, <1>2

LEMMA HandleStep ==
  ASSUME AttemptsInv, NEW a \in Attempt, Handle(a)
  PROVE  AttemptsInv'
<1>. DEFINE t == owner[a]
<1>. DEFINE tx == [op |-> "add", tab |-> t, att |-> a]
<1>1. /\ UNCHANGED <<owner, loaded, db, snaps, open, alive>>
      /\ stage' = [stage EXCEPT ![a] = "handled"] /\ stage[a] = "submitting"
      /\ Update(t, a) /\ Announce(t, a) /\ Insert(t, a) /\ alive[t]
  BY DEF Handle, tabVars
<1>2. t \in Tab /\ tx \in Transaction
  BY DEF AttemptsInv, Types, Transaction
<1>3. a \notin Handled /\ Handled' = Handled \union {a} /\ Handled \subseteq Attempt
  BY <1>1 DEF AttemptsInv, Types, Handled
<1>4. /\ counts' \in [Tab -> [Attempt -> Nat]]
      /\ counts'[t][a] \in {counts[t][a], counts[t][a] + 1}
      /\ \A u \in Tab, b \in Attempt : u # t \/ b # a => counts'[u][b] = counts[u][b]
      /\ ongoing' = [ongoing EXCEPT ![t] = None]
  BY <1>1, <1>2, UpdateFacts DEF AttemptsInv
<1>5. /\ ongoing' \in [Tab -> Attempt \union {None}] /\ ongoing'[t] = None
      /\ \A u \in Tab : u # t => ongoing'[u] = ongoing[u]
  BY <1>2, <1>4 DEF AttemptsInv, Types
<1>6. dbq \in Seq(Transaction)
  BY DEF AttemptsInv, Types
<1>7. dbq' = IF open[t] THEN Append(dbq, tx) ELSE dbq
  BY <1>1 DEF Insert
<1>8. Types'
  <2>1. dbq' \in Seq(Transaction)
    BY <1>2, <1>6, <1>7, AppendOf
  <2>. QED  BY <1>1, <1>4, <1>5, <2>1 DEF AttemptsInv, Types, Stage
<1>9. Flow'
  <2>1. db \in Seq(Handled') /\ snaps \in [Tab -> Seq(Seq(Handled'))]
    BY <1>3, SeqOfMore DEF AttemptsInv, Flow
  <2>2. ASSUME NEW u \in Tab
        PROVE  /\ chan'[u] \in Seq({b \in Handled' : owner[b] # u})
               /\ chan'[u] \in Seq(Attempt)
    <3>1. chan'[u] = chan[u] \/ (u # t /\ chan'[u] = Append(chan[u], a))
      BY <1>1 DEF Announce
    <3>2. chan[u] \in Seq({b \in Handled' : owner[b] # u})
      BY <1>3, SeqOfMore DEF AttemptsInv, Flow
    <3>3. chan[u] \in Seq(Attempt)
      BY DEF AttemptsInv, Flow
    <3>4. CASE u # t /\ chan'[u] = Append(chan[u], a)
      <4>1. a \in {b \in Handled' : owner[b] # u}
        BY <1>3, <3>4
      <4>. QED  BY <3>2, <3>3, <3>4, <4>1, AppendOf
    <3>. QED  BY <3>1, <3>2, <3>3, <3>4
  <2>3. chan' \in [Tab -> Seq(Attempt)]
    BY <1>1, <2>2 DEF Announce
  <2>4. \A u \in Tab, b \in Attempt : counts'[u][b] > 0 => b \in Handled'
    BY <1>3, <1>4 DEF AttemptsInv, Flow
  <2>. QED  BY <1>1, <2>1, <2>2, <2>3, <2>4 DEF Flow
<1>10. OwnCountedOnce'
  <2>1. counts[t][a] = 0
    BY <1>2, <1>3 DEF AttemptsInv, Types, Flow
  <2>2. ASSUME NEW b \in Attempt
        PROVE  counts'[owner[b]][b] <= 1
    <3>1. CASE b = a
      BY <1>4, <2>1, <3>1
    <3>2. CASE b # a
      <4>1. owner[b] \in Tab /\ counts[owner[b]][b] <= 1
        BY DEF AttemptsInv, Types, OwnCountedOnce
      <4>. QED  BY <1>4, <3>2, <4>1
    <3>. QED  BY <3>1, <3>2
  <2>. QED  BY <1>1, <2>2 DEF OwnCountedOnce
<1>11. OngoingUnfinished'
  <2>1. ASSUME NEW u \in Tab, ongoing'[u] # None
        PROVE  owner[ongoing'[u]] = u /\ stage'[ongoing'[u]] \notin {"new", "handled"}
    <3>1. /\ u # t /\ ongoing'[u] = ongoing[u] /\ ongoing[u] \in Attempt
          /\ owner[ongoing[u]] = u /\ stage[ongoing[u]] \notin {"new", "handled"}
      BY <1>5, <2>1 DEF AttemptsInv, OngoingUnfinished, Types
    <3>2. ongoing[u] # a
      BY <3>1
    <3>. QED  BY <1>1, <3>1, <3>2 DEF AttemptsInv, Types
  <2>. QED  BY <1>1, <2>1 DEF OngoingUnfinished
<1>12. Queue'
  <2>. HIDE DEF tx
  <2>0. tx.op = "add" /\ tx.att = a /\ tx.tab = owner[a]
    BY DEF tx
  <2>1. ~Stored(a) /\ \A i \in 1 .. Len(dbq) : ~Adds(i, a)
    BY <1>3 DEF AttemptsInv, Flow, Queue, Stored, Adds, ToSet
  <2>2. \A b : Stored(b)' <=> Stored(b)
    BY <1>1 DEF Stored
  <2>3. Lost' = Lost
    BY <1>1 DEF Lost
  <2>4. CASE ~open[t]
    BY <1>1, <1>2, <1>3, <1>7, <2>1, <2>2, <2>3, <2>4 DEF AttemptsInv, Queue, Adds, Lost
  <2>5. CASE open[t]
    <3>1. /\ Len(dbq') = Len(dbq) + 1 /\ Len(dbq) \in Nat
          /\ \A i \in 1 .. Len(dbq) : dbq'[i] = dbq[i]
          /\ dbq'[Len(dbq) + 1] = tx
      BY <1>2, <1>6, <1>7, <2>5, AppendOf
    <3>2. \A i \in 1 .. Len(dbq') : i \in 1 .. Len(dbq) \/ i = Len(dbq) + 1
      BY <3>1
    <3>3. \A i \in 1 .. Len(dbq) : i \in 1 .. Len(dbq') /\ i # Len(dbq) + 1
      BY <3>1
    <3>4. Len(dbq) + 1 \in 1 .. Len(dbq')
      BY <3>1
    <3>5. \A i \in 1 .. Len(dbq') : dbq'[i].op = "add" =>
            dbq'[i].att \in Handled' /\ dbq'[i].tab = owner'[dbq'[i].att] /\ ~Stored(dbq'[i].att)
      BY <1>1, <1>3, <2>0, <2>1, <3>1, <3>2 DEF AttemptsInv, Queue
    <3>6. \A i, j \in 1 .. Len(dbq') :
            dbq'[i].op = "add" /\ dbq'[j].op = "add" /\ dbq'[i].att = dbq'[j].att => i = j
      BY <2>0, <2>1, <3>1, <3>2 DEF AttemptsInv, Queue, Adds
    <3>7. ASSUME NEW b \in Handled', owner'[b] \notin Lost'
          PROVE  Stored(b) \/ \E i \in 1 .. Len(dbq') : Adds(i, b)'
      <4>1. CASE b = a
        BY <2>0, <3>1, <3>4, <4>1 DEF Adds
      <4>2. CASE b # a
        BY <1>1, <1>3, <2>3, <3>1, <3>3, <3>7, <4>2 DEF AttemptsInv, Queue, Adds
      <4>. QED  BY <4>1, <4>2
    <3>. QED  BY <1>1, <2>2, <3>5, <3>6, <3>7 DEF AttemptsInv, Queue, Stored
  <2>. QED  BY <2>4, <2>5
<1>. QED  BY <1>8, <1>9, <1>10, <1>11, <1>12 DEF AttemptsInv

LEMMA ReceiveStep ==
  ASSUME AttemptsInv, NEW t \in Tab, Receive(t)
  PROVE  AttemptsInv'
<1>1. PICK a : a = Head(chan[t])
  OBVIOUS
<1>2. /\ UNCHANGED <<stage, owner, loaded, dbq, db, snaps, open, alive>>
      /\ chan[t] # <<>> /\ Update(t, a) /\ chan' = [chan EXCEPT ![t] = Tail(@)]
  BY <1>1 DEF Receive, dbVars, tabVars
<1>3. Handled' = Handled /\ Handled \subseteq Attempt
  BY <1>2 DEF Handled
<1>4. a \in Handled /\ owner[a] # t
  <2>1. chan[t] \in Seq({b \in Handled : owner[b] # t})
    BY DEF AttemptsInv, Flow
  <2>2. a \in {b \in Handled : owner[b] # t}
    BY <1>1, <1>2, <2>1, TailOf
  <2>. QED  BY <2>2
<1>5. /\ counts' \in [Tab -> [Attempt -> Nat]]
      /\ \A u \in Tab, b \in Attempt : u # t \/ b # a => counts'[u][b] = counts[u][b]
      /\ ongoing' = [ongoing EXCEPT ![t] = None]
  BY <1>2, <1>3, <1>4, UpdateFacts DEF AttemptsInv
<1>6. /\ ongoing' \in [Tab -> Attempt \union {None}]
      /\ \A u \in Tab : ongoing'[u] \in {None, ongoing[u]}
  BY <1>5 DEF AttemptsInv, Types
<1>7. Types'
  BY <1>2, <1>5, <1>6 DEF AttemptsInv, Types
<1>8. Flow'
  <2>1. ASSUME NEW u \in Tab
        PROVE  /\ chan'[u] \in Seq(Attempt)
               /\ chan'[u] \in Seq({b \in Handled : owner[b] # u})
    <3>1. chan[u] \in Seq(Attempt) /\ chan[u] \in Seq({b \in Handled : owner[b] # u})
      BY DEF AttemptsInv, Flow
    <3>2. chan'[u] = chan[u] \/ (chan[u] # <<>> /\ chan'[u] = Tail(chan[u]))
      BY <1>2 DEF AttemptsInv, Flow
    <3>. QED  BY <3>1, <3>2, TailOf
  <2>2. chan' \in [Tab -> Seq(Attempt)]
    BY <1>2, <2>1 DEF AttemptsInv, Flow
  <2>3. \A u \in Tab, b \in Attempt : counts'[u][b] > 0 => b \in Handled
    BY <1>4, <1>5 DEF AttemptsInv, Flow
  <2>. QED  BY <1>2, <1>3, <2>1, <2>2, <2>3 DEF AttemptsInv, Flow
<1>9. Queue'
  BY <1>2, <1>3 DEF AttemptsInv, Queue, Lost, Stored, Adds
<1>10. OwnCountedOnce'
  <2>1. \A b \in Attempt : owner[b] \in Tab /\ (owner[b] # t \/ b # a)
    BY <1>4 DEF AttemptsInv, Types
  <2>2. \A b \in Attempt : counts'[owner[b]][b] = counts[owner[b]][b]
    BY <1>5, <2>1
  <2>. QED  BY <1>2, <2>2 DEF AttemptsInv, OwnCountedOnce
<1>11. OngoingUnfinished'
  BY <1>2, <1>6 DEF AttemptsInv, OngoingUnfinished
<1>. QED  BY <1>7, <1>8, <1>9, <1>10, <1>11 DEF AttemptsInv

LEMMA SubscribeStep ==
  ASSUME AttemptsInv, NEW t \in Tab, Subscribe(t)
  PROVE  AttemptsInv'
<1>. DEFINE tx == [op |-> "read", tab |-> t, att |-> None]
<1>1. /\ UNCHANGED <<stage, owner, counts, ongoing, loaded, db, snaps, chan, open, alive>>
      /\ dbq' = Append(dbq, tx) \/ dbq' = dbq
  BY DEF Subscribe, storeVars, tabVars
<1>2. tx \in Transaction /\ dbq \in Seq(Transaction)
  BY DEF Transaction, AttemptsInv, Types
<1>3. Handled' = Handled /\ Lost' = Lost
  BY <1>1 DEF Handled, Lost
<1>4. Types'
  <2>1. dbq' \in Seq(Transaction)
    BY <1>1, <1>2, AppendOf
  <2>. QED  BY <1>1, <2>1 DEF AttemptsInv, Types
<1>5. Flow' /\ OwnCountedOnce' /\ OngoingUnfinished'
  BY <1>1, <1>3 DEF AttemptsInv, Flow, OwnCountedOnce, OngoingUnfinished
<1>6. Queue'
  <2>1. \A b : Stored(b)' <=> Stored(b)
    BY <1>1 DEF Stored
  <2>2. CASE dbq' = dbq
    BY <1>1, <1>3, <2>1, <2>2 DEF AttemptsInv, Queue, Adds
  <2>3. CASE dbq' = Append(dbq, tx)
    <3>. HIDE DEF tx
    <3>0. tx.op # "add"
      BY DEF tx
    <3>1. /\ Len(dbq') = Len(dbq) + 1 /\ Len(dbq) \in Nat
          /\ \A i \in 1 .. Len(dbq) : dbq'[i] = dbq[i]
          /\ dbq'[Len(dbq) + 1] = tx
      BY <1>2, <2>3, AppendOf
    <3>2. \A i \in 1 .. Len(dbq') : dbq'[i].op = "add" => i \in 1 .. Len(dbq)
      BY <3>0, <3>1
    <3>3. \A i \in 1 .. Len(dbq) : i \in 1 .. Len(dbq')
      BY <3>1
    <3>4. \A i \in 1 .. Len(dbq') : dbq'[i].op = "add" =>
            dbq'[i].att \in Handled' /\ dbq'[i].tab = owner'[dbq'[i].att] /\ ~Stored(dbq'[i].att)
      BY <1>1, <1>3, <3>1, <3>2 DEF AttemptsInv, Queue
    <3>5. \A i, j \in 1 .. Len(dbq') :
            dbq'[i].op = "add" /\ dbq'[j].op = "add" /\ dbq'[i].att = dbq'[j].att => i = j
      BY <3>1, <3>2 DEF AttemptsInv, Queue
    <3>6. \A b \in Handled' : owner'[b] \notin Lost' => Stored(b) \/ \E i \in 1 .. Len(dbq') : Adds(i, b)'
      BY <1>1, <1>3, <3>1, <3>3 DEF AttemptsInv, Queue, Adds
    <3>. QED  BY <1>1, <2>1, <3>4, <3>5, <3>6 DEF AttemptsInv, Queue, Stored
  <2>. QED  BY <1>1, <2>2, <2>3
<1>. QED  BY <1>4, <1>5, <1>6 DEF AttemptsInv

LEMMA TransactStep ==
  ASSUME AttemptsInv, Transact
  PROVE  AttemptsInv'
<1>1. PICK tx : tx = Head(dbq)
  OBVIOUS
<1>2. /\ UNCHANGED <<stage, owner, counts, ongoing, loaded, chan, open, alive>>
      /\ dbq # <<>> /\ dbq' = Tail(dbq)
  BY DEF Transact, storeVars, tabVars
<1>3. /\ tx \in Transaction /\ tx.tab \in Tab /\ tx = dbq[1]
      /\ dbq' \in Seq(Transaction) /\ Len(dbq') = Len(dbq) - 1 /\ Len(dbq) \in Nat \ {0}
      /\ \A i \in 1 .. Len(dbq') : dbq'[i] = dbq[i + 1] /\ i + 1 \in 1 .. Len(dbq)
  <2>1. dbq \in Seq(Transaction)
    BY DEF AttemptsInv, Types
  <2>2. tx \in Transaction
    BY <1>1, <1>2, <2>1, TailOf
  <2>. QED  BY <1>1, <1>2, <2>1, <2>2, TailOf DEF Transaction
<1>4. Handled' = Handled /\ Lost' = Lost /\ Handled \subseteq Attempt
  BY <1>2 DEF Handled, Lost
<1>5. Types'
  BY <1>2, <1>3 DEF AttemptsInv, Types
<1>6. OwnCountedOnce' /\ OngoingUnfinished'
  BY <1>2 DEF AttemptsInv, OwnCountedOnce, OngoingUnfinished
<1>7. /\ \A i \in 1 .. Len(dbq') : dbq'[i].op = "add" =>
             dbq'[i].att \in Handled /\ dbq'[i].tab = owner[dbq'[i].att] /\ ~Stored(dbq'[i].att)
      /\ \A i, j \in 1 .. Len(dbq') :
           dbq'[i].op = "add" /\ dbq'[j].op = "add" /\ dbq'[i].att = dbq'[j].att => i = j
  <2>1. \A i \in 1 .. Len(dbq') : dbq'[i].op = "add" =>
          dbq'[i].att \in Handled /\ dbq'[i].tab = owner[dbq'[i].att] /\ ~Stored(dbq'[i].att)
    BY <1>3 DEF AttemptsInv, Queue
  <2>2. ASSUME NEW i \in 1 .. Len(dbq'), NEW j \in 1 .. Len(dbq'),
               dbq'[i].op = "add" /\ dbq'[j].op = "add" /\ dbq'[i].att = dbq'[j].att
        PROVE  i = j
    <3>1. /\ i + 1 \in 1 .. Len(dbq) /\ j + 1 \in 1 .. Len(dbq)
          /\ dbq'[i] = dbq[i + 1] /\ dbq'[j] = dbq[j + 1]
      BY <1>3
    <3>2. i + 1 = j + 1
      BY <2>2, <3>1 DEF AttemptsInv, Queue
    <3>. QED  BY <3>2
  <2>. QED  BY <2>1, <2>2
<1>8. \A b \in Handled : owner[b] \notin Lost =>
        \/ Stored(b) \/ (tx.op = "add" /\ tx.att = b)
        \/ \E i \in 1 .. Len(dbq') : Adds(i, b)'
  <2>1. ASSUME NEW b, NEW i \in 1 .. Len(dbq), Adds(i, b), i # 1
        PROVE  \E j \in 1 .. Len(dbq') : Adds(j, b)'
    <3>1. i - 1 \in 1 .. Len(dbq') /\ dbq'[i - 1] = dbq[i]
      BY <1>3, <2>1
    <3>. QED  BY <2>1, <3>1 DEF Adds
  <2>. QED  BY <1>3, <2>1 DEF AttemptsInv, Queue, Adds
<1>9. CASE ~alive[tx.tab]
  <2>1. UNCHANGED <<db, snaps>>
    BY <1>1, <1>9 DEF Transact
  <2>2. Flow'
    BY <1>2, <1>4, <2>1 DEF AttemptsInv, Flow
  <2>3. tx.op = "add" => owner[tx.att] \in Lost
    BY <1>3, <1>9 DEF AttemptsInv, Queue, Lost
  <2>4. Queue'
    BY <1>2, <1>4, <1>7, <1>8, <2>1, <2>3 DEF AttemptsInv, Queue, Stored
  <2>. QED  BY <1>5, <1>6, <2>2, <2>4 DEF AttemptsInv
<1>10. CASE alive[tx.tab] /\ tx.op = "add"
  <2>1. db' = Append(db, tx.att) /\ snaps' = snaps
    BY <1>1, <1>10 DEF Transact
  <2>2. tx.att \in Handled /\ ~Stored(tx.att) /\ db \in Seq(Handled)
    BY <1>3, <1>10 DEF AttemptsInv, Queue, Flow
  <2>3. /\ db' \in Seq(Handled) /\ Len(db') = Len(db) + 1 /\ Len(db) \in Nat
        /\ \A i \in 1 .. Len(db) : db'[i] = db[i]
        /\ db'[Len(db) + 1] = tx.att
        /\ ToSet(db') = ToSet(db) \union {tx.att}
    BY <2>1, <2>2, AppendOf
  <2>4. Flow'
    BY <1>2, <1>4, <2>1, <2>3 DEF AttemptsInv, Flow
  <2>5. IsInjective(db')
    <3>1. /\ DOMAIN db = 1 .. Len(db) /\ DOMAIN db' = 1 .. Len(db')
          /\ \A i \in 1 .. Len(db') : i \in 1 .. Len(db) \/ i = Len(db) + 1
      BY <2>2, <2>3
    <3>2. \A i \in 1 .. Len(db) : db[i] # tx.att
      BY <2>2, <3>1 DEF Stored, ToSet
    <3>. QED  BY <2>3, <3>1, <3>2 DEF AttemptsInv, Queue, IsInjective
  <2>6. \A b : Stored(b)' <=> Stored(b) \/ b = tx.att
    BY <2>3 DEF Stored
  <2>7. \A i \in 1 .. Len(dbq') : dbq'[i].op = "add" => dbq'[i].att # tx.att
    <3>1. \A i \in 1 .. Len(dbq') : i + 1 # 1 /\ 1 \in 1 .. Len(dbq)
      BY <1>3
    <3>. QED  BY <1>3, <1>10, <3>1 DEF AttemptsInv, Queue
  <2>8. Queue'
    BY <1>2, <1>4, <1>7, <1>8, <2>5, <2>6, <2>7 DEF Queue, Stored
  <2>. QED  BY <1>5, <1>6, <2>4, <2>8 DEF AttemptsInv
<1>11. CASE alive[tx.tab] /\ tx.op # "add"
  <2>1. snaps' = [snaps EXCEPT ![tx.tab] = Append(@, db)] /\ db' = db
    BY <1>1, <1>11 DEF Transact
  <2>2. snaps' \in [Tab -> Seq(Seq(Handled))]
    <3>1. db \in Seq(Handled) /\ snaps \in [Tab -> Seq(Seq(Handled))]
      BY DEF AttemptsInv, Flow
    <3>2. Append(snaps[tx.tab], db) \in Seq(Seq(Handled))
      BY <1>3, <3>1, AppendOf
    <3>. QED  BY <1>3, <2>1, <3>1, <3>2
  <2>3. Flow'
    BY <1>2, <1>4, <2>1, <2>2 DEF AttemptsInv, Flow
  <2>4. Queue'
    BY <1>2, <1>4, <1>7, <1>8, <1>11, <2>1 DEF AttemptsInv, Queue, Stored
  <2>. QED  BY <1>5, <1>6, <2>3, <2>4 DEF AttemptsInv
<1>. QED  BY <1>9, <1>10, <1>11

LEMMA SetLoadedStep ==
  ASSUME AttemptsInv, NEW t \in Tab, SetLoaded(t)
  PROVE  AttemptsInv'
<1>1. PICK read : read = Head(snaps[t])
  OBVIOUS
<1>2. /\ UNCHANGED <<stage, owner, dbq, db, chan, open, alive>>
      /\ snaps[t] # <<>> /\ snaps' = [snaps EXCEPT ![t] = Tail(@)]
      /\ counts' = [counts EXCEPT ![t] = [a \in Attempt |-> IF a \in ToSet(read) THEN 1 ELSE 0]]
      /\ ongoing' = [ongoing EXCEPT ![t] = None]
      /\ loaded' = [loaded EXCEPT ![t] = TRUE]
  BY <1>1 DEF SetLoaded, tabVars
<1>3. Handled' = Handled /\ Lost' = Lost
  BY <1>2 DEF Handled, Lost
<1>4. /\ ToSet(read) \subseteq Handled /\ Tail(snaps[t]) \in Seq(Seq(Handled))
  <2>1. snaps[t] \in Seq(Seq(Handled))
    BY DEF AttemptsInv, Flow
  <2>2. read \in Seq(Handled) /\ Tail(snaps[t]) \in Seq(Seq(Handled))
    BY <1>1, <1>2, <2>1, TailOf
  <2>. QED  BY <2>2 DEF ToSet
<1>5. /\ counts' \in [Tab -> [Attempt -> Nat]]
      /\ \A b \in Attempt : /\ counts'[t][b] > 0 => b \in Handled
                            /\ counts'[t][b] <= 1
      /\ \A u \in Tab : u # t => counts'[u] = counts[u]
  BY <1>2, <1>4 DEF AttemptsInv, Types
<1>6. /\ ongoing' \in [Tab -> Attempt \union {None}]
      /\ \A u \in Tab : ongoing'[u] \in {None, ongoing[u]}
  BY <1>2 DEF AttemptsInv, Types
<1>7. Types'
  BY <1>2, <1>5, <1>6 DEF AttemptsInv, Types
<1>8. Flow'
  <2>1. snaps' \in [Tab -> Seq(Seq(Handled))]
    BY <1>2, <1>4 DEF AttemptsInv, Flow
  <2>2. \A u \in Tab, b \in Attempt : counts'[u][b] > 0 => b \in Handled
    BY <1>5 DEF AttemptsInv, Flow
  <2>. QED  BY <1>2, <1>3, <2>1, <2>2 DEF AttemptsInv, Flow
<1>9. Queue'
  BY <1>2, <1>3 DEF AttemptsInv, Queue, Stored, Adds
<1>10. OwnCountedOnce'
  <2>1. \A b \in Attempt : owner[b] \in Tab
    BY DEF AttemptsInv, Types
  <2>. QED  BY <1>2, <1>5, <2>1 DEF AttemptsInv, OwnCountedOnce
<1>11. OngoingUnfinished'
  BY <1>2, <1>6 DEF AttemptsInv, OngoingUnfinished
<1>. QED  BY <1>7, <1>8, <1>9, <1>10, <1>11 DEF AttemptsInv

(* What a tab that closes or loses its database leaves behind.              *)
LEMMA LeaveStep ==
  ASSUME AttemptsInv, NEW t \in Tab, Unsubscribe(t) \/ CloseConnection(t) \/ CloseTab(t)
  PROVE  AttemptsInv'
<1>1. UNCHANGED <<stage, owner, counts, ongoing, loaded, dbq, db>>
  BY DEF Unsubscribe, CloseConnection, CloseTab, storeVars, dbVars
<1>2. Handled' = Handled
  BY <1>1 DEF Handled
<1>3. /\ open' \in [Tab -> BOOLEAN] /\ alive' \in [Tab -> BOOLEAN]
      /\ Lost \subseteq Lost'
  <2>1. CASE Unsubscribe(t)
    BY <2>1 DEF AttemptsInv, Types, Lost, Unsubscribe, tabVars
  <2>2. CASE CloseConnection(t)
    BY <2>2 DEF AttemptsInv, Types, Lost, CloseConnection
  <2>3. CASE CloseTab(t)
    BY <2>3 DEF AttemptsInv, Types, Lost, CloseTab
  <2>. QED  BY <2>1, <2>2, <2>3
<1>4. Types'
  BY <1>1, <1>3 DEF AttemptsInv, Types
<1>5. Flow'
  <2>1. chan' = chan \/ chan' = [chan EXCEPT ![t] = <<>>]
    BY DEF Unsubscribe, CloseConnection, CloseTab
  <2>2. snaps' = snaps \/ snaps' = [snaps EXCEPT ![t] = <<>>]
    BY DEF Unsubscribe, CloseConnection, CloseTab, dbVars
  <2>3. \A S : <<>> \in Seq(S)
    OBVIOUS
  <2>4. chan' \in [Tab -> Seq(Attempt)] /\ snaps' \in [Tab -> Seq(Seq(Handled))]
    BY <2>1, <2>2, <2>3 DEF AttemptsInv, Flow
  <2>5. \A u \in Tab : chan'[u] \in Seq({a \in Handled : owner[a] # u})
    BY <2>1, <2>3 DEF AttemptsInv, Flow
  <2>. QED  BY <1>1, <1>2, <2>4, <2>5 DEF AttemptsInv, Flow
<1>6. Queue'
  BY <1>1, <1>2, <1>3 DEF AttemptsInv, Queue, Stored, Adds
<1>7. OwnCountedOnce' /\ OngoingUnfinished'
  BY <1>1 DEF AttemptsInv, OwnCountedOnce, OngoingUnfinished
<1>. QED  BY <1>4, <1>5, <1>6, <1>7 DEF AttemptsInv
-----------------------------------------------------------------------------
LEMMA AttemptsStart == Init => AttemptsInv
<1> SUFFICES ASSUME Init PROVE AttemptsInv
  OBVIOUS
<1>1. Handled = {}
  BY DEF Init, Handled
<1>2. \A S : <<>> \in Seq(S)
  OBVIOUS
<1>3. Types
  BY <1>2 DEF Init, Types, Stage
<1>4. Flow
  BY <1>2 DEF Init, Flow
<1>5. Queue
  BY <1>1 DEF Init, Queue, IsInjective
<1>6. OwnCountedOnce /\ OngoingUnfinished
  BY DEF Init, OwnCountedOnce, OngoingUnfinished
<1>. QED  BY <1>3, <1>4, <1>5, <1>6 DEF AttemptsInv

LEMMA AttemptsStep == AttemptsInv /\ [Next]_vars => AttemptsInv'
<1> SUFFICES ASSUME AttemptsInv, [Next]_vars PROVE AttemptsInv'
  OBVIOUS
<1>1. CASE Next
  BY <1>1, BeforeHandled, HandleStep, ReceiveStep, SubscribeStep, TransactStep, SetLoadedStep, LeaveStep
     DEF Next
<1>2. CASE UNCHANGED vars
  <2>1. UNCHANGED <<stage, owner, counts, ongoing, loaded, dbq, db, snaps, chan, open, alive>>
    BY <1>2 DEF vars, storeVars, dbVars, tabVars
  <2>2. Handled' = Handled /\ Lost' = Lost
    BY <2>1 DEF Handled, Lost
  <2>3. Types'
    BY <2>1 DEF AttemptsInv, Types
  <2>4. Flow'
    BY <2>1, <2>2 DEF AttemptsInv, Flow
  <2>5. Queue'
    <3>1. \A a : Stored(a)' <=> Stored(a)
      BY <2>1 DEF Stored
    <3>2. \A i, a : Adds(i, a)' <=> Adds(i, a)
      BY <2>1 DEF Adds
    <3>. QED  BY <2>1, <2>2, <3>1, <3>2 DEF AttemptsInv, Queue
  <2>6. OwnCountedOnce' /\ OngoingUnfinished'
    BY <2>1 DEF AttemptsInv, OwnCountedOnce, OngoingUnfinished
  <2>. QED  BY <2>3, <2>4, <2>5, <2>6 DEF AttemptsInv
<1>. QED  BY <1>1, <1>2

(* Whatever tabs load, announce, close and lose between them: what is stored, *)
(* read, heard of or counted was handled, what is to be inserted is not      *)
(* stored, and what was handled is stored or to be, if its tab is there      *)
(* (handleAttempt in index.ts, menu/context.ts, db/attempt.ts).             *)
THEOREM AttemptsInvariant == Spec => []AttemptsInv
<1>. QED  BY AttemptsStart, AttemptsStep, PTL DEF Spec

(* An attempt is inserted by one tab, once and only when it was decided, and *)
(* what a tab counts is stored or about to be, if the tab that played it     *)
(* could store it.                                                          *)
THEOREM InsertedOnce == Spec => []StoredOnce
<1>1. AttemptsInv => StoredOnce
  <2> SUFFICES ASSUME AttemptsInv PROVE StoredOnce
    OBVIOUS
  <2>1. \A i \in 1 .. Len(db) : stage[db[i]] = "handled"
    <3>1. \A i \in 1 .. Len(db) : db[i] \in Handled
      BY DEF AttemptsInv, Flow
    <3>. QED  BY <3>1 DEF Handled
  <2>2. \A t \in Tab, a \in Attempt : counts[t][a] > 0 /\ owner[a] \notin Lost =>
          a \in ToSet(db) \/ \E i \in 1 .. Len(dbq) : dbq[i].att = a
    BY DEF AttemptsInv, Flow, Queue, Stored, Adds
  <2>. QED  BY <2>1, <2>2 DEF StoredOnce, AttemptsInv, Queue
<1>. QED  BY <1>1, AttemptsInvariant, PTL

(* A tab never counts its own attempt twice, however its loads cross its     *)
(* insertions.                                                              *)
THEOREM CountedOnce == Spec => []OwnCountedOnce
<1>1. AttemptsInv => OwnCountedOnce
  BY DEF AttemptsInv
<1>. QED  BY <1>1, AttemptsInvariant, PTL

(* The attempt the menu button shows as under way was started by this page   *)
(* and its result is not shown yet.                                         *)
THEOREM OngoingIsOwn == Spec => []OngoingUnfinished
<1>1. AttemptsInv => OngoingUnfinished
  BY DEF AttemptsInv
<1>. QED  BY <1>1, AttemptsInvariant, PTL
-----------------------------------------------------------------------------
(* Statistics.                                                              *)

StatTypes ==
  /\ best \in [Tab -> Attempt \union {None}]
  /\ heard \in [Tab -> SUBSET Attempt]
  /\ raced \in [Tab -> BOOLEAN]
  /\ loaded \in [Tab -> BOOLEAN]

(* A tab has been told of an attempt: it was handled, and no message about   *)
(* it is under way.                                                         *)
Told(t, a) == a \in Handled /\ a \notin ToSet(chan[t])

(* Nobody is told twice.                                                    *)
ToldOnce == \A t \in Tab : IsInjective(chan[t])

Reads(i, t) == i \in 1 .. Len(dbq) /\ dbq[i].op = "read" /\ dbq[i].tab = t

(* Whatever a tab was told of before a load began is in what the load read,  *)
(* or stored before it reads; what it was told of since, it heard.          *)
LoadCovers ==
  \A t \in Tab, a \in Attempt :
    alive[t] /\ Told(t, a) /\ owner[a] \notin Lost /\ a \notin heard[t] =>
      /\ \A k \in 1 .. Len(snaps[t]) : a \in ToSet(snaps[t][k])
      /\ \A i \in 1 .. Len(dbq) : Reads(i, t) =>
           Stored(a) \/ \E j \in 1 .. i - 1 : Adds(j, a)

(* Between loads that crossed nothing a tab counts what it was told of.      *)
CountsTold ==
  \A t \in Tab : alive[t] /\ loaded[t] /\ ~raced[t] /\ ~Loading(t) =>
    \A a \in Attempt : owner[a] \notin Lost =>
      counts[t][a] = IF Told(t, a) THEN 1 ELSE 0

Fastests == \A t \in Tab : ShowsFastest(t)

StatisticsInv == StatTypes /\ ToldOnce /\ LoadCovers /\ CountsTold /\ Fastests

(* b is the fastest win among the attempts of S, and None if there is none.  *)
IsFastest(b, S) ==
  LET wins == {a \in S : Duration[a] > 0} IN
  IF wins = {} THEN b = None
  ELSE b \in wins /\ \A a \in wins : Duration[b] <= Duration[a]

Fold == INSTANCE Folding WITH Op <- Fastest

LEMMA FastestOfMore ==
  ASSUME NEW S \in SUBSET Attempt, NEW b \in Attempt \union {None}, IsFastest(b, S),
         NEW a \in Attempt
  PROVE  /\ Fastest(b, a) \in Attempt \union {None}
         /\ IsFastest(Fastest(b, a), S \union {a})
<1>1. None \notin Attempt /\ Duration \in [Attempt -> Nat]
  BY AttemptsAssumption DEF AttemptsAssumption
<1>2. \A c \in Attempt : Duration[c] \in Nat
  BY <1>1
<1>3. CASE b = None
  <2>1. \A c \in S : ~(Duration[c] > 0)
    BY <1>1, <1>3 DEF IsFastest
  <2>. QED  BY <1>1, <1>2, <1>3, <2>1 DEF IsFastest, Fastest
<1>4. CASE b # None
  <2>1. b \in S /\ Duration[b] > 0 /\ \A c \in S : Duration[c] > 0 => Duration[b] <= Duration[c]
    BY <1>4 DEF IsFastest
  <2>2. CASE Duration[a] > 0 /\ Duration[b] > Duration[a]
    <3>1. Fastest(b, a) = a
      BY <2>2 DEF Fastest
    <3>2. \A c \in S \union {a} : Duration[c] > 0 => Duration[a] <= Duration[c]
      BY <1>2, <2>1, <2>2
    <3>. QED  BY <2>2, <3>1, <3>2 DEF IsFastest
  <2>3. CASE ~(Duration[a] > 0 /\ Duration[b] > Duration[a])
    <3>1. Fastest(b, a) = b
      BY <1>4, <2>3 DEF Fastest
    <3>2. \A c \in S \union {a} : Duration[c] > 0 => Duration[b] <= Duration[c]
      BY <1>2, <2>1, <2>3
    <3>. QED  BY <2>1, <3>1, <3>2 DEF IsFastest
  <2>. QED  BY <2>2, <2>3
<1>. QED  BY <1>3, <1>4

(* What the loader makes of the attempts it read, in whatever order they     *)
(* were stored: the fastest win of them all.                                *)
LEMMA LoadedFastest ==
  ASSUME NEW read \in Seq(Attempt)
  PROVE  /\ FoldLeft(Fastest, None, read) \in Attempt \union {None}
         /\ IsFastest(FoldLeft(Fastest, None, read), ToSet(read))
<1>1. FoldLeft(Fastest, None, read) = Fold!FoldLeft(Fastest, None, read)
  BY DEF FoldLeft, MapThenFoldSet, Max, Fold!FoldLeft, Fold!MapThenFoldSet, Fold!Max
<1>2. PICK it : /\ it[0] = None
                /\ \A k \in 1 .. Len(read) : it[k] = Fastest(it[k - 1], read[k])
                /\ Fold!FoldLeft(Fastest, None, read) = it[Len(read)]
  BY Fold!FoldRuns
<1>. DEFINE Upto(k) == {read[i] : i \in 1 .. k}
            S == {k \in 0 .. Len(read) : it[k] \in Attempt \union {None} /\ IsFastest(it[k], Upto(k))}
<1>3. 0 \in S
  <2>1. Upto(0) = {} /\ 0 \in 0 .. Len(read)
    OBVIOUS
  <2>. QED  BY <1>2, <2>1 DEF IsFastest
<1>4. ASSUME NEW k \in 0 .. Len(read) - 1, k \in S PROVE k + 1 \in S
  <2>1. /\ k + 1 \in 1 .. Len(read) /\ k + 1 \in 0 .. Len(read) /\ (k + 1) - 1 = k
        /\ read[k + 1] \in Attempt /\ Upto(k) \in SUBSET Attempt
    OBVIOUS
  <2>2. Upto(k + 1) = Upto(k) \union {read[k + 1]}
    <3>1. \A i : i \in 1 .. k + 1 <=> i \in 1 .. k \/ i = k + 1
      BY <2>1
    <3>. QED  BY <3>1
  <2>3. it[k + 1] = Fastest(it[k], read[k + 1])
    BY <1>2, <2>1
  <2>. HIDE DEF Upto
  <2>. QED  BY <1>4, <2>1, <2>2, <2>3, FastestOfMore
<1>5. \A k \in 0 .. Len(read) : k \in S
  <2>. HIDE DEF S
  <2>1. Len(read) \in Nat
    OBVIOUS
  <2>. QED  BY <1>3, <1>4, <2>1, Fold!Climb
<1>6. Len(read) \in 0 .. Len(read) /\ Upto(Len(read)) = ToSet(read)
  BY DEF ToSet
<1>7. Fold!FoldLeft(Fastest, None, read) = it[Len(read)]
  BY <1>2
<1>8. it[Len(read)] \in Attempt \union {None} /\ IsFastest(it[Len(read)], ToSet(read))
  <2>1. Len(read) \in S
    BY <1>5, <1>6
  <2>. QED  BY <1>6, <2>1
<1>. QED  BY <1>1, <1>7, <1>8

Counted(t) == {a \in Attempt : counts[t][a] > 0}

LEMMA ShowsIsFastest ==
  ASSUME NEW t \in Tab
  PROVE  ShowsFastest(t) <=> IsFastest(best[t], Counted(t))
<1>1. {a \in Counted(t) : Duration[a] > 0} = {a \in Attempt : counts[t][a] > 0 /\ Duration[a] > 0}
  BY DEF Counted
<1>. QED  BY <1>1 DEF ShowsFastest, IsFastest

(* A store that is told of an attempt it was not told of before counts it,   *)
(* and goes on showing the fastest win.                                     *)
LEMMA TellingStep ==
  ASSUME AttemptsInv, StatisticsInv, NEW t \in Tab, NEW a \in Attempt, Update(t, a), ~Told(t, a),
         UNCHANGED <<owner, loaded, raced, alive, open>>,
         \A u \in Tab : Loading(u)' <=> Loading(u),
         \A u \in Tab, b \in Attempt : alive[u] => (Told(u, b)' <=> Told(u, b) \/ (u = t /\ b = a))
  PROVE  StatTypes' /\ CountsTold' /\ Fastests'
<1>1. /\ counts \in [Tab -> [Attempt -> Nat]] /\ best \in [Tab -> Attempt \union {None}]
      /\ heard \in [Tab -> SUBSET Attempt]
  BY DEF AttemptsInv, Types, StatisticsInv, StatTypes
<1>2. heard' \in [Tab -> SUBSET Attempt]
  BY <1>1 DEF Update
<1>3. CASE ~loaded[t]
  <2>1. UNCHANGED <<counts, best>>
    BY <1>3 DEF Update
  <2>2. StatTypes' /\ Fastests'
    BY <1>2, <2>1 DEF StatisticsInv, StatTypes, Fastests, ShowsFastest
  <2>3. CountsTold'
    BY <1>3, <2>1 DEF StatisticsInv, CountsTold, Lost
  <2>. QED  BY <2>2, <2>3
<1>4. CASE loaded[t]
  <2>1. /\ counts' = [counts EXCEPT ![t][a] = @ + 1]
        /\ best' = [best EXCEPT ![t] = Fastest(@, a)]
    BY <1>4 DEF Update, AddAttempt
  <2>2. /\ \A u \in Tab : u # t => counts'[u] = counts[u] /\ best'[u] = best[u]
        /\ \A b \in Attempt : b # a => counts'[t][b] = counts[t][b]
        /\ counts'[t][a] = counts[t][a] + 1 /\ counts[t][a] \in Nat
        /\ best'[t] = Fastest(best[t], a)
    BY <1>1, <2>1
  <2>3. IsFastest(best[t], Counted(t))
    BY ShowsIsFastest DEF StatisticsInv, Fastests
  <2>4. /\ best'[t] \in Attempt \union {None}
        /\ IsFastest(best'[t], Counted(t) \union {a})
    <3>1. Counted(t) \in SUBSET Attempt /\ best[t] \in Attempt \union {None}
      BY <1>1 DEF Counted
    <3>. QED  BY <2>2, <2>3, <3>1, FastestOfMore
  <2>5. Counted(t)' = Counted(t) \union {a}
    BY <1>1, <2>2 DEF Counted
  <2>6. StatTypes'
    <3>1. best' \in [Tab -> Attempt \union {None}]
      BY <1>1, <2>1, <2>2, <2>4
    <3>. QED  BY <1>2, <3>1 DEF StatisticsInv, StatTypes
  <2>7. Fastests'
    <3>1. ShowsFastest(t)'
      <4>1. ShowsFastest(t)' <=> IsFastest(best'[t], Counted(t)')
        <5>1. {b \in Counted(t)' : Duration[b] > 0} = {b \in Attempt : counts'[t][b] > 0 /\ Duration[b] > 0}
          BY DEF Counted
        <5>. QED  BY <5>1 DEF ShowsFastest, IsFastest
      <4>. QED  BY <2>4, <2>5, <4>1
    <3>2. ASSUME NEW u \in Tab, u # t PROVE ShowsFastest(u)'
      <4>1. ShowsFastest(u)
        BY DEF StatisticsInv, Fastests
      <4>. QED  BY <2>2, <3>2, <4>1 DEF ShowsFastest
    <3>. QED  BY <3>1, <3>2 DEF Fastests
  <2>8. CountsTold'
    <3>1. ASSUME NEW u \in Tab, alive[u], loaded[u], ~raced[u], ~Loading(u),
                 NEW b \in Attempt, owner[b] \notin Lost
          PROVE  counts'[u][b] = IF Told(u, b)' THEN 1 ELSE 0
      <4>1. counts[u][b] = IF Told(u, b) THEN 1 ELSE 0
        BY <3>1 DEF StatisticsInv, CountsTold
      <4>2. CASE u = t /\ b = a
        BY <2>2, <3>1, <4>1, <4>2
      <4>3. CASE ~(u = t /\ b = a)
        BY <2>2, <3>1, <4>1, <4>3
      <4>. QED  BY <4>2, <4>3
    <3>2. Lost' = Lost
      BY DEF Lost
    <3>. QED  BY <3>1, <3>2 DEF CountsTold
  <2>. QED  BY <2>6, <2>7, <2>8
<1>. QED  BY <1>3, <1>4

(* Steps that leave everything statistics are made of alone.                 *)
LEMMA QuietStep ==
  ASSUME StatisticsInv, UNCHANGED <<owner, counts, best, loaded, dbq, db, snaps, chan, alive, heard, raced>>,
         Handled' = Handled, Lost \subseteq Lost'
  PROVE  StatisticsInv'
<1>2. /\ \A t, a : Told(t, a)' <=> Told(t, a)
      /\ \A t : Loading(t)' <=> Loading(t)
      /\ \A i, t : Reads(i, t)' <=> Reads(i, t)
      /\ \A i, a : Adds(i, a)' <=> Adds(i, a)
      /\ \A a : Stored(a)' <=> Stored(a)
      /\ \A t : ShowsFastest(t)' <=> ShowsFastest(t)
  BY DEF Told, Loading, Reading, Reads, Adds, Stored, ShowsFastest
<1>3. StatTypes' /\ ToldOnce' /\ Fastests'
  BY <1>2 DEF StatisticsInv, StatTypes, ToldOnce, Fastests
<1>4. CountsTold'
  BY <1>2 DEF StatisticsInv, CountsTold
<1>5. LoadCovers'
  BY <1>2 DEF StatisticsInv, LoadCovers
<1>. QED  BY <1>3, <1>4, <1>5 DEF StatisticsInv

LEMMA BeforeHandledCounts ==
  ASSUME AttemptsInv, StatisticsInv, NEW a \in Attempt, Start(a) \/ Resume(a) \/ Abandon(a) \/ End(a)
  PROVE  StatisticsInv'
<1>1. UNCHANGED <<owner, counts, best, loaded, dbq, db, snaps, chan, open, alive, heard, raced>>
  BY DEF Start, Resume, Abandon, End, storeVars, dbVars, tabVars
<1>2. PICK s \in Stage \ {"new", "handled"} : stage' = [stage EXCEPT ![a] = s] /\ stage[a] # "handled"
  <2>1. CASE Resume(a)
    <3>1. stage' = [stage EXCEPT ![a] = stage[a]]
      BY <2>1 DEF Resume, AttemptsInv, Types
    <3>2. stage[a] \in Stage \ {"new", "handled"}
      BY <2>1 DEF Resume, Stage
    <3>. QED  BY <3>1, <3>2
  <2>2. CASE Start(a) \/ Abandon(a) \/ End(a)
    BY <2>2 DEF Start, Abandon, End, Stage
  <2>. QED  BY <2>1, <2>2
<1>3. Handled' = Handled /\ Lost' = Lost
  BY <1>1, <1>2 DEF AttemptsInv, Types, Handled, Lost
<1>. QED  BY <1>1, <1>3, QuietStep

LEMMA HandleCounts ==
  ASSUME AttemptsInv, StatisticsInv, NEW a \in Attempt, Handle(a)
  PROVE  StatisticsInv'
<1>. DEFINE t == owner[a]
            tx == [op |-> "add", tab |-> t, att |-> a]
<1>1. /\ UNCHANGED <<owner, loaded, db, snaps, open, alive, raced>>
      /\ stage' = [stage EXCEPT ![a] = "handled"] /\ stage[a] = "submitting"
      /\ Update(t, a) /\ Announce(t, a) /\ Insert(t, a) /\ alive[t]
  BY DEF Handle, tabVars
<1>2. t \in Tab /\ tx \in Transaction /\ dbq \in Seq(Transaction) /\ chan \in [Tab -> Seq(Attempt)]
  BY DEF AttemptsInv, Types, Flow, Transaction
<1>3. a \notin Handled /\ Handled' = Handled \union {a} /\ Handled \subseteq Attempt
  BY <1>1 DEF AttemptsInv, Types, Handled
<1>4. ~Told(t, a) /\ \A u \in Tab : a \notin ToSet(chan[u])
  <2>1. ASSUME NEW u \in Tab PROVE a \notin ToSet(chan[u])
    <3>1. chan[u] \in Seq({b \in Handled : owner[b] # u})
      BY DEF AttemptsInv, Flow
    <3>. QED  BY <1>3, <3>1 DEF ToSet
  <2>. QED  BY <1>3, <2>1 DEF Told
<1>5. ASSUME NEW u \in Tab
      PROVE  /\ chan'[u] = IF u # t /\ alive[u] THEN Append(chan[u], a) ELSE chan[u]
             /\ ToSet(chan'[u]) = IF u # t /\ alive[u] THEN ToSet(chan[u]) \union {a} ELSE ToSet(chan[u])
             /\ IsInjective(chan'[u])
  <2>1. chan'[u] = IF u # t /\ alive[u] THEN Append(chan[u], a) ELSE chan[u]
    BY <1>1 DEF Announce
  <2>2. chan[u] \in Seq(Attempt) /\ IsInjective(chan[u])
    BY <1>2 DEF StatisticsInv, ToldOnce
  <2>3. CASE u # t /\ alive[u]
    <3>1. ToSet(chan'[u]) = ToSet(chan[u]) \union {a}
      BY <2>1, <2>2, <2>3, AppendOf
    <3>2. IsInjective(chan'[u])
      <4>1. \A i \in 1 .. Len(chan[u]) : chan[u][i] # a
        BY <1>4, <2>2 DEF ToSet
      <4>. QED  BY <2>1, <2>2, <2>3, <4>1 DEF IsInjective
    <3>. QED  BY <2>1, <2>3, <3>1, <3>2
  <2>4. CASE ~(u # t /\ alive[u])
    BY <2>1, <2>2, <2>4
  <2>. QED  BY <2>3, <2>4
<1>6. \A u \in Tab, b \in Attempt : alive[u] => (Told(u, b)' <=> Told(u, b) \/ (u = t /\ b = a))
  BY <1>3, <1>4, <1>5 DEF Told
<1>7. /\ \A i \in 1 .. Len(dbq) : i \in 1 .. Len(dbq') /\ dbq'[i] = dbq[i]
      /\ \A i \in 1 .. Len(dbq') : dbq'[i].op = "read" => i \in 1 .. Len(dbq)
  <2>1. CASE open[t]
    <3>1. dbq' = Append(dbq, tx)
      BY <1>1, <2>1 DEF Insert
    <3>2. tx.op # "read"
      OBVIOUS
    <3>. HIDE DEF tx
    <3>3. /\ Len(dbq') = Len(dbq) + 1 /\ Len(dbq) \in Nat
          /\ \A i \in 1 .. Len(dbq) : dbq'[i] = dbq[i]
          /\ dbq'[Len(dbq) + 1] = tx
      BY <1>2, <3>1, AppendOf
    <3>. QED  BY <3>2, <3>3
  <2>2. CASE ~open[t]
    BY <1>1, <2>2 DEF Insert
  <2>. QED  BY <2>1, <2>2
<1>8. /\ \A i : \A u \in Tab : Reads(i, u)' <=> Reads(i, u)
      /\ \A i, b : Adds(i, b) => Adds(i, b)'
  BY <1>7 DEF Reads, Adds
<1>9. \A u \in Tab : Loading(u)' <=> Loading(u)
  BY <1>1, <1>7 DEF Loading, Reading
<1>10. StatTypes' /\ CountsTold' /\ Fastests'
  BY <1>1, <1>2, <1>4, <1>6, <1>9, TellingStep
<1>11. ToldOnce'
  BY <1>5 DEF ToldOnce
<1>12. LoadCovers'
  <2>1. /\ \A u \in Tab : heard[u] \subseteq heard'[u]
        /\ Loading(t) => a \in heard'[t]
    BY <1>1, <1>2 DEF Update, StatisticsInv, StatTypes
  <2>2. ASSUME NEW u \in Tab, NEW b \in Attempt, alive[u], Told(u, b)', owner[b] \notin Lost, b \notin heard'[u]
        PROVE  /\ \A k \in 1 .. Len(snaps[u]) : b \in ToSet(snaps[u][k])
               /\ \A i \in 1 .. Len(dbq') : Reads(i, u)' => Stored(b) \/ \E j \in 1 .. i - 1 : Adds(j, b)'
    <3>1. CASE Told(u, b)
      <4>1. b \notin heard[u]
        BY <2>1, <2>2
      <4>2. /\ \A k \in 1 .. Len(snaps[u]) : b \in ToSet(snaps[u][k])
            /\ \A i \in 1 .. Len(dbq) : Reads(i, u) => Stored(b) \/ \E j \in 1 .. i - 1 : Adds(j, b)
        BY <2>2, <3>1, <4>1 DEF StatisticsInv, LoadCovers
      <4>3. \A i \in 1 .. Len(dbq') : Reads(i, u)' => i \in 1 .. Len(dbq) /\ Reads(i, u)
        BY <1>8 DEF Reads
      <4>. QED  BY <1>8, <4>2, <4>3
    <3>2. CASE u = t /\ b = a
      <4>1. ~Loading(t)
        BY <2>1, <2>2, <3>2
      <4>2. snaps[t] = <<>> /\ \A i : ~Reads(i, t)
        BY <4>1 DEF Loading, Reading, Reads
      <4>. QED  BY <1>2, <1>8, <3>2, <4>2
    <3>. QED  BY <1>6, <2>2, <3>1, <3>2
  <2>3. Lost' = Lost /\ \A b : Stored(b)' <=> Stored(b)
    BY <1>1 DEF Lost, Stored
  <2>. QED  BY <1>1, <2>2, <2>3 DEF LoadCovers
<1>. QED  BY <1>10, <1>11, <1>12 DEF StatisticsInv

LEMMA ReceiveCounts ==
  ASSUME AttemptsInv, StatisticsInv, NEW t \in Tab, Receive(t)
  PROVE  StatisticsInv'
<1>1. PICK a : a = Head(chan[t])
  OBVIOUS
<1>2. /\ UNCHANGED <<stage, owner, loaded, dbq, db, snaps, open, alive, raced>>
      /\ chan[t] # <<>> /\ Update(t, a) /\ chan' = [chan EXCEPT ![t] = Tail(@)]
  BY <1>1 DEF Receive, dbVars, tabVars
<1>3. /\ chan \in [Tab -> Seq(Attempt)]
      /\ chan[t] \in Seq({b \in Handled : owner[b] # t})
      /\ IsInjective(chan[t])
      /\ Handled' = Handled
  BY <1>2 DEF AttemptsInv, Flow, StatisticsInv, ToldOnce, Handled
<1>4. a \in Handled /\ a \in Attempt
  <2>1. a \in {b \in Handled : owner[b] # t}
    BY <1>1, <1>2, <1>3, TailOf
  <2>. QED  BY <2>1 DEF Handled
<1>5. /\ a = chan[t][1] /\ chan'[t] = Tail(chan[t])
      /\ Len(chan'[t]) = Len(chan[t]) - 1 /\ Len(chan[t]) \in Nat \ {0}
      /\ chan[t] \in Seq(Attempt) /\ chan'[t] \in Seq(Attempt)
      /\ \A i \in 1 .. Len(chan'[t]) : chan'[t][i] = chan[t][i + 1] /\ i + 1 \in 1 .. Len(chan[t])
  BY <1>1, <1>2, <1>3, TailOf
<1>6. DOMAIN chan[t] = 1 .. Len(chan[t]) /\ DOMAIN chan'[t] = 1 .. Len(chan'[t])
  BY <1>5
<1>7. IsInjective(chan'[t])
  BY <1>3, <1>5, <1>6 DEF IsInjective
<1>8. a \in ToSet(chan[t]) /\ a \notin ToSet(chan'[t])
  <2>1. 1 \in 1 .. Len(chan[t]) /\ \A i \in 1 .. Len(chan'[t]) : i + 1 # 1
    BY <1>5
  <2>. QED  BY <1>3, <1>5, <1>6, <2>1 DEF IsInjective, ToSet
<1>9. ToSet(chan[t]) = ToSet(chan'[t]) \union {a}
  <2>1. \A i \in 1 .. Len(chan[t]) : i = 1 \/ (i - 1 \in 1 .. Len(chan'[t]) /\ chan'[t][i - 1] = chan[t][i])
    BY <1>5
  <2>2. ASSUME NEW x \in ToSet(chan[t]) PROVE x = a \/ x \in ToSet(chan'[t])
    <3>1. PICK i \in 1 .. Len(chan[t]) : x = chan[t][i]
      BY <1>6 DEF ToSet
    <3>2. CASE i = 1
      BY <1>5, <3>1, <3>2
    <3>3. CASE i # 1
      BY <1>6, <2>1, <3>1, <3>3 DEF ToSet
    <3>. QED  BY <3>2, <3>3
  <2>3. \A x : x \in ToSet(chan'[t]) => x \in ToSet(chan[t])
    BY <1>5, <1>6 DEF ToSet
  <2>. QED  BY <1>8, <2>2, <2>3
<1>10. \A u \in Tab : u # t => chan'[u] = chan[u]
  BY <1>2, <1>3
<1>11. \A u \in Tab, b \in Attempt : Told(u, b)' <=> Told(u, b) \/ (u = t /\ b = a)
  BY <1>3, <1>4, <1>8, <1>9, <1>10 DEF Told
<1>12. /\ \A i, u : Reads(i, u)' <=> Reads(i, u)
       /\ \A i, b : Adds(i, b)' <=> Adds(i, b)
       /\ \A b : Stored(b)' <=> Stored(b)
       /\ \A u : Loading(u)' <=> Loading(u)
       /\ Lost' = Lost
  BY <1>2 DEF Reads, Adds, Stored, Loading, Reading, Lost
<1>13. StatTypes' /\ CountsTold' /\ Fastests'
  <2>1. ~Told(t, a)
    BY <1>8 DEF Told
  <2>. QED  BY <1>2, <1>4, <1>11, <1>12, <2>1, TellingStep
<1>14. ToldOnce'
  BY <1>7, <1>10 DEF StatisticsInv, ToldOnce
<1>15. LoadCovers'
  <2>1. /\ \A u \in Tab : heard[u] \subseteq heard'[u]
        /\ Loading(t) => a \in heard'[t]
    BY <1>2 DEF Update, StatisticsInv, StatTypes
  <2>2. ~Loading(t) => snaps[t] = <<>> /\ \A i : ~Reads(i, t)
    BY DEF Loading, Reading, Reads
  <2>3. Len(<<>>) = 0
    OBVIOUS
  <2>4. ASSUME NEW u \in Tab, NEW b \in Attempt, alive[u], Told(u, b)', owner[b] \notin Lost, b \notin heard'[u]
        PROVE  /\ \A k \in 1 .. Len(snaps[u]) : b \in ToSet(snaps[u][k])
               /\ \A i \in 1 .. Len(dbq) : Reads(i, u) => Stored(b) \/ \E j \in 1 .. i - 1 : Adds(j, b)
    <3>1. CASE Told(u, b)
      BY <2>1, <2>4, <3>1 DEF StatisticsInv, LoadCovers
    <3>2. CASE u = t /\ b = a
      BY <2>1, <2>2, <2>3, <2>4, <3>2
    <3>. QED  BY <1>11, <2>4, <3>1, <3>2
  <2>. QED  BY <1>2, <1>12, <2>4 DEF LoadCovers
<1>. QED  BY <1>13, <1>14, <1>15 DEF StatisticsInv

LEMMA SubscribeCounts ==
  ASSUME AttemptsInv, StatisticsInv, NEW t \in Tab, Subscribe(t)
  PROVE  StatisticsInv'
<1>. DEFINE tx == [op |-> "read", tab |-> t, att |-> None]
<1>1. UNCHANGED <<stage, owner, counts, best, loaded, db, snaps, chan, open, alive, raced>>
  BY DEF Subscribe, storeVars, tabVars
<1>2. Handled' = Handled /\ Lost' = Lost
  BY <1>1 DEF Handled, Lost
<1>3. CASE ~open[t]
  BY <1>1, <1>2, <1>3, QuietStep DEF Subscribe
<1>4. CASE open[t]
  <2>1. /\ dbq' = Append(dbq, tx)
        /\ heard' = IF Loading(t) THEN heard ELSE [heard EXCEPT ![t] = {}]
    BY <1>4 DEF Subscribe
  <2>2. tx \in Transaction /\ dbq \in Seq(Transaction)
    BY DEF Transaction, AttemptsInv, Types
  <2>3. tx.op = "read" /\ tx.tab = t
    OBVIOUS
  <2>. HIDE DEF tx
  <2>4. /\ Len(dbq') = Len(dbq) + 1 /\ Len(dbq) \in Nat
        /\ \A i \in 1 .. Len(dbq) : dbq'[i] = dbq[i]
        /\ dbq'[Len(dbq) + 1] = tx
    BY <2>1, <2>2, AppendOf
  <2>5. /\ \A i, u : Reads(i, u) => Reads(i, u)'
        /\ \A i, u : Reads(i, u)' => Reads(i, u) \/ (u = t /\ i = Len(dbq) + 1)
        /\ \A i, b : Adds(i, b) => Adds(i, b)'
    BY <2>3, <2>4 DEF Reads, Adds
  <2>6. /\ \A u, b : Told(u, b)' <=> Told(u, b)
        /\ \A b : Stored(b)' <=> Stored(b)
        /\ \A u : ShowsFastest(u)' <=> ShowsFastest(u)
    BY <1>1, <1>2 DEF Told, Stored, ShowsFastest
  <2>7. StatTypes' /\ ToldOnce' /\ Fastests'
    BY <1>1, <2>1, <2>6 DEF StatisticsInv, StatTypes, ToldOnce, Fastests
  <2>8. CountsTold'
    <3>1. \A u \in Tab : Loading(u) => Loading(u)'
      BY <1>1, <2>5 DEF Loading, Reading, Reads
    <3>. QED  BY <1>1, <1>2, <2>6, <3>1 DEF StatisticsInv, CountsTold
  <2>9. LoadCovers'
    <3>1. ASSUME NEW u \in Tab, NEW b \in Attempt, alive[u], Told(u, b), owner[b] \notin Lost, b \notin heard'[u]
          PROVE  /\ \A k \in 1 .. Len(snaps[u]) : b \in ToSet(snaps[u][k])
                 /\ \A i \in 1 .. Len(dbq') : Reads(i, u)' => Stored(b) \/ \E j \in 1 .. i - 1 : Adds(j, b)'
      <4>1. Stored(b) \/ \E j \in 1 .. Len(dbq) : Adds(j, b)'
        <5>1. Stored(b) \/ \E j \in 1 .. Len(dbq) : Adds(j, b)
          BY <3>1 DEF Told, AttemptsInv, Queue
        <5>. QED  BY <2>5, <5>1
      <4>2. \A i : u = t /\ i = Len(dbq) + 1 => Stored(b) \/ \E j \in 1 .. i - 1 : Adds(j, b)'
        <5>1. \A i : i = Len(dbq) + 1 => 1 .. i - 1 = 1 .. Len(dbq)
          BY <2>4
        <5>. QED  BY <4>1, <5>1
      <4>3. CASE b \notin heard[u]
        <5>1. /\ \A k \in 1 .. Len(snaps[u]) : b \in ToSet(snaps[u][k])
              /\ \A i \in 1 .. Len(dbq) : Reads(i, u) => Stored(b) \/ \E j \in 1 .. i - 1 : Adds(j, b)
          BY <3>1, <4>3 DEF StatisticsInv, LoadCovers
        <5>2. \A i : Reads(i, u) => i \in 1 .. Len(dbq)
          BY DEF Reads
        <5>. QED  BY <2>5, <4>2, <5>1, <5>2
      <4>4. CASE b \in heard[u]
        <5>1. u = t /\ ~Loading(t)
          BY <2>1, <3>1, <4>4 DEF StatisticsInv, StatTypes
        <5>2. snaps[u] = <<>> /\ \A i : ~Reads(i, u)
          BY <5>1 DEF Loading, Reading, Reads
        <5>3. Len(<<>>) = 0
          OBVIOUS
        <5>. QED  BY <2>5, <4>2, <5>2, <5>3
      <4>. QED  BY <4>3, <4>4
    <3>. QED  BY <1>1, <1>2, <2>6, <3>1 DEF LoadCovers
  <2>. QED  BY <2>7, <2>8, <2>9 DEF StatisticsInv
<1>. QED  BY <1>3, <1>4

LEMMA AppendIsMore ==
  ASSUME NEW S, NEW s \in Seq(S), NEW x \in S
  PROVE  Append(s, x) # <<>>
<1>1. Len(Append(s, x)) = Len(s) + 1 /\ Len(s) \in Nat /\ Len(<<>>) = 0
  BY AppendOf
<1>. QED  BY <1>1

LEMMA TransactCounts ==
  ASSUME AttemptsInv, StatisticsInv, Transact
  PROVE  StatisticsInv'
<1>1. PICK tx : tx = Head(dbq)
  OBVIOUS
<1>2. /\ UNCHANGED <<stage, owner, counts, best, loaded, chan, open, alive, heard, raced>>
      /\ dbq # <<>> /\ dbq' = Tail(dbq)
  BY DEF Transact, storeVars, tabVars
<1>3. /\ tx \in Transaction /\ tx.tab \in Tab /\ tx.op \in {"add", "read"} /\ tx = dbq[1]
      /\ Len(dbq') = Len(dbq) - 1 /\ Len(dbq) \in Nat \ {0}
      /\ \A i \in 1 .. Len(dbq') : dbq'[i] = dbq[i + 1] /\ i + 1 \in 1 .. Len(dbq)
  <2>1. dbq \in Seq(Transaction)
    BY DEF AttemptsInv, Types
  <2>2. tx \in Transaction
    BY <1>1, <1>2, <2>1, TailOf
  <2>. QED  BY <1>1, <1>2, <2>1, <2>2, TailOf DEF Transaction
<1>4. Handled' = Handled /\ Lost' = Lost
  BY <1>2 DEF Handled, Lost
<1>5. /\ db \in Seq(Handled) /\ snaps \in [Tab -> Seq(Seq(Handled))]
  BY DEF AttemptsInv, Flow
<1>6. /\ db' = db \/ db' = Append(db, tx.att)
      /\ alive[tx.tab] /\ tx.op = "add" => db' = Append(db, tx.att)
      /\ snaps' = IF alive[tx.tab] /\ tx.op = "read" THEN [snaps EXCEPT ![tx.tab] = Append(@, db)]
                  ELSE snaps
  BY <1>1, <1>3 DEF Transact
<1>7. /\ \A b : Stored(b) => Stored(b)'
      /\ alive[tx.tab] /\ tx.op = "add" => Stored(tx.att)'
  <2>1. alive[tx.tab] /\ tx.op = "add" => tx.att \in Handled
    BY <1>3 DEF AttemptsInv, Queue
  <2>2. db' = Append(db, tx.att) => \A b : Stored(b)' <=> Stored(b) \/ b = tx.att
    <3>1. ASSUME db' = Append(db, tx.att) PROVE ToSet(db') = ToSet(db) \union {tx.att}
      <4>1. db \in Seq(Handled \union {tx.att})
        BY <1>5, SeqOfMore
      <4>. QED  BY <3>1, <4>1, AppendOf
    <3>. QED  BY <3>1 DEF Stored
  <2>. QED  BY <1>6, <2>2 DEF Stored
<1>8. \A i, u : Reads(i, u)' => i + 1 \in 1 .. Len(dbq) /\ i \in 1 .. Len(dbq') /\ Reads(i + 1, u)
  BY <1>3 DEF Reads
<1>9. \A u, b : Told(u, b)' <=> Told(u, b)
  BY <1>2, <1>4 DEF Told
<1>10. StatTypes' /\ ToldOnce' /\ Fastests'
  BY <1>2 DEF StatisticsInv, StatTypes, ToldOnce, Fastests, ShowsFastest
<1>11. CountsTold'
  <2>1. ASSUME NEW u \in Tab, alive[u], Loading(u) PROVE Loading(u)'
    <3>1. CASE snaps[u] # <<>>
      <4>1. Append(snaps[u], db) # <<>>
        BY <1>5, AppendIsMore
      <4>2. snaps'[u] # <<>>
        BY <1>3, <1>5, <1>6, <3>1, <4>1
      <4>. QED  BY <4>2 DEF Loading
    <3>2. CASE \E i : Reads(i, u)
      <4>1. PICK i : Reads(i, u)
        BY <3>2
      <4>2. CASE i = 1
        <5>1. tx.tab = u /\ tx.op = "read"
          BY <1>3, <4>1, <4>2 DEF Reads
        <5>2. snaps'[u] = Append(snaps[u], db)
          BY <1>5, <1>6, <2>1, <5>1
        <5>3. Append(snaps[u], db) # <<>>
          BY <1>5, AppendIsMore
        <5>. QED  BY <5>2, <5>3 DEF Loading
      <4>3. CASE i # 1
        <5>1. i - 1 \in 1 .. Len(dbq') /\ dbq'[i - 1] = dbq[i]
          BY <1>3, <4>1, <4>3 DEF Reads
        <5>. QED  BY <4>1, <5>1 DEF Reads, Loading, Reading
      <4>. QED  BY <4>2, <4>3
    <3>. QED  BY <2>1, <3>1, <3>2 DEF Loading, Reading, Reads
  <2>. QED  BY <1>2, <1>4, <1>9, <2>1 DEF StatisticsInv, CountsTold
<1>12. LoadCovers'
  <2>1. ASSUME NEW u \in Tab, NEW b \in Attempt, alive[u], Told(u, b), owner[b] \notin Lost, b \notin heard[u]
        PROVE  /\ \A k \in 1 .. Len(snaps'[u]) : b \in ToSet(snaps'[u][k])
               /\ \A i \in 1 .. Len(dbq') : Reads(i, u)' => Stored(b)' \/ \E j \in 1 .. i - 1 : Adds(j, b)'
    <3>1. /\ \A k \in 1 .. Len(snaps[u]) : b \in ToSet(snaps[u][k])
          /\ \A i \in 1 .. Len(dbq) : Reads(i, u) => Stored(b) \/ \E j \in 1 .. i - 1 : Adds(j, b)
      BY <2>1 DEF StatisticsInv, LoadCovers
    <3>2. \A k \in 1 .. Len(snaps'[u]) : b \in ToSet(snaps'[u][k])
      <4>1. CASE snaps'[u] = snaps[u]
        BY <3>1, <4>1
      <4>2. CASE snaps'[u] # snaps[u]
        <5>1. u = tx.tab /\ tx.op = "read" /\ snaps'[u] = Append(snaps[u], db)
          BY <1>3, <1>5, <1>6, <4>2
        <5>2. Reads(1, u) /\ 1 \in 1 .. Len(dbq) /\ 1 .. 1 - 1 = {}
          BY <1>3, <5>1 DEF Reads
        <5>3. b \in ToSet(db)
          BY <3>1, <5>2 DEF Stored
        <5>4. /\ Len(snaps'[u]) = Len(snaps[u]) + 1 /\ Len(snaps[u]) \in Nat
              /\ \A k \in 1 .. Len(snaps[u]) : snaps'[u][k] = snaps[u][k]
              /\ snaps'[u][Len(snaps[u]) + 1] = db
          BY <1>5, <5>1
        <5>5. \A k \in 1 .. Len(snaps'[u]) : k \in 1 .. Len(snaps[u]) \/ k = Len(snaps[u]) + 1
          BY <5>4
        <5>. QED  BY <3>1, <5>3, <5>4, <5>5
      <4>. QED  BY <4>1, <4>2
    <3>3. ASSUME NEW i \in 1 .. Len(dbq'), Reads(i, u)'
          PROVE  Stored(b)' \/ \E j \in 1 .. i - 1 : Adds(j, b)'
      <4>1. i + 1 \in 1 .. Len(dbq) /\ Reads(i + 1, u) /\ (i + 1) - 1 = i
        BY <1>8, <3>3
      <4>2. CASE Stored(b)
        BY <1>7, <4>2
      <4>3. CASE \E j \in 1 .. i : Adds(j, b)
        <5>1. PICK j \in 1 .. i : Adds(j, b)
          BY <4>3
        <5>2. CASE j = 1
          <6>1. tx.op = "add" /\ tx.att = b /\ tx.tab = owner[b]
            BY <1>3, <5>1, <5>2 DEF Adds, AttemptsInv, Queue
          <6>2. alive[tx.tab]
            BY <1>3, <2>1, <6>1 DEF Lost
          <6>. QED  BY <1>7, <6>1, <6>2
        <5>3. CASE j # 1
          <6>1. j - 1 \in 1 .. i - 1 /\ j - 1 \in 1 .. Len(dbq') /\ dbq'[j - 1] = dbq[j]
            BY <1>3, <5>1, <5>3
          <6>. QED  BY <5>1, <6>1 DEF Adds
        <5>. QED  BY <5>2, <5>3
      <4>. QED  BY <3>1, <4>1, <4>2, <4>3
    <3>. QED  BY <3>2, <3>3
  <2>. QED  BY <1>2, <1>4, <1>9, <2>1 DEF LoadCovers
<1>. QED  BY <1>10, <1>11, <1>12 DEF StatisticsInv

LEMMA SetLoadedCounts ==
  ASSUME AttemptsInv, StatisticsInv, NEW t \in Tab, SetLoaded(t)
  PROVE  StatisticsInv'
<1>1. PICK read : read = Head(snaps[t])
  OBVIOUS
<1>2. /\ UNCHANGED <<stage, owner, dbq, db, chan, open, alive>>
      /\ alive[t] /\ snaps[t] # <<>> /\ snaps' = [snaps EXCEPT ![t] = Tail(@)]
      /\ counts' = [counts EXCEPT ![t] = [a \in Attempt |-> IF a \in ToSet(read) THEN 1 ELSE 0]]
      /\ best' = [best EXCEPT ![t] = FoldLeft(Fastest, None, read)]
      /\ raced' = [raced EXCEPT ![t] = \/ heard[t] \ ToSet(read) # {}
                                       \/ ToSet(chan[t]) \intersect ToSet(read) # {}]
      /\ loaded' = [loaded EXCEPT ![t] = TRUE]
      /\ heard' = IF Len(snaps[t]) = 1 /\ ~Reading(t) THEN [heard EXCEPT ![t] = {}] ELSE heard
  BY <1>1 DEF SetLoaded, tabVars
<1>3. Handled' = Handled /\ Lost' = Lost /\ Handled \subseteq Attempt
  BY <1>2 DEF Handled, Lost
<1>4. /\ read \in Seq(Handled) /\ read = snaps[t][1] /\ Len(snaps[t]) \in Nat \ {0}
      /\ Len(snaps'[t]) = Len(snaps[t]) - 1 /\ snaps'[t] \in Seq(Seq(Handled))
      /\ \A k \in 1 .. Len(snaps'[t]) : snaps'[t][k] = snaps[t][k + 1] /\ k + 1 \in 1 .. Len(snaps[t])
      /\ \A u \in Tab : u # t => snaps'[u] = snaps[u]
  <2>1. snaps \in [Tab -> Seq(Seq(Handled))] /\ snaps[t] \in Seq(Seq(Handled))
    BY DEF AttemptsInv, Flow
  <2>2. snaps'[t] = Tail(snaps[t])
    BY <1>2, <2>1
  <2>. QED  BY <1>1, <1>2, <2>1, <2>2, TailOf
<1>5. ToSet(read) \subseteq Handled
  BY <1>4 DEF ToSet
<1>6. /\ FoldLeft(Fastest, None, read) \in Attempt \union {None}
      /\ IsFastest(FoldLeft(Fastest, None, read), ToSet(read))
  <2>1. read \in Seq(Attempt)
    BY <1>3, <1>4, SeqOfMore
  <2>. QED  BY <2>1, LoadedFastest
<1>7. /\ counts \in [Tab -> [Attempt -> Nat]] /\ best \in [Tab -> Attempt \union {None}]
      /\ heard \in [Tab -> SUBSET Attempt] /\ raced \in [Tab -> BOOLEAN]
      /\ loaded \in [Tab -> BOOLEAN]
  BY DEF AttemptsInv, Types, StatisticsInv, StatTypes
<1>8. /\ \A b \in Attempt : counts'[t][b] = IF b \in ToSet(read) THEN 1 ELSE 0
      /\ best'[t] = FoldLeft(Fastest, None, read)
      /\ \A u \in Tab : u # t => /\ counts'[u] = counts[u] /\ best'[u] = best[u]
                                 /\ raced'[u] = raced[u] /\ loaded'[u] = loaded[u]
      /\ raced'[t] <=> \/ heard[t] \ ToSet(read) # {}
                       \/ ToSet(chan[t]) \intersect ToSet(read) # {}
  BY <1>2, <1>7
<1>9. StatTypes'
  BY <1>2, <1>6, <1>7 DEF StatTypes
<1>10. ToldOnce'
  BY <1>2 DEF StatisticsInv, ToldOnce
<1>11. Fastests'
  <2>1. ShowsFastest(t)'
    <3>1. {a \in Attempt : counts'[t][a] > 0 /\ Duration[a] > 0} = {a \in ToSet(read) : Duration[a] > 0}
      BY <1>3, <1>5, <1>8
    <3>. QED  BY <1>6, <1>8, <3>1 DEF ShowsFastest, IsFastest
  <2>2. ASSUME NEW u \in Tab, u # t PROVE ShowsFastest(u)'
    BY <1>8, <2>2 DEF StatisticsInv, Fastests, ShowsFastest
  <2>. QED  BY <2>1, <2>2 DEF Fastests
<1>12. /\ \A u, b : Told(u, b)' <=> Told(u, b)
       /\ \A i, u : Reads(i, u)' <=> Reads(i, u)
       /\ \A i, b : Adds(i, b)' <=> Adds(i, b)
       /\ \A b : Stored(b)' <=> Stored(b)
       /\ \A u : Reading(u)' <=> Reading(u)
  BY <1>2, <1>3 DEF Told, Reads, Adds, Stored, Reading
<1>13. CountsTold'
  <2>1. ASSUME ~raced'[t], NEW b \in Attempt, owner[b] \notin Lost
        PROVE  b \in ToSet(read) <=> Told(t, b)
    <3>1. b \in ToSet(read) => Told(t, b)
      BY <1>5, <1>8, <2>1 DEF Told
    <3>2. ASSUME Told(t, b), b \notin heard[t] PROVE b \in ToSet(read)
      <4>1. 1 \in 1 .. Len(snaps[t])
        BY <1>4
      <4>. QED  BY <1>2, <1>4, <2>1, <3>2, <4>1 DEF StatisticsInv, LoadCovers
    <3>3. b \in heard[t] => b \in ToSet(read)
      BY <1>8, <2>1
    <3>. QED  BY <3>1, <3>2, <3>3
  <2>2. \A u \in Tab : u # t => (Loading(u)' <=> Loading(u))
    BY <1>4, <1>12 DEF Loading
  <2>. QED  BY <1>2, <1>3, <1>8, <1>12, <2>1, <2>2 DEF StatisticsInv, CountsTold
<1>14. LoadCovers'
  <2>1. ASSUME NEW u \in Tab, NEW b \in Attempt, alive[u], Told(u, b), owner[b] \notin Lost, b \notin heard'[u]
        PROVE  /\ \A k \in 1 .. Len(snaps'[u]) : b \in ToSet(snaps'[u][k])
               /\ \A i \in 1 .. Len(dbq) : Reads(i, u) => Stored(b) \/ \E j \in 1 .. i - 1 : Adds(j, b)
    <3>1. CASE b \notin heard[u]
      <4>1. /\ \A k \in 1 .. Len(snaps[u]) : b \in ToSet(snaps[u][k])
            /\ \A i \in 1 .. Len(dbq) : Reads(i, u) => Stored(b) \/ \E j \in 1 .. i - 1 : Adds(j, b)
        BY <2>1, <3>1 DEF StatisticsInv, LoadCovers
      <4>2. CASE u = t
        BY <1>4, <4>1, <4>2
      <4>3. CASE u # t
        BY <1>4, <4>1, <4>3
      <4>. QED  BY <4>2, <4>3
    <3>2. CASE b \in heard[u]
      <4>1. u = t /\ Len(snaps[t]) = 1 /\ ~Reading(t)
        BY <1>2, <1>7, <2>1, <3>2
      <4>2. Len(snaps'[t]) = 0 /\ \A i : ~Reads(i, t)
        BY <1>4, <4>1 DEF Reading, Reads
      <4>. QED  BY <4>1, <4>2
    <3>. QED  BY <3>1, <3>2
  <2>. QED  BY <1>2, <1>3, <1>12, <2>1 DEF LoadCovers
<1>. QED  BY <1>9, <1>10, <1>11, <1>13, <1>14 DEF StatisticsInv

LEMMA LeaveCounts ==
  ASSUME AttemptsInv, StatisticsInv, NEW t \in Tab, Unsubscribe(t) \/ CloseConnection(t) \/ CloseTab(t)
  PROVE  StatisticsInv'
<1>1. UNCHANGED <<stage, owner, counts, best, loaded, dbq, db, heard, raced>>
  BY DEF Unsubscribe, CloseConnection, CloseTab, storeVars, dbVars
<1>2. Handled' = Handled
  BY <1>1 DEF Handled
<1>3. alive \in [Tab -> BOOLEAN] /\ open \in [Tab -> BOOLEAN] /\ chan \in [Tab -> Seq(Attempt)]
      /\ snaps \in [Tab -> Seq(Seq(Handled))]
  BY DEF AttemptsInv, Types, Flow
<1>4. CASE Unsubscribe(t) \/ CloseConnection(t)
  <2>1. UNCHANGED <<snaps, chan, alive>>
    BY <1>4 DEF Unsubscribe, CloseConnection, dbVars, tabVars
  <2>2. Lost \subseteq Lost'
    BY <1>3, <1>4, <2>1 DEF Lost, Unsubscribe, CloseConnection, tabVars
  <2>. QED  BY <1>1, <1>2, <2>1, <2>2, QuietStep
<1>5. CASE CloseTab(t)
  <2>1. /\ alive' = [alive EXCEPT ![t] = FALSE] /\ open' = open
        /\ chan' = [chan EXCEPT ![t] = <<>>] /\ snaps' = [snaps EXCEPT ![t] = <<>>]
    BY <1>5 DEF CloseTab
  <2>2. \A u \in Tab : alive'[u] =>
          u # t /\ alive[u] /\ chan'[u] = chan[u] /\ snaps'[u] = snaps[u]
    BY <1>3, <2>1
  <2>3. Lost \subseteq Lost'
    BY <1>3, <2>1 DEF Lost
  <2>4. /\ \A u \in Tab, b \in Attempt : alive'[u] => (Told(u, b)' <=> Told(u, b))
        /\ \A u \in Tab : alive'[u] => (Loading(u)' <=> Loading(u))
        /\ \A i, u : Reads(i, u)' <=> Reads(i, u)
        /\ \A i, b : Adds(i, b)' <=> Adds(i, b)
        /\ \A b : Stored(b)' <=> Stored(b)
    BY <1>1, <1>2, <2>2 DEF Told, Loading, Reading, Reads, Adds, Stored
  <2>5. ToldOnce'
    <3>1. IsInjective(<<>>)
      BY DEF IsInjective
    <3>. QED  BY <1>3, <2>1, <3>1 DEF StatisticsInv, ToldOnce
  <2>6. StatTypes' /\ Fastests'
    BY <1>1 DEF StatisticsInv, StatTypes, Fastests, ShowsFastest
  <2>7. CountsTold'
    BY <1>1, <2>2, <2>3, <2>4 DEF StatisticsInv, CountsTold
  <2>8. LoadCovers'
    BY <1>1, <2>2, <2>3, <2>4 DEF StatisticsInv, LoadCovers
  <2>. QED  BY <2>5, <2>6, <2>7, <2>8 DEF StatisticsInv
<1>. QED  BY <1>4, <1>5
-----------------------------------------------------------------------------
LEMMA StatisticsStart == Init => StatisticsInv
<1> SUFFICES ASSUME Init PROVE StatisticsInv
  OBVIOUS
<1>1. Len(<<>>) = 0 /\ IsInjective(<<>>)
  BY DEF IsInjective
<1>2. /\ StatTypes /\ ToldOnce /\ CountsTold
  BY <1>1 DEF Init, StatTypes, ToldOnce, CountsTold
<1>3. LoadCovers
  BY <1>1 DEF Init, LoadCovers
<1>4. Fastests
  BY DEF Init, Fastests, ShowsFastest
<1>. QED  BY <1>2, <1>3, <1>4 DEF StatisticsInv

LEMMA StatisticsStep == AttemptsInv /\ StatisticsInv /\ [Next]_vars => StatisticsInv'
<1> SUFFICES ASSUME AttemptsInv, StatisticsInv, [Next]_vars PROVE StatisticsInv'
  OBVIOUS
<1>1. CASE Next
  BY <1>1, BeforeHandledCounts, HandleCounts, ReceiveCounts, SubscribeCounts, TransactCounts,
     SetLoadedCounts, LeaveCounts DEF Next
<1>2. CASE UNCHANGED vars
  <2>1. UNCHANGED <<stage, owner, counts, best, loaded, dbq, db, snaps, chan, open, alive, heard, raced>>
    BY <1>2 DEF vars, storeVars, dbVars, tabVars
  <2>2. Handled' = Handled /\ Lost' = Lost
    BY <2>1 DEF Handled, Lost
  <2>. QED  BY <2>1, <2>2, QuietStep
<1>. QED  BY <1>1, <1>2

(* What a load reads or will read covers what its tab was told of before it  *)
(* began, and between loads that crossed nothing a tab counts what it was    *)
(* told of, whatever tabs load, announce, close and lose between them        *)
(* (menu/context.ts:84, index.ts:151).                                      *)
THEOREM StatisticsInvariant == Spec => []StatisticsInv
<1>. QED  BY StatisticsStart, StatisticsStep, AttemptsInvariant, PTL DEF Spec

(* A tab with nothing on its way shows every stored attempt once and nothing *)
(* else, unless a load crossed an update; and always the fastest of those it *)
(* counts, whatever the order it was told of them in (addAttemptToStatistics, *)
(* menu/context.ts).                                                        *)
THEOREM CountsExactly == Spec => []StatisticsExact
<1>1. AttemptsInv /\ StatisticsInv => StatisticsExact
  <2> SUFFICES ASSUME AttemptsInv, StatisticsInv PROVE StatisticsExact
    OBVIOUS
  <2>1. ASSUME NEW t \in Tab, Quiet(t), loaded[t], ~raced[t], NEW a \in Attempt, owner[a] \notin Lost
        PROVE  counts[t][a] = IF a \in ToSet(db) THEN 1 ELSE 0
    <3>1. alive[t] /\ ~Loading(t) /\ chan[t] = <<>> /\ dbq = <<>>
      BY <2>1 DEF Quiet
    <3>2. counts[t][a] = IF Told(t, a) THEN 1 ELSE 0
      BY <2>1, <3>1 DEF StatisticsInv, CountsTold
    <3>3. Told(t, a) <=> a \in Handled
      BY <3>1 DEF Told, ToSet
    <3>4. a \in Handled => Stored(a)
      BY <2>1, <3>1 DEF AttemptsInv, Queue, Adds
    <3>5. Stored(a) => a \in Handled
      <4>1. db \in Seq(Handled)
        BY DEF AttemptsInv, Flow
      <4>. QED  BY <4>1 DEF Stored, ToSet
    <3>. QED  BY <3>2, <3>3, <3>4, <3>5 DEF Stored
  <2>2. \A t \in Tab : Quiet(t) /\ loaded[t] /\ ~raced[t] => Exact(t)
    BY <2>1 DEF Exact
  <2>. QED  BY <2>2 DEF StatisticsExact, StatisticsInv, Fastests
<1>. QED  BY <1>1, AttemptsInvariant, StatisticsInvariant, PTL
=============================================================================
