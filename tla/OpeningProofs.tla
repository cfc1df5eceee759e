---------------------------- MODULE OpeningProofs ---------------------------
(***************************************************************************)
(* Proofs about Opening, for any pages and versions of the code: however     *)
(* upgrades fail, are left or blocked, a page that plays has the schema its  *)
(* code was written for.                                                    *)
(***************************************************************************)
EXTENDS Opening, SequenceTheorems, TLAPS

\* what a database of version n went through
UpTo(n) == [version |-> n, applied |-> [i \in 1 .. n |-> i]]

OpeningType ==
  /\ queue \in Seq(Page)
  /\ step \in {"start", "asked", "blocked", "upgrade"}
  /\ conn \in [Page -> {"none", "open", "closing"}]
  /\ page \in [Page -> {"none", "opening", "ready", "failed", "over", "left"}]

(* The upgrade under way is the first request's, which is newer than the     *)
(* database; while it runs no page is connected nor has anything to close,  *)
(* and what it will commit is the schema of its page.                       *)
UpgradeInv ==
  step # "start" =>
    /\ queue # <<>> /\ Version[Head(queue)] > disk.version
    /\ step = "upgrade" => told = {} /\ Connected = {} /\ work = UpTo(Version[Head(queue)])

OpeningInv ==
  /\ OpeningType
  /\ disk.version \in Nat /\ disk = UpTo(disk.version)
  /\ UpgradeInv
  /\ \A p \in Page : page[p] = "ready" => conn[p] = "open" /\ Version[p] = disk.version

-----------------------------------------------------------------------------
(* createConfigurator's migrations are those the database lacks, in order.   *)
LEMMA MigrationsComplete ==
  ASSUME NEW m \in Nat, NEW n \in Nat, m < n
  PROVE  [i \in 1 .. m |-> i] \o Migrations(m, n) = [i \in 1 .. n |-> i]
<1> DEFINE old == [i \in 1 .. m |-> i]
           new == Migrations(m, n)
           all == [i \in 1 .. n |-> i]
<1>1. old \in Seq(Nat) /\ Len(old) = m /\ \A i \in 1 .. m : old[i] = i
  <2>1. old \in [1 .. m -> Nat]
    OBVIOUS
  <2>. QED  BY <2>1, IsASeq, LenProperties
<1>2. new \in Seq(Nat) /\ Len(new) = n - m /\ \A i \in 1 .. n - m : new[i] = m + i
  <2>1. new \in [1 .. n - m -> Nat] /\ n - m \in Nat
    BY DEF Migrations
  <2>2. \A i \in 1 .. n - m : new[i] = m + i
    BY DEF Migrations
  <2>. QED  BY <2>1, <2>2, IsASeq, LenProperties
<1>3. all \in Seq(Nat) /\ Len(all) = n /\ \A i \in 1 .. n : all[i] = i
  <2>1. all \in [1 .. n -> Nat]
    OBVIOUS
  <2>. QED  BY <2>1, IsASeq, LenProperties
<1>. HIDE DEF old, new, all
<1>4. /\ old \o new \in Seq(Nat) /\ Len(old \o new) = n
      /\ \A i \in 1 .. n : (old \o new)[i] = IF i <= m THEN old[i] ELSE new[i - m]
  <2>1. /\ old \o new \in Seq(Nat) /\ Len(old \o new) = Len(old) + Len(new)
        /\ \A i \in 1 .. Len(old) + Len(new) :
             (old \o new)[i] = IF i <= Len(old) THEN old[i] ELSE new[i - Len(old)]
    BY <1>1, <1>2, ConcatProperties
  <2>. QED  BY <1>1, <1>2, <2>1
<1>5. \A i \in 1 .. n : (old \o new)[i] = i
  BY <1>1, <1>2, <1>4
<1>6. old \o new = all
  BY <1>3, <1>4, <1>5, SeqEqual
<1>. QED  BY <1>6 DEF old, new, all

(* A request that is withdrawn leaves the first one first.                  *)
LEMMA FirstStays ==
  ASSUME queue \in Seq(Page), NEW i \in 1 .. Len(queue), queue[i] # Head(queue)
  PROVE  /\ RemoveAt(queue, i) \in Seq(Page) /\ RemoveAt(queue, i) # <<>>
         /\ Head(RemoveAt(queue, i)) = Head(queue)
<1>1. queue # <<>> /\ i > 1 /\ Head(queue) = queue[1]
  OBVIOUS
<1> DEFINE l == SubSeq(queue, 1, i - 1)
           r == SubSeq(queue, i + 1, Len(queue))
<1>2. l \in Seq(Page) /\ Len(l) = i - 1 /\ l[1] = queue[1]
  BY <1>1, SubSeqProperties
<1>3. r \in Seq(Page)
  BY SubSeqProperties
<1>. HIDE DEF l, r
<1>4. l \o r \in Seq(Page) /\ Len(l \o r) >= 1 /\ (l \o r)[1] = l[1]
  BY <1>1, <1>2, <1>3, ConcatProperties, LenProperties
<1>5. RemoveAt(queue, i) = l \o r
  BY DEF RemoveAt, l, r
<1>. QED  BY <1>1, <1>2, <1>4, <1>5

LEMMA OpeningStart == OpeningInit => OpeningInv
<1> SUFFICES ASSUME OpeningInit PROVE OpeningInv
  OBVIOUS
<1>1. disk = UpTo(0) /\ disk.version = 0
  <2>1. [i \in 1 .. 0 |-> i] = <<>>
    OBVIOUS
  <2>. QED  BY <2>1 DEF OpeningInit, NewDisk, UpTo
<1>. QED  BY <1>1 DEF OpeningInit, OpeningInv, OpeningType, UpgradeInv

(* An answer ends the first request: nothing is under way after it.         *)
LEMMA DequeueType ==
  ASSUME OpeningInv, Dequeue, NEW p \in Page, First(p)
  PROVE  queue' \in Seq(Page) /\ step' = "start"
BY HeadTailProperties DEF OpeningInv, OpeningType, Dequeue, First

LEMMA AnswerStep ==
  ASSUME OpeningInv, NEW p \in Page, Answer(p)
  PROVE  OpeningInv'
<1>. USE OpeningAssumption DEF OpeningAssumption
<1>1. CASE OpenCurrent(p)
  <2>1. queue' \in Seq(Page) /\ step' = "start"
    BY <1>1, DequeueType DEF OpenCurrent, Succeed
  <2>. QED  BY <1>1, <2>1 DEF OpenCurrent, Succeed, OpeningInv, OpeningType, UpgradeInv, UpTo
<1>2. CASE RequestError(p)
  <2>1. queue' \in Seq(Page) /\ step' = "start"
    BY <1>2, DequeueType DEF RequestError, Reject
  <2>. QED  BY <1>2, <2>1 DEF RequestError, Reject, OpeningInv, OpeningType, UpgradeInv, UpTo
<1>3. CASE AskToClose(p)
  BY <1>3 DEF AskToClose, First, OpeningInv, OpeningType, UpgradeInv, UpTo
<1>4. CASE Blocked(p)
  BY <1>4 DEF Blocked, First, OpeningInv, OpeningType, UpgradeInv, UpTo
<1>5. CASE Upgrade(p)
  <2>1. work' = UpTo(Version[p])
    <3>1. Version[p] \in Nat /\ disk.version < Version[p] /\ disk.version \in Nat
      BY <1>5 DEF Upgrade, First, OpeningInv, UpgradeInv
    <3>2. disk.applied = [i \in 1 .. disk.version |-> i]
      <4>1. UpTo(disk.version).applied = [i \in 1 .. disk.version |-> i]
        BY DEF UpTo
      <4>. QED  BY <4>1 DEF OpeningInv
    <3>3. disk.applied \o Migrations(disk.version, Version[p]) = [i \in 1 .. Version[p] |-> i]
      BY <3>1, <3>2, MigrationsComplete
    <3>. QED  BY <1>5, <3>3 DEF Upgrade, UpTo
  <2>2. UpgradeInv'
    BY <1>5, <2>1 DEF Upgrade, First, OpeningInv, UpgradeInv, Connected
  <2>. QED  BY <1>5, <2>2 DEF Upgrade, OpeningInv, OpeningType
<1>6. CASE CommitUpgrade(p)
  <2>1. queue' \in Seq(Page) /\ step' = "start"
    BY <1>6, DequeueType DEF CommitUpgrade, Succeed
  <2>2. disk' = UpTo(Version[p]) /\ disk'.version = Version[p]
    BY <1>6 DEF CommitUpgrade, First, OpeningInv, UpgradeInv, UpTo
  <2>3. \A q \in Page : conn[q] = "none"
    BY <1>6 DEF CommitUpgrade, First, OpeningInv, UpgradeInv, Connected
  <2>4. \A q \in Page : page[q] # "ready"
    BY <2>3 DEF OpeningInv
  <2>5. ASSUME NEW q \in Page, page'[q] = "ready"
        PROVE  conn'[q] = "open" /\ Version[q] = disk'.version
    <3>1. q = p
      BY <1>6, <2>4, <2>5 DEF CommitUpgrade, Succeed, OpeningInv, OpeningType
    <3>. QED  BY <1>6, <2>2, <3>1 DEF CommitUpgrade, Succeed, OpeningInv, OpeningType
  <2>6. OpeningType'
    BY <1>6, <2>1 DEF CommitUpgrade, Succeed, OpeningInv, OpeningType
  <2>. QED  BY <2>1, <2>2, <2>5, <2>6 DEF OpeningInv, UpgradeInv
<1>. QED  BY <1>1, <1>2, <1>3, <1>4, <1>5, <1>6 DEF Answer

(* What a page does that is asked to close, works or is left connects        *)
(* nobody.                                                                  *)
LEMMA PageStep ==
  ASSUME OpeningInv, NEW p \in Page,
         Open(p) \/ VersionChange(p) \/ Begin(p) \/ End(p) \/ LeavePage(p)
  PROVE  OpeningInv'
<1>1. CASE Open(p)
  <2>1. /\ queue' \in Seq(Page) /\ queue' # <<>>
        /\ queue # <<>> => Head(queue') = Head(queue)
    BY <1>1, AppendProperties, HeadTailProperties DEF Open, OpeningInv, OpeningType
  <2>. QED  BY <1>1, <2>1 DEF Open, OpeningInv, OpeningType, UpgradeInv, Connected
<1>2. CASE VersionChange(p)
  BY <1>2 DEF VersionChange, OpeningInv, OpeningType, UpgradeInv, Connected
<1>3. CASE Begin(p)
  BY <1>3 DEF Begin, OpeningInv, OpeningType, UpgradeInv, Connected
<1>4. CASE End(p)
  BY <1>4 DEF End, OpeningInv, OpeningType, UpgradeInv, Connected
<1>5. CASE LeavePage(p)
  <2>1. /\ OpeningType' /\ disk' = disk
        /\ \A q \in Page : page'[q] = "ready" => page[q] = "ready" /\ conn'[q] = conn[q]
        /\ \A q \in Page : conn[q] = "none" => conn'[q] = "none"
    <3>1. queue' \in Seq(Page) /\ step' \in {step, "start"}
      BY <1>5, DequeueType, FirstStays DEF LeavePage, First, OpeningInv, OpeningType, Dequeue
    <3>. QED  BY <1>5, <3>1 DEF LeavePage, OpeningInv, OpeningType
  <2>2. UpgradeInv'
    <3>1. CASE First(p)
      BY <1>5, <3>1 DEF LeavePage, Dequeue, UpgradeInv
    <3>2. CASE ~First(p)
      <4>1. step' = step /\ work' = work /\ told' \subseteq told
        BY <1>5, <3>2 DEF LeavePage
      <4>2. queue # <<>> => queue' # <<>> /\ Head(queue') = Head(queue)
        BY <1>5, <3>2, FirstStays DEF LeavePage, First, OpeningInv, OpeningType
      <4>. QED  BY <2>1, <4>1, <4>2 DEF OpeningInv, UpgradeInv, Connected
    <3>. QED  BY <3>1, <3>2
  <2>. QED  BY <2>1, <2>2 DEF OpeningInv
<1>. QED  BY <1>1, <1>2, <1>3, <1>4, <1>5

LEMMA OpeningStep == OpeningInv /\ [OpeningNext]_oVars => OpeningInv'
<1> SUFFICES ASSUME OpeningInv, [OpeningNext]_oVars PROVE OpeningInv'
  OBVIOUS
<1>1. CASE OpeningNext
  BY <1>1, AnswerStep, PageStep DEF OpeningNext
<1>2. CASE UNCHANGED oVars
  BY <1>2 DEF oVars, OpeningInv, OpeningType, UpgradeInv, Connected
<1>. QED  BY <1>1, <1>2

(* The inductive invariant: what an upgrade under way knows of the database, *)
(* the requests and the connections.                                        *)
THEOREM OpeningInvariant == OpeningSpec => []OpeningInv
BY OpeningStart, OpeningStep, PTL DEF OpeningSpec

(* open() of src/src/util/indexedDB: whatever the pages, the versions of     *)
(* their code, and the order in which they open, are blocked, fail and are   *)
(* left, a page that plays is connected to a database of its own version,    *)
(* which went through each migration once and in order.                     *)
THEOREM OwnSchema == OpeningSpec => []PlaysOnOwnSchema
<1>1. OpeningInv => PlaysOnOwnSchema
  BY DEF OpeningInv, UpTo, PlaysOnOwnSchema
<1>. QED  BY <1>1, OpeningInvariant, PTL
=============================================================================
