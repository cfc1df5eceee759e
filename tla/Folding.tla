------------------------------ MODULE Folding ------------------------------
(***************************************************************************)
(* Induction on numbers, stated for sets so that a first-order prover can    *)
(* use it, and what FoldLeft of the community modules computes: the value    *)
(* it starts with for the empty sequence, and one more step for one more    *)
(* element.  A module takes the facts for its own operator by               *)
(* INSTANCE Folding WITH Op <- ...                                          *)
(***************************************************************************)
EXTENDS SequencesExt, WellFoundedInduction, TLAPS

CONSTANT Op(_, _)   \* what is folded: the value so far, and the next element

(* Numbers have a least one.                                                *)
LEMMA LeastNumber ==
  ASSUME NEW S \in SUBSET Nat, S # {}
  PROVE  \E n \in S : \A m \in S : n <= m
<1> DEFINE R == {p \in Nat \X Nat : p[1] < p[2]}
<1>1. IsWellFoundedOn(R, Nat)
  <2>1. OpToRel(<, Nat) = R
    BY DEF OpToRel
  <2>. QED  BY <2>1, NatLessThanWellFounded
<1>2. PICK n \in S : \A m \in S : ~(<<m, n>> \in R)
  <2> HIDE DEF R
  <2>. QED  BY <1>1, WFMin
<1>3. ASSUME NEW m \in S PROVE n <= m
  <2>1. m \in Nat /\ n \in Nat
    OBVIOUS
  <2>2. ~(m < n)
    BY <1>2, <2>1
  <2>. QED  BY <2>1, <2>2
<1>. QED  BY <1>3

(* A set with 0 in it, and the successor of each of its numbers below n,     *)
(* reaches n.                                                               *)
LEMMA Climb ==
  ASSUME NEW S, 0 \in S, NEW n \in Nat, \A k \in 0 .. n - 1 : k \in S => k + 1 \in S
  PROVE  \A k \in 0 .. n : k \in S
<1>. DEFINE Out == {k \in 0 .. n : k \notin S}
<1>. SUFFICES ASSUME Out # {} PROVE FALSE
  OBVIOUS
<1>1. PICK k \in Out : \A m \in Out : k <= m
  <2>1. Out \in SUBSET Nat
    OBVIOUS
  <2>. HIDE DEF Out
  <2>. QED  BY <2>1, LeastNumber
<1>2. k # 0 /\ k \in 0 .. n /\ k \notin S
  OBVIOUS
<1>3. k - 1 \in 0 .. n - 1 /\ k - 1 \notin Out
  BY <1>1, <1>2
<1>4. k - 1 \in S /\ (k - 1) + 1 = k
  BY <1>2, <1>3
<1>. QED  BY <1>2, <1>3, <1>4

(* The function that MapThenFoldSet defines by recursion on subsets, for the *)
(* indices of a sequence.                                                   *)
Computes(it, base, s, n) ==
  it = [S \in SUBSET (1 .. n) |->
          IF S = {} THEN base ELSE Op(it[S \ {Max(S)}], s[Max(S)])]

LEMMA MaxOfRange ==
  ASSUME NEW n \in Nat, NEW S \in SUBSET (1 .. n + 1), n + 1 \in S
  PROVE  Max(S) = n + 1
<1>1. \A y \in S : n + 1 >= y
  OBVIOUS
<1>2. \A x \in S : (\A y \in S : x >= y) => x = n + 1
  OBVIOUS
<1>. QED  BY <1>1, <1>2 DEF Max

LEMMA FoldExists ==
  ASSUME NEW base, NEW s, NEW n \in Nat
  PROVE  \E it : Computes(it, base, s, n)
<1>. DEFINE S == {k \in Nat : \E it : Computes(it, base, s, k)}
<1>1. 0 \in S
  <2>. DEFINE it == [T \in SUBSET (1 .. 0) |-> base]
  <2>1. \A T \in SUBSET (1 .. 0) : T = {}
    OBVIOUS
  <2>2. Computes(it, base, s, 0)
    BY <2>1 DEF Computes
  <2>. QED  BY <2>2
<1>2. ASSUME NEW k \in 0 .. n - 1, k \in S PROVE k + 1 \in S
  <2>1. PICK g : Computes(g, base, s, k)
    BY <1>2
  <2>. DEFINE h == [T \in SUBSET (1 .. k + 1) |->
                      IF k + 1 \in T THEN Op(g[T \ {k + 1}], s[k + 1]) ELSE g[T]]
  <2>2. ASSUME NEW T \in SUBSET (1 .. k + 1)
        PROVE  h[T] = IF T = {} THEN base ELSE Op(h[T \ {Max(T)}], s[Max(T)])
    <3>1. CASE k + 1 \in T
      <4>1. Max(T) = k + 1
        BY <3>1, MaxOfRange
      <4>2. T \ {k + 1} \in SUBSET (1 .. k + 1) /\ ~(k + 1 \in T \ {k + 1})
        OBVIOUS
      <4>3. h[T \ {k + 1}] = g[T \ {k + 1}]
        BY <4>2
      <4>. QED  BY <3>1, <4>1, <4>3
    <3>2. CASE ~(k + 1 \in T)
      <4>1. T \in SUBSET (1 .. k) /\ h[T] = g[T]
        BY <3>2
      <4>2. T \ {Max(T)} \in SUBSET (1 .. k + 1) /\ ~(k + 1 \in T \ {Max(T)})
        BY <3>2
      <4>3. h[T \ {Max(T)}] = g[T \ {Max(T)}]
        BY <4>2
      <4>4. g[T] = IF T = {} THEN base ELSE Op(g[T \ {Max(T)}], s[Max(T)])
        BY <2>1, <4>1 DEF Computes
      <4>. QED  BY <4>1, <4>3, <4>4
    <3>. QED  BY <3>1, <3>2
  <2>3. Computes(h, base, s, k + 1)
    <3>. DEFINE r == [T \in SUBSET (1 .. k + 1) |->
                        IF T = {} THEN base ELSE Op(h[T \ {Max(T)}], s[Max(T)])]
    <3>1. h = r
      BY <2>2
    <3>. QED  BY <3>1 DEF Computes
  <2>. QED  BY <2>3
<1>3. \A k \in 0 .. n : k \in S
  <2>. HIDE DEF S
  <2>. QED  BY <1>1, <1>2, Climb
<1>. QED  BY <1>3

(* FoldLeft is the last of the values that the recursion goes through.       *)
LEMMA FoldRuns ==
  ASSUME NEW base, NEW E, NEW s \in Seq(E)
  PROVE  \E it : /\ it[0] = base
                 /\ \A k \in 1 .. Len(s) : it[k] = Op(it[k - 1], s[k])
                 /\ FoldLeft(Op, base, s) = it[Len(s)]
<1>. DEFINE n == Len(s)
            f == CHOOSE it : Computes(it, base, s, n)
            it == [k \in 0 .. n |-> f[1 .. k]]
<1>1. n \in Nat /\ DOMAIN s = 1 .. n
  OBVIOUS
<1>2. FoldLeft(Op, base, s) = f[1 .. n]
  BY <1>1 DEF FoldLeft, MapThenFoldSet, Computes
<1>3. Computes(f, base, s, n)
  BY <1>1, FoldExists
<1>4. ASSUME NEW T \in SUBSET (1 .. n)
      PROVE  f[T] = IF T = {} THEN base ELSE Op(f[T \ {Max(T)}], s[Max(T)])
  BY <1>3 DEF Computes
<1>. HIDE DEF f
<1>5. it[0] = base
  <2>1. 1 .. 0 = {} /\ {} \in SUBSET (1 .. n) /\ 0 \in 0 .. n
    BY <1>1
  <2>2. f[{}] = base
    BY <1>4, <2>1
  <2>. QED  BY <2>1, <2>2
<1>6. ASSUME NEW k \in 1 .. n PROVE it[k] = Op(it[k - 1], s[k])
  <2>1. k \in 1 .. k /\ 1 .. k \in SUBSET (1 .. n) /\ k \in 0 .. n /\ k - 1 \in 0 .. n
    BY <1>1
  <2>0. (1 .. k) \ {k} = 1 .. (k - 1)
    <3>1. \A j : j \in (1 .. k) \ {k} <=> j \in 1 .. (k - 1)
      BY <1>1
    <3>. QED  BY <3>1
  <2>2. Max(1 .. k) = k
    <3>1. k - 1 \in Nat /\ (k - 1) + 1 = k /\ k \in 1 .. k
      BY <1>1
    <3>. QED  BY <3>1, MaxOfRange
  <2>3. f[1 .. k] = Op(f[1 .. (k - 1)], s[k])
    <3>1. 1 .. k # {}
      BY <2>1
    <3>. QED  BY <1>4, <2>0, <2>1, <2>2, <3>1
  <2>. QED  BY <1>1, <2>3
<1>7. FoldLeft(Op, base, s) = it[Len(s)]
  BY <1>1, <1>2
<1>. QED  BY <1>5, <1>6, <1>7

LEMMA FoldOfNothing ==
  ASSUME NEW base
  PROVE  FoldLeft(Op, base, <<>>) = base
<1>. DEFINE none == <<>>
<1>1. none \in Seq({}) /\ Len(none) = 0
  OBVIOUS
<1>. HIDE DEF none
<1>2. PICK it : /\ it[0] = base
                /\ \A k \in 1 .. Len(none) : it[k] = Op(it[k - 1], none[k])
                /\ FoldLeft(Op, base, none) = it[Len(none)]
  BY <1>1, FoldRuns
<1>. QED  BY <1>1, <1>2 DEF none

LEMMA FoldOfMore ==
  ASSUME NEW base, NEW E, NEW s \in Seq(E), NEW e \in E
  PROVE  FoldLeft(Op, base, Append(s, e)) = Op(FoldLeft(Op, base, s), e)
<1>. DEFINE u == Append(s, e)  n == Len(s)
<1>1. /\ u \in Seq(E) /\ Len(u) = n + 1 /\ n \in Nat /\ u[n + 1] = e
      /\ \A k \in 1 .. n : u[k] = s[k]
  OBVIOUS
<1>2. PICK f : /\ f[0] = base
               /\ \A k \in 1 .. n : f[k] = Op(f[k - 1], s[k])
               /\ FoldLeft(Op, base, s) = f[n]
  BY FoldRuns
<1>. HIDE DEF u
<1>3. PICK g : /\ g[0] = base
               /\ \A k \in 1 .. n + 1 : g[k] = Op(g[k - 1], u[k])
               /\ FoldLeft(Op, base, u) = g[n + 1]
  <2>1. PICK g : /\ g[0] = base
                 /\ \A k \in 1 .. Len(u) : g[k] = Op(g[k - 1], u[k])
                 /\ FoldLeft(Op, base, u) = g[Len(u)]
    BY <1>1, FoldRuns
  <2>. QED  BY <1>1, <2>1
<1>. DEFINE S == {k \in 0 .. n : g[k] = f[k]}
<1>4. 0 \in S
  BY <1>1, <1>2, <1>3
<1>5. ASSUME NEW k \in 0 .. n - 1, k \in S PROVE k + 1 \in S
  <2>1. k + 1 \in 1 .. n /\ k + 1 \in 1 .. n + 1 /\ (k + 1) - 1 = k /\ k + 1 \in 0 .. n
    BY <1>1
  <2>2. f[k + 1] = Op(f[k], s[k + 1]) /\ g[k + 1] = Op(g[k], u[k + 1])
    BY <1>2, <1>3, <2>1
  <2>. QED  BY <1>1, <1>5, <2>1, <2>2
<1>6. \A k \in 0 .. n : k \in S
  <2>. HIDE DEF S
  <2>. QED  BY <1>1, <1>4, <1>5, Climb
<1>7. g[n] = f[n]
  BY <1>1, <1>6
<1>8. g[n + 1] = Op(g[n], u[n + 1])
  <2>1. n + 1 \in 1 .. n + 1 /\ (n + 1) - 1 = n
    BY <1>1
  <2>. QED  BY <1>3, <2>1
<1>. QED  BY <1>1, <1>2, <1>3, <1>7, <1>8 DEF u
=============================================================================
