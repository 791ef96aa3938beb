--------------------------- MODULE HeapSort_proofs ---------------------------
(***************************************************************************)
(* What heap_sort does to an array of any length, step by step.  Its       *)
(* invariant is about the array with the element on its way put back at    *)
(* the position it has reached: then every step exchanges two elements or  *)
(* none.                                                                   *)
(***************************************************************************)
EXTENDS HeapSort, FiniteSetTheorems, WellFoundedInduction, TLAPS

-----------------------------------------------------------------------------
(* Rearranging an array *)

\* a holds the elements of b, each position of b once.
Rearranged(a, b) ==
  \E p \in [DOMAIN b -> DOMAIN b] :
    /\ \A x, y \in DOMAIN b : p[x] = p[y] => x = y
    /\ \A y \in DOMAIN b : \E x \in DOMAIN b : p[x] = y
    /\ a = [x \in DOMAIN b |-> b[p[x]]]

\* a with the elements at i and j exchanged.
Exchanged(a, i, j) ==
  [x \in DOMAIN a |-> IF x = i THEN a[j] ELSE IF x = j THEN a[i] ELSE a[x]]

\* An array is a rearrangement of itself.
LEMMA RearrangedSelf ==
  ASSUME NEW S, NEW b \in Seq(S) PROVE Rearranged(b, b)
<1> DEFINE p == [x \in DOMAIN b |-> x]
<1>1. p \in [DOMAIN b -> DOMAIN b] /\ b = [x \in DOMAIN b |-> b[p[x]]]
  OBVIOUS
<1>2. \A x, y \in DOMAIN b : p[x] = p[y] => x = y
  OBVIOUS
<1>3. \A y \in DOMAIN b : \E x \in DOMAIN b : p[x] = y
  OBVIOUS
<1> QED BY <1>1, <1>2, <1>3 DEF Rearranged

\* Exchanging two elements rearranges.
LEMMA ExchangeRearranges ==
  ASSUME NEW a, NEW b, Rearranged(a, b), NEW i \in DOMAIN b, NEW j \in DOMAIN b
  PROVE  Rearranged(Exchanged(a, i, j), b)
<1> DEFINE D == DOMAIN b
<1>1. PICK p \in [D -> D] : /\ \A x, y \in D : p[x] = p[y] => x = y
                            /\ \A y \in D : \E x \in D : p[x] = y
                            /\ a = [x \in D |-> b[p[x]]]
  BY DEF Rearranged
<1> DEFINE q == [x \in D |-> IF x = i THEN p[j] ELSE IF x = j THEN p[i] ELSE p[x]]
<1>2. q \in [D -> D]
  OBVIOUS
<1>3. \A x, y \in D : q[x] = q[y] => x = y
  BY <1>1
<1>4. \A y \in D : \E x \in D : q[x] = y
  <2> SUFFICES ASSUME NEW y \in D PROVE \E x \in D : q[x] = y
    OBVIOUS
  <2>1. PICK x \in D : p[x] = y
    BY <1>1
  <2>2. q[i] = p[j] /\ q[j] = p[i] /\ (x # i /\ x # j => q[x] = p[x])
    OBVIOUS
  <2> QED BY <2>1, <2>2
<1>5. Exchanged(a, i, j) = [x \in D |-> b[q[x]]]
  <2>1. DOMAIN a = D /\ \A x \in D : a[x] = b[p[x]]
    BY <1>1
  <2>2. ASSUME NEW x \in D
        PROVE  (IF x = i THEN a[j] ELSE IF x = j THEN a[i] ELSE a[x]) = b[q[x]]
    BY <2>1
  <2> HIDE DEF q
  <2> QED BY <2>1, <2>2 DEF Exchanged
<1> HIDE DEF q
<1> QED BY <1>2, <1>3, <1>4, <1>5 DEF Rearranged

\* A rearrangement holds every element as often as the array.
LEMMA RearrangedCounts ==
  ASSUME NEW S, NEW b \in Seq(S), NEW a, Rearranged(a, b)
  PROVE  IsPermutation(a, b)
<1> DEFINE D == DOMAIN b
<1>1. PICK p \in [D -> D] : /\ \A x, y \in D : p[x] = p[y] => x = y
                            /\ \A y \in D : \E x \in D : p[x] = y
                            /\ a = [x \in D |-> b[p[x]]]
  BY DEF Rearranged
<1>2. DOMAIN a = D /\ \A x \in D : a[x] = b[p[x]]
  BY <1>1
<1>3. ASSUME NEW v PROVE Count(a, v) = Count(b, v)
  <2> DEFINE A == {x \in D : a[x] = v}
             B == {x \in D : b[x] = v}
             f == [x \in A |-> p[x]]
  <2>1. IsFiniteSet(B)
    <3>1. D = 1..Len(b) /\ Len(b) \in Nat
      OBVIOUS
    <3>2. IsFiniteSet(D)
      BY <3>1, FS_Interval
    <3> QED BY <3>2, FS_Subset
  <2>2. f \in [A -> B]
    BY <1>2
  <2>3. f \in Injection(A, B)
    <3>1. ASSUME NEW x \in A, NEW y \in A, f[x] = f[y] PROVE x = y
      <4>1. p[x] = p[y] /\ x \in D /\ y \in D
        BY <3>1
      <4> QED BY <4>1, <1>1
    <3> HIDE DEF f, A, B
    <3> QED BY <2>2, <3>1 DEF Injection, IsInjective
  <2>4. f \in Surjection(A, B)
    <3>1. ASSUME NEW y \in B PROVE \E x \in A : f[x] = y
      <4>1. PICK x \in D : p[x] = y
        BY <1>1
      <4>2. x \in A
        BY <4>1, <1>2
      <4> QED BY <4>1, <4>2
    <3> QED BY <2>2, <3>1 DEF Surjection
  <2>5. IsFiniteSet(A)
    <3>1. D = 1..Len(b) /\ Len(b) \in Nat
      OBVIOUS
    <3>2. IsFiniteSet(D)
      BY <3>1, FS_Interval
    <3> QED BY <3>2, FS_Subset
  <2>6. f \in Bijection(A, B)
    BY <2>3, <2>4 DEF Bijection
  <2>7. Cardinality(A) = Cardinality(B)
    <3> HIDE DEF f, A, B
    <3>1. ExistsBijection(A, B)
      BY <2>6 DEF ExistsBijection
    <3> QED BY <2>5, <3>1, FS_Bijection
  <2> QED BY <2>7, <1>2 DEF Count
<1> QED BY <1>2, <1>3 DEF IsPermutation
-----------------------------------------------------------------------------
(* Heaps *)

\* A set of numbers has a least element.
LEMMA Least ==
  ASSUME NEW T \in SUBSET Nat, T # {} PROVE \E x \in T : \A y \in T : x <= y
<1> DEFINE R == {ss \in Nat \X Nat : ss[1] < ss[2]}
<1>1. IsWellFoundedOn(R, Nat)
  BY NatLessThanWellFounded DEF OpToRel
<1>2. PICK x \in T : \A y \in T : ~(<<y, x>> \in R)
  BY <1>1, WFMin
<1>3. ASSUME NEW y \in T PROVE x <= y
  <2>1. x \in Nat /\ y \in Nat
    OBVIOUS
  <2>2. ~(<<y, x>> \in R)
    BY <1>2
  <2>3. ~(y < x)
    BY <2>1, <2>2
  <2> QED BY <2>1, <2>3
<1> QED BY <1>3

ChildOf(x, q) == x = 2 * q + 1 \/ x = 2 * q + 2

\* g[x]: the offset at position x.  Of the first s positions, those from i on
\* are no smaller than their children, the hole perhaps excepted.
Above(g, s, i, hole) ==
  \A q, x \in 0..(s - 1) : i <= q /\ q # hole /\ ChildOf(x, q) => g[x] <= g[q]

\* The parent of the hole is no smaller than the children of the hole.
Bridged(g, s, i, hole) ==
  \A q, x \in 0..(s - 1) : i <= q /\ ChildOf(hole, q) /\ ChildOf(x, hole) => g[x] <= g[q]

\* Of n positions, those from s on are in their final order.
Behind(g, s, n) ==
  \A x, y \in 0..(n - 1) : s <= x /\ y < x => g[y] <= g[x]

\* Half of a number.
LEMMA Half ==
  ASSUME NEW a \in Nat
  PROVE  a \div 2 \in Nat /\ 2 * (a \div 2) <= a /\ a < 2 * (a \div 2) + 2
OBVIOUS

\* Every position but the root has a parent before it.
LEMMA ParentOf ==
  ASSUME NEW x \in Nat, x > 0
  PROVE  \E q \in Nat : q < x /\ ChildOf(x, q)
<1>1. x - 1 \in Nat
  OBVIOUS
<1>2. (x - 1) \div 2 \in Nat /\ 2 * ((x - 1) \div 2) <= x - 1 /\ x - 1 < 2 * ((x - 1) \div 2) + 2
  BY <1>1, Half
<1> DEFINE q == (x - 1) \div 2
<1>3. q \in Nat /\ q < x /\ ChildOf(x, q)
  BY <1>2 DEF ChildOf
<1> QED BY <1>3

\* No number in the upper half has a child in the array.
LEMMA HalfHasNoChildren ==
  ASSUME NEW n \in Nat
  PROVE  n \div 2 \in 0..n /\ \A q \in Nat : n \div 2 <= q => 2 * q + 1 >= n
BY Half

\* The root of a heap is its largest element.
LEMMA RootIsLargest ==
  ASSUME NEW n \in Nat, NEW g \in [0..(n - 1) -> Nat], NEW s \in 1..n, Above(g, s, 0, -1)
  PROVE  \A x \in 0..(s - 1) : g[x] <= g[0]
<1> DEFINE T == {x \in 0..(s - 1) : ~(g[x] <= g[0])}
<1> SUFFICES ASSUME T # {} PROVE FALSE
  OBVIOUS
<1>1. PICK x \in T : \A y \in T : x <= y
  <2>1. T \in SUBSET Nat
    OBVIOUS
  <2> HIDE DEF T
  <2> QED BY <2>1, Least
<1>2. x \in Nat /\ x # 0
  BY <1>1
<1>3. PICK q \in Nat : q < x /\ ChildOf(x, q)
  BY <1>2, ParentOf
<1>4. q \in 0..(s - 1) /\ x \in 0..(s - 1)
  BY <1>1, <1>3
<1>5. q \notin T
  BY <1>1, <1>3
<1>6. g[x] <= g[q]
  BY <1>3, <1>4 DEF Above
<1>7. g[q] <= g[0]
  BY <1>4, <1>5
<1>8. g[x] \in Nat /\ g[q] \in Nat /\ g[0] \in Nat
  BY <1>4
<1> QED BY <1>1, <1>6, <1>7, <1>8

\* The largest child of the hole moves up into it: the hole moves down.
LEMMA HoleMovesDown ==
  ASSUME NEW n \in Nat, NEW g \in [0..(n - 1) -> Nat], NEW s \in 1..n,
         NEW i \in Nat, NEW hole \in i..(s - 1), NEW c \in 0..(s - 1),
         Above(g, s, i, hole), Bridged(g, s, i, hole), Behind(g, s, n),
         ChildOf(c, hole), g[hole] <= g[c],
         \A x \in 0..(s - 1) : ChildOf(x, hole) => g[x] <= g[c]
  PROVE  /\ Above(Exchanged(g, hole, c), s, i, c)
         /\ Bridged(Exchanged(g, hole, c), s, i, c)
         /\ Behind(Exchanged(g, hole, c), s, n)
<1> DEFINE h == Exchanged(g, hole, c)
<1>0. hole \in Nat /\ c \in Nat /\ hole < c /\ hole \in 0..(s - 1)
  BY DEF ChildOf
<1>1. /\ h[hole] = g[c] /\ h[c] = g[hole]
      /\ \A x \in 0..(n - 1) : x # hole /\ x # c => h[x] = g[x]
  BY <1>0 DEF Exchanged
<1>2. \A x \in 0..(n - 1) : g[x] \in Nat /\ h[x] \in Nat
  BY <1>0 DEF Exchanged
<1> HIDE DEF h
<1>3. Above(h, s, i, c)
  <2> SUFFICES ASSUME NEW q \in 0..(s - 1), NEW x \in 0..(s - 1), i <= q, q # c, ChildOf(x, q)
               PROVE  h[x] <= h[q]
    BY DEF Above
  <2>1. x \in 0..(n - 1) /\ q \in 0..(n - 1) /\ q < x
    BY DEF ChildOf
  <2>2. CASE q = hole
    BY <1>0, <1>1, <1>2, <2>1, <2>2
  <2>3. CASE q # hole /\ x = hole
    <3>1. g[c] <= g[q]
      BY <2>3 DEF Bridged
    <3> QED BY <1>1, <2>1, <2>3, <3>1
  <2>4. CASE q # hole /\ x # hole
    <3>1. x # c
      BY <2>4, <1>0 DEF ChildOf
    <3>2. g[x] <= g[q]
      BY <2>4 DEF Above
    <3> QED BY <1>1, <2>1, <2>4, <3>1, <3>2
  <2> QED BY <2>2, <2>3, <2>4
<1>4. Bridged(h, s, i, c)
  <2> SUFFICES ASSUME NEW q \in 0..(s - 1), NEW x \in 0..(s - 1), i <= q,
                      ChildOf(c, q), ChildOf(x, c)
               PROVE  h[x] <= h[q]
    BY DEF Bridged
  <2>1. q = hole /\ c < x /\ x \in 0..(n - 1)
    BY <1>0 DEF ChildOf
  <2>2. g[x] <= g[c]
    BY <1>0 DEF Above
  <2> QED BY <1>0, <1>1, <2>1, <2>2
<1>5. Behind(h, s, n)
  <2> SUFFICES ASSUME NEW x \in 0..(n - 1), NEW y \in 0..(n - 1), s <= x, y < x
               PROVE  h[y] <= h[x]
    BY DEF Behind
  <2>1. h[x] = g[x]
    BY <1>0, <1>1
  <2>2. g[y] <= g[x] /\ g[hole] <= g[x] /\ g[c] <= g[x]
    BY <1>0 DEF Behind
  <2> QED BY <1>1, <2>1, <2>2
<1> QED BY <1>3, <1>4, <1>5 DEF h

\* An element no smaller than its children fills the hole.
LEMMA HoleIsFilled ==
  ASSUME NEW n \in Nat, NEW g \in [0..(n - 1) -> Nat], NEW s \in 1..n,
         NEW i \in Nat, NEW hole \in i..(s - 1), Above(g, s, i, hole),
         \A x \in 0..(s - 1) : ChildOf(x, hole) => g[x] <= g[hole]
  PROVE  Above(g, s, i, -1)
BY DEF Above

\* The root goes behind the heap, the last element of the heap into the hole.
LEMMA RootIsExtracted ==
  ASSUME NEW n \in Nat, NEW g \in [0..(n - 1) -> Nat], NEW s \in 2..n,
         Above(g, s, 0, -1), Behind(g, s, n)
  PROVE  /\ Above(Exchanged(g, 0, s - 1), s - 1, 0, 0)
         /\ Bridged(Exchanged(g, 0, s - 1), s - 1, 0, 0)
         /\ Behind(Exchanged(g, 0, s - 1), s - 1, n)
<1> DEFINE h == Exchanged(g, 0, s - 1)
<1>1. /\ h[0] = g[s - 1] /\ h[s - 1] = g[0]
      /\ \A x \in 0..(n - 1) : x # 0 /\ x # s - 1 => h[x] = g[x]
  BY DEF Exchanged
<1>2. \A x \in 0..(n - 1) : g[x] \in Nat
  OBVIOUS
<1> HIDE DEF h
<1>3. Above(h, s - 1, 0, 0)
  <2> SUFFICES ASSUME NEW q \in 0..(s - 2), NEW x \in 0..(s - 2), q # 0, ChildOf(x, q)
               PROVE  h[x] <= h[q]
    BY DEF Above
  <2>1. x # 0 /\ x # s - 1 /\ q # s - 1 /\ x \in 0..(s - 1) /\ q \in 0..(s - 1)
        /\ x \in 0..(n - 1) /\ q \in 0..(n - 1) /\ q # -1
    BY DEF ChildOf
  <2>2. g[x] <= g[q]
    BY <2>1 DEF Above
  <2> QED BY <1>1, <2>1, <2>2
<1>4. Bridged(h, s - 1, 0, 0)
  BY DEF Bridged, ChildOf
<1>5. Behind(h, s - 1, n)
  <2> SUFFICES ASSUME NEW x \in 0..(n - 1), NEW y \in 0..(n - 1), s - 1 <= x, y < x
               PROVE  h[y] <= h[x]
    BY DEF Behind
  <2>1. \A z \in 0..(s - 1) : g[z] <= g[0]
    BY RootIsLargest
  <2>2. CASE x = s - 1
    <3>1. y \in 0..(s - 1) /\ y # s - 1 /\ s - 1 \in 0..(s - 1)
      BY <2>2
    <3>2. g[y] <= g[0] /\ g[s - 1] <= g[0]
      BY <2>1, <3>1
    <3> QED BY <1>1, <2>2, <3>1, <3>2
  <2>3. CASE x # s - 1
    <3>1. h[x] = g[x] /\ s <= x /\ 0 < x /\ s - 1 < x
      BY <1>1, <2>3
    <3>2. g[y] <= g[x] /\ g[0] <= g[x] /\ g[s - 1] <= g[x]
      BY <3>1 DEF Behind
    <3> QED BY <1>1, <3>1, <3>2
  <2> QED BY <2>2, <2>3
<1> QED BY <1>3, <1>4, <1>5 DEF h

-----------------------------------------------------------------------------
(* The invariant *)

Offsets(a) == [x \in 0..(Len(a) - 1) |-> a[x + 1].offset]

\* The array with the element on its way put back.
Filled == IF phase = "sift" THEN [merged EXCEPT ![parent + 1] = held] ELSE merged

\* A heap before position size, the sorted rest behind it.
StageInv ==
  /\ size \in 1..Len(merged) /\ first \in 0..size
  /\ first > 0 => size = Len(merged)
  /\ Behind(Offsets(Filled), size, Len(merged))
  /\ phase = "pick" => Above(Offsets(Filled), size, first, -1)
  /\ phase = "sift" =>
       /\ parent \in first..(size - 1) /\ child = 2 * parent + 1
       /\ Above(Offsets(Filled), size, first, parent)
       /\ Bridged(Offsets(Filled), size, first, parent)

HeapInv ==
  phase # "none" =>
    /\ Len(merged) = Len(original) /\ original # <<>>
    /\ Rearranged(Filled, original)
    /\ phase = "sorted" => InOrder(merged)
    /\ phase \in {"pick", "sift"} => StageInv

\* The offsets of an array are numbers, and move with its elements.
LEMMA OffsetsType ==
  ASSUME NEW a \in Seq(ThreadArg)
  PROVE  /\ Len(a) \in Nat /\ Offsets(a) \in [0..(Len(a) - 1) -> Nat]
         /\ \A x \in 0..(Len(a) - 1) : Offsets(a)[x] = a[x + 1].offset
<1>1. ASSUME NEW x \in 0..(Len(a) - 1) PROVE a[x + 1].offset \in Nat
  <2>1. x + 1 \in 1..Len(a)
    OBVIOUS
  <2>2. a[x + 1] \in ThreadArg
    BY <2>1
  <2> QED BY <2>2 DEF ThreadArg
<1> QED BY <1>1 DEF Offsets

LEMMA ExchangedOffsets ==
  ASSUME NEW a \in Seq(ThreadArg), NEW i \in 0..(Len(a) - 1), NEW j \in 0..(Len(a) - 1)
  PROVE  /\ Exchanged(a, i + 1, j + 1) \in Seq(ThreadArg)
         /\ Len(Exchanged(a, i + 1, j + 1)) = Len(a)
         /\ Offsets(Exchanged(a, i + 1, j + 1)) = Exchanged(Offsets(a), i, j)
<1> DEFINE e == Exchanged(a, i + 1, j + 1)
<1>1. i + 1 \in 1..Len(a) /\ j + 1 \in 1..Len(a) /\ Len(a) \in Nat /\ DOMAIN a = 1..Len(a)
  OBVIOUS
<1>2. e = [x \in 1..Len(a) |-> IF x = i + 1 THEN a[j + 1] ELSE IF x = j + 1 THEN a[i + 1] ELSE a[x]]
  BY <1>1 DEF Exchanged
<1>3. e \in Seq(ThreadArg) /\ Len(e) = Len(a)
  BY <1>1, <1>2
<1>4. ASSUME NEW x \in 0..(Len(a) - 1)
      PROVE  e[x + 1].offset = IF x = i THEN a[j + 1].offset
                               ELSE IF x = j THEN a[i + 1].offset ELSE a[x + 1].offset
  <2>1. x + 1 \in 1..Len(a) /\ (x + 1 = i + 1 <=> x = i) /\ (x + 1 = j + 1 <=> x = j)
    OBVIOUS
  <2> QED BY <1>2, <2>1
<1>5. Offsets(e) = [x \in 0..(Len(a) - 1) |-> IF x = i THEN a[j + 1].offset
                               ELSE IF x = j THEN a[i + 1].offset ELSE a[x + 1].offset]
  BY <1>3, <1>4 DEF Offsets
<1> HIDE DEF e
<1>6. Exchanged(Offsets(a), i, j) = [x \in 0..(Len(a) - 1) |-> IF x = i THEN a[j + 1].offset
                               ELSE IF x = j THEN a[i + 1].offset ELSE a[x + 1].offset]
  BY DEF Exchanged, Offsets
<1> QED BY <1>3, <1>5, <1>6 DEF e

\* With only the root before it, the sorted rest is the whole array.
LEMMA OrderedBehindRoot ==
  ASSUME NEW a \in Seq(ThreadArg), Behind(Offsets(a), 1, Len(a))
  PROVE  InOrder(a)
<1> SUFFICES ASSUME NEW x \in DOMAIN a, NEW y \in DOMAIN a, x < y
             PROVE  a[x].offset <= a[y].offset
  BY DEF InOrder
<1>1. x \in 1..Len(a) /\ y \in 1..Len(a)
  OBVIOUS
<1>2. x - 1 \in 0..(Len(a) - 1) /\ y - 1 \in 0..(Len(a) - 1) /\ 1 <= y - 1 /\ x - 1 < y - 1
      /\ (x - 1) + 1 = x /\ (y - 1) + 1 = y
  BY <1>1
<1>3. Offsets(a)[x - 1] <= Offsets(a)[y - 1]
  BY <1>2 DEF Behind
<1> QED BY <1>2, <1>3, OffsetsType

\* Putting an element back keeps an array of arguments one.
LEMMA FilledType ==
  ASSUME HeapTypeOK, phase = "sift" => parent + 1 \in DOMAIN merged
  PROVE  Filled \in Seq(ThreadArg) /\ Len(Filled) = Len(merged)
BY DEF HeapTypeOK, Filled

-----------------------------------------------------------------------------
(* Its steps *)

\* What the invariant says between two sifts ...
LEMMA PickFacts ==
  ASSUME HeapTypeOK, HeapInv, phase = "pick"
  PROVE  /\ merged \in Seq(ThreadArg) /\ Len(merged) \in Nat \ {0} /\ DOMAIN merged = 1..Len(merged)
         /\ Len(merged) = Len(original) /\ DOMAIN original = DOMAIN merged /\ original # <<>>
         /\ Rearranged(merged, original)
         /\ size \in 1..Len(merged) /\ first \in 0..size /\ (first > 0 => size = Len(merged))
         /\ Behind(Offsets(merged), size, Len(merged))
         /\ Above(Offsets(merged), size, first, -1)
BY DEF HeapTypeOK, HeapInv, StageInv, Filled

\* ... and while an element is on its way.
LEMMA SiftFacts ==
  ASSUME HeapTypeOK, HeapInv, phase = "sift"
  PROVE  /\ merged \in Seq(ThreadArg) /\ Len(merged) \in Nat \ {0} /\ DOMAIN merged = 1..Len(merged)
         /\ Len(merged) = Len(original) /\ DOMAIN original = DOMAIN merged /\ original # <<>>
         /\ size \in 1..Len(merged) /\ first \in 0..size /\ (first > 0 => size = Len(merged))
         /\ parent \in first..(size - 1) /\ child = 2 * parent + 1 /\ held \in ThreadArg
         /\ Filled = [merged EXCEPT ![parent + 1] = held]
         /\ Filled \in Seq(ThreadArg) /\ Len(Filled) = Len(merged)
         /\ Rearranged(Filled, original)
         /\ Behind(Offsets(Filled), size, Len(merged))
         /\ Above(Offsets(Filled), size, first, parent)
         /\ Bridged(Offsets(Filled), size, first, parent)
<1>1. merged \in Seq(ThreadArg) /\ original \in Seq(ThreadArg) /\ Len(merged) = Len(original)
      /\ original # <<>> /\ Rearranged(Filled, original) /\ StageInv /\ held \in ThreadArg
  BY DEF HeapTypeOK, HeapInv
<1>2. size \in 1..Len(merged) /\ first \in 0..size /\ parent \in first..(size - 1)
  BY <1>1 DEF StageInv
<1>3. parent + 1 \in 1..Len(merged) /\ Len(merged) \in Nat \ {0} /\ DOMAIN merged = 1..Len(merged)
      /\ DOMAIN original = DOMAIN merged
  BY <1>1, <1>2
<1>4. Filled = [merged EXCEPT ![parent + 1] = held]
  BY DEF Filled
<1>5. Filled \in Seq(ThreadArg) /\ Len(Filled) = Len(merged)
  BY <1>3, FilledType
<1> QED BY <1>1, <1>2, <1>3, <1>4, <1>5 DEF StageInv

\* The positions while an element is on its way.
LEMMA SiftPositions ==
  ASSUME HeapTypeOK, HeapInv, phase = "sift"
  PROVE  /\ Len(merged) \in Nat /\ size \in Nat /\ first \in Nat /\ parent \in Nat
         /\ first <= parent /\ parent < size /\ size <= Len(merged)
         /\ parent + 1 \in 1..Len(merged) /\ parent \in 0..(Len(merged) - 1)
         /\ parent \in 0..(size - 1) /\ \A x \in 0..(size - 1) : x \in 0..(Len(merged) - 1)
<1>1. size \in Nat /\ first \in Nat /\ parent \in Nat
  BY DEF HeapTypeOK
<1>2. Len(merged) \in Nat
  BY DEF HeapTypeOK
<1>3. size \in 1..Len(merged) /\ parent \in first..(size - 1)
  BY SiftFacts
<1> QED BY <1>1, <1>2, <1>3

\* The next parent is on its way down.
LEMMA PickParentStep ==
  ASSUME HeapTypeOK, HeapInv, PickParent PROVE HeapTypeOK' /\ HeapInv'
<1>1. phase = "pick" /\ first > 0 /\ first' = first - 1 /\ held' = merged[first]
      /\ parent' = first - 1 /\ child' = 2 * (first - 1) + 1 /\ phase' = "sift"
      /\ merged' = merged /\ size' = size /\ original' = original
  <2>1. (first - 1) + 1 = first
    BY DEF HeapTypeOK
  <2> QED BY <2>1 DEF PickParent, TakeOut, At
<1>2. /\ merged \in Seq(ThreadArg) /\ Len(merged) \in Nat \ {0} /\ DOMAIN merged = 1..Len(merged)
      /\ Len(merged) = Len(original) /\ original # <<>> /\ Rearranged(merged, original)
      /\ size = Len(merged) /\ first \in 1..size
      /\ Behind(Offsets(merged), size, Len(merged))
      /\ Above(Offsets(merged), size, first, -1)
  BY <1>1, PickFacts
<1>3. merged[first] \in ThreadArg
  BY <1>2
<1>4. HeapTypeOK'
  BY <1>1, <1>2, <1>3 DEF HeapTypeOK
<1>5. Filled' = merged
  <2>1. Filled' = [merged EXCEPT ![(first - 1) + 1] = merged[first]]
    BY <1>1 DEF Filled
  <2>2. (first - 1) + 1 = first
    BY <1>2
  <2> QED BY <1>2, <2>1, <2>2
<1>6. Above(Offsets(merged), size, first - 1, first - 1)
  BY <1>2 DEF Above
<1>7. Bridged(Offsets(merged), size, first - 1, first - 1)
  BY <1>2 DEF Bridged, ChildOf
<1>8. StageInv'
  BY <1>1, <1>2, <1>5, <1>6, <1>7 DEF StageInv
<1> QED BY <1>1, <1>2, <1>4, <1>5, <1>8 DEF HeapInv

\* The root goes behind the heap, the element it displaces is on its way down.
LEMMA ExtractStep ==
  ASSUME HeapTypeOK, HeapInv, Extract PROVE HeapTypeOK' /\ HeapInv'
<1>1. phase = "pick" /\ first = 0 /\ size > 1 /\ size' = size - 1 /\ held' = merged[size]
      /\ parent' = 0 /\ child' = 1 /\ phase' = "sift" /\ first' = 0
      /\ merged' = [merged EXCEPT ![size] = merged[1]] /\ original' = original
  <2>1. (size - 1) + 1 = size
    BY DEF HeapTypeOK
  <2> QED BY <2>1 DEF Extract, TakeOut, At
<1>2. /\ merged \in Seq(ThreadArg) /\ Len(merged) \in Nat \ {0} /\ DOMAIN merged = 1..Len(merged)
      /\ Len(merged) = Len(original) /\ original # <<>> /\ Rearranged(merged, original)
      /\ DOMAIN original = DOMAIN merged
      /\ size \in 2..Len(merged)
      /\ Behind(Offsets(merged), size, Len(merged))
      /\ Above(Offsets(merged), size, 0, -1)
  BY <1>1, PickFacts
<1>3. merged[size] \in ThreadArg /\ merged[1] \in ThreadArg /\ 1 \in DOMAIN merged /\ size \in DOMAIN merged
  BY <1>2
<1>4. merged' \in Seq(ThreadArg) /\ Len(merged') = Len(merged)
  BY <1>1, <1>2, <1>3
<1>5. HeapTypeOK'
  BY <1>1, <1>2, <1>3, <1>4 DEF HeapTypeOK
<1>6. Filled' = Exchanged(merged, 1, size)
  <2>1. Filled' = [merged' EXCEPT ![0 + 1] = merged[size]]
    BY <1>1 DEF Filled
  <2>2. Filled' = [[merged EXCEPT ![size] = merged[1]] EXCEPT ![1] = merged[size]]
    BY <1>1, <2>1
  <2> QED BY <1>2, <1>3, <2>2 DEF Exchanged
<1>7. Offsets(Exchanged(merged, 1, size)) = Exchanged(Offsets(merged), 0, size - 1)
  <2>1. 0 \in 0..(Len(merged) - 1) /\ size - 1 \in 0..(Len(merged) - 1)
        /\ 0 + 1 = 1 /\ (size - 1) + 1 = size
    BY <1>2
  <2>2. Offsets(Exchanged(merged, 0 + 1, (size - 1) + 1)) = Exchanged(Offsets(merged), 0, size - 1)
    BY <1>2, <2>1, ExchangedOffsets
  <2> QED BY <2>1, <2>2
<1>8. /\ Above(Offsets(Filled'), size - 1, 0, 0) /\ Bridged(Offsets(Filled'), size - 1, 0, 0)
      /\ Behind(Offsets(Filled'), size - 1, Len(merged))
  <2> DEFINE n == Len(merged)
             g == Offsets(merged)
  <2>1. n \in Nat /\ g \in [0..(n - 1) -> Nat] /\ size \in 2..n
        /\ Above(g, size, 0, -1) /\ Behind(g, size, n)
    BY <1>2, OffsetsType
  <2>2. Offsets(Filled') = Exchanged(g, 0, size - 1)
    BY <1>6, <1>7
  <2> HIDE DEF n, g
  <2>3. /\ Above(Exchanged(g, 0, size - 1), size - 1, 0, 0)
        /\ Bridged(Exchanged(g, 0, size - 1), size - 1, 0, 0)
        /\ Behind(Exchanged(g, 0, size - 1), size - 1, n)
    BY <2>1, RootIsExtracted
  <2> QED BY <2>2, <2>3 DEF n
<1>9. Rearranged(Filled', original)
  BY <1>2, <1>3, <1>6, ExchangeRearranges
<1>10. StageInv'
  BY <1>1, <1>2, <1>4, <1>8 DEF StageInv
<1> QED BY <1>1, <1>2, <1>4, <1>5, <1>9, <1>10 DEF HeapInv

\* Only the root is left: the array is sorted.
LEMMA SortedStep ==
  ASSUME HeapTypeOK, HeapInv, Sorted PROVE HeapTypeOK' /\ HeapInv'
<1>1. phase = "pick" /\ size = 1 /\ size' = 0 /\ phase' = "sorted" /\ merged' = merged
      /\ first' = first /\ parent' = parent /\ child' = child /\ held' = held
      /\ original' = original
  BY DEF Sorted
<1>2. /\ merged \in Seq(ThreadArg) /\ Len(merged) = Len(original) /\ original # <<>>
      /\ Rearranged(merged, original) /\ Behind(Offsets(merged), 1, Len(merged))
  BY <1>1, PickFacts
<1>3. InOrder(merged)
  BY <1>2, OrderedBehindRoot
<1>4. HeapTypeOK'
  BY <1>1 DEF HeapTypeOK
<1>5. Filled' = merged
  BY <1>1 DEF Filled
<1> QED BY <1>1, <1>2, <1>3, <1>4, <1>5 DEF HeapInv

\* The largest child of a position inside the heap is one of its children.
LEMMA LargestChildFacts ==
  ASSUME HeapTypeOK, HeapInv, phase = "sift", child < size
  PROVE  /\ LargestChild \in 0..(size - 1) /\ ChildOf(LargestChild, parent)
         /\ merged[LargestChild + 1] = Filled[LargestChild + 1]
         /\ \A x \in 0..(size - 1) : ChildOf(x, parent) =>
              Filled[x + 1].offset <= Filled[LargestChild + 1].offset
<1>1. /\ merged \in Seq(ThreadArg) /\ DOMAIN merged = 1..Len(merged) /\ Len(merged) \in Nat \ {0}
      /\ size \in 1..Len(merged) /\ parent \in 0..(size - 1) /\ child = 2 * parent + 1
      /\ Filled = [merged EXCEPT ![parent + 1] = held]
  BY SiftFacts
<1>2. \A x \in 0..(size - 1) : x + 1 \in DOMAIN merged /\ merged[x + 1].offset \in Nat
  <2> TAKE x \in 0..(size - 1)
  <2>1. x + 1 \in 1..Len(merged)
    BY <1>1
  <2>2. merged[x + 1] \in ThreadArg
    BY <1>1, <2>1
  <2> QED BY <1>1, <2>1, <2>2 DEF ThreadArg
<1>3. child \in 0..(size - 1) /\ (child + 1 < size => child + 1 \in 0..(size - 1))
  BY <1>1
<1>4. LargestChild \in 0..(size - 1) /\ LargestChild \in {child, child + 1}
  BY <1>3 DEF LargestChild
<1>5. \A x \in 0..(size - 1) : ChildOf(x, parent) => x \in {child, child + 1} /\ Filled[x + 1] = merged[x + 1]
  BY <1>1, <1>2 DEF ChildOf
<1>6. ChildOf(LargestChild, parent)
  BY <1>1, <1>4 DEF ChildOf
<1>7. \A x \in 0..(size - 1) : x \in {child, child + 1} =>
        merged[x + 1].offset <= merged[LargestChild + 1].offset
  <2> SUFFICES ASSUME NEW x \in 0..(size - 1), x \in {child, child + 1}
               PROVE  merged[x + 1].offset <= merged[LargestChild + 1].offset
    OBVIOUS
  <2>1. merged[x + 1].offset \in Nat /\ merged[LargestChild + 1].offset \in Nat
        /\ merged[child + 1].offset \in Nat
    BY <1>2, <1>3, <1>4
  <2>2. CASE child + 1 < size
    <3>1. merged[(child + 1) + 1].offset \in Nat
      BY <1>2, <1>3, <2>2
    <3> QED BY <2>1, <2>2, <3>1 DEF LargestChild, At
  <2>3. CASE ~(child + 1 < size)
    <3>1. LargestChild = child /\ x = child
      BY <1>1, <2>3 DEF LargestChild
    <3> QED BY <2>1, <3>1
  <2> QED BY <2>2, <2>3
<1> HIDE DEF LargestChild
<1> QED BY <1>4, <1>5, <1>6, <1>7

\* A child moves up, the element on its way down.
LEMMA SiftDownStep ==
  ASSUME HeapTypeOK, HeapInv, SiftDown PROVE HeapTypeOK' /\ HeapInv'
<1> DEFINE c == LargestChild
<1>1. phase = "sift" /\ child < size /\ merged[c + 1].offset > held.offset
      /\ merged' = [merged EXCEPT ![parent + 1] = merged[c + 1]]
      /\ parent' = c /\ child' = 2 * c + 1 /\ phase' = "sift" /\ size' = size
      /\ first' = first /\ held' = held /\ original' = original
  BY DEF SiftDown, At
<1>2. /\ merged \in Seq(ThreadArg) /\ Len(merged) \in Nat \ {0} /\ DOMAIN merged = 1..Len(merged)
      /\ Len(merged) = Len(original) /\ DOMAIN original = DOMAIN merged /\ original # <<>>
      /\ size \in 1..Len(merged) /\ first \in 0..size /\ (first > 0 => size = Len(merged))
      /\ parent \in first..(size - 1) /\ held \in ThreadArg
      /\ Filled = [merged EXCEPT ![parent + 1] = held]
      /\ Filled \in Seq(ThreadArg) /\ Len(Filled) = Len(merged)
      /\ Rearranged(Filled, original)
      /\ Behind(Offsets(Filled), size, Len(merged))
      /\ Above(Offsets(Filled), size, first, parent)
      /\ Bridged(Offsets(Filled), size, first, parent)
  BY <1>1, SiftFacts
<1>3. /\ c \in 0..(size - 1) /\ ChildOf(c, parent) /\ merged[c + 1] = Filled[c + 1]
      /\ \A x \in 0..(size - 1) : ChildOf(x, parent) => Filled[x + 1].offset <= Filled[c + 1].offset
  BY <1>1, LargestChildFacts
<1> HIDE DEF c
<1>4. parent + 1 \in 1..Len(merged) /\ c + 1 \in 1..Len(merged) /\ c # parent /\ c \in first..(size - 1)
      /\ parent \in 0..(Len(merged) - 1) /\ c \in 0..(Len(merged) - 1)
      /\ first \in Nat /\ parent \in first..(size - 1) /\ parent \in 0..(size - 1)
  <2>1. /\ Len(merged) \in Nat /\ size \in Nat /\ first \in Nat /\ parent \in Nat
        /\ first <= parent /\ parent < size /\ size <= Len(merged)
    BY <1>1, SiftPositions
  <2>3. c \in 0..(size - 1)
    BY <1>3
  <2>2. c = 2 * parent + 1 \/ c = 2 * parent + 2
    BY <1>3 DEF ChildOf
  <2> QED BY <2>1, <2>2, <2>3
<1>5. merged[c + 1] \in ThreadArg /\ merged' \in Seq(ThreadArg) /\ Len(merged') = Len(merged)
  BY <1>1, <1>2, <1>4
<1>6. HeapTypeOK'
  BY <1>1, <1>2, <1>4, <1>5 DEF HeapTypeOK
<1>7. Filled' = Exchanged(Filled, parent + 1, c + 1)
  <2>1. Filled' = [[merged EXCEPT ![parent + 1] = merged[c + 1]] EXCEPT ![c + 1] = held]
    BY <1>1 DEF Filled
  <2> QED BY <1>2, <1>4, <2>1 DEF Exchanged
<1>8. Offsets(Filled') = Exchanged(Offsets(Filled), parent, c)
  <2>1. parent \in 0..(Len(Filled) - 1) /\ c \in 0..(Len(Filled) - 1)
    BY <1>2, <1>4
  <2>2. Offsets(Exchanged(Filled, parent + 1, c + 1)) = Exchanged(Offsets(Filled), parent, c)
    BY <1>2, <2>1, ExchangedOffsets
  <2> QED BY <1>7, <2>2
<1>9. Offsets(Filled) \in [0..(Len(merged) - 1) -> Nat]
      /\ \A x \in 0..(Len(merged) - 1) : Offsets(Filled)[x] = Filled[x + 1].offset
  BY <1>2, OffsetsType
<1>10. Offsets(Filled)[parent] <= Offsets(Filled)[c]
  <2>1. Filled[parent + 1] = held /\ held.offset \in Nat /\ merged[c + 1].offset \in Nat
    BY <1>2, <1>4, <1>5 DEF ThreadArg
  <2>2. Offsets(Filled)[parent] = held.offset
    BY <1>4, <1>9, <2>1
  <2>3. Offsets(Filled)[c] = merged[c + 1].offset
    BY <1>3, <1>4, <1>9
  <2> QED BY <1>1, <2>1, <2>2, <2>3
<1>11. \A x \in 0..(size - 1) : ChildOf(x, parent) => Offsets(Filled)[x] <= Offsets(Filled)[c]
  <2> SUFFICES ASSUME NEW x \in 0..(size - 1), ChildOf(x, parent)
               PROVE  Offsets(Filled)[x] <= Offsets(Filled)[c]
    OBVIOUS
  <2>1. x \in 0..(Len(merged) - 1)
    BY <1>1, SiftPositions
  <2>2. Offsets(Filled)[x] = Filled[x + 1].offset /\ Offsets(Filled)[c] = Filled[c + 1].offset
    BY <1>4, <1>9, <2>1
  <2>3. Filled[x + 1].offset <= Filled[c + 1].offset
    BY <1>3
  <2> QED BY <2>2, <2>3
<1>12. /\ Above(Offsets(Filled'), size, first, c) /\ Bridged(Offsets(Filled'), size, first, c)
       /\ Behind(Offsets(Filled'), size, Len(merged))
  <2> DEFINE n == Len(merged)
             g == Offsets(Filled)
  <2>1. n \in Nat /\ g \in [0..(n - 1) -> Nat] /\ size \in 1..n
        /\ first \in Nat /\ parent \in first..(size - 1) /\ c \in 0..(size - 1)
        /\ Above(g, size, first, parent) /\ Bridged(g, size, first, parent) /\ Behind(g, size, n)
    BY <1>2, <1>3, <1>4, <1>9
  <2>2. ChildOf(c, parent) /\ g[parent] <= g[c]
        /\ \A x \in 0..(size - 1) : ChildOf(x, parent) => g[x] <= g[c]
    BY <1>3, <1>10, <1>11
  <2>3. Offsets(Filled') = Exchanged(g, parent, c)
    BY <1>8
  <2> HIDE DEF n, g
  <2>4. /\ Above(Exchanged(g, parent, c), size, first, c)
        /\ Bridged(Exchanged(g, parent, c), size, first, c)
        /\ Behind(Exchanged(g, parent, c), size, n)
    BY <2>1, <2>2, HoleMovesDown
  <2> QED BY <2>3, <2>4 DEF n
<1>13. Rearranged(Filled', original)
  BY <1>2, <1>4, <1>7, ExchangeRearranges
<1>14. StageInv'
  BY <1>1, <1>2, <1>4, <1>5, <1>12 DEF StageInv
<1> QED BY <1>1, <1>2, <1>5, <1>6, <1>13, <1>14 DEF HeapInv

\* The element on its way has found its place.
LEMMA PutBackStep ==
  ASSUME HeapTypeOK, HeapInv, PutBack PROVE HeapTypeOK' /\ HeapInv'
<1>1. phase = "sift" /\ (child < size => merged[LargestChild + 1].offset <= held.offset)
      /\ merged' = [merged EXCEPT ![parent + 1] = held]
      /\ phase' = "pick" /\ size' = size /\ first' = first /\ parent' = parent
      /\ child' = child /\ held' = held /\ original' = original
  BY DEF PutBack, At, heapLocals
<1>2. /\ merged \in Seq(ThreadArg) /\ Len(merged) \in Nat \ {0} /\ DOMAIN merged = 1..Len(merged)
      /\ Len(merged) = Len(original) /\ original # <<>>
      /\ size \in 1..Len(merged) /\ first \in 0..size /\ (first > 0 => size = Len(merged))
      /\ parent \in first..(size - 1) /\ child = 2 * parent + 1 /\ held \in ThreadArg
      /\ Filled = [merged EXCEPT ![parent + 1] = held]
      /\ Filled \in Seq(ThreadArg) /\ Len(Filled) = Len(merged)
      /\ Rearranged(Filled, original)
      /\ Behind(Offsets(Filled), size, Len(merged))
      /\ Above(Offsets(Filled), size, first, parent)
  BY <1>1, SiftFacts
<1>3. Filled' = Filled /\ merged' = Filled
  BY <1>1, <1>2 DEF Filled
<1>4. HeapTypeOK'
  BY <1>1, <1>2, <1>3 DEF HeapTypeOK
<1>5. Offsets(Filled) \in [0..(Len(merged) - 1) -> Nat]
      /\ \A x \in 0..(Len(merged) - 1) : Offsets(Filled)[x] = Filled[x + 1].offset
  BY <1>2, OffsetsType
<1>6. \A x \in 0..(size - 1) : ChildOf(x, parent) => Offsets(Filled)[x] <= Offsets(Filled)[parent]
  <2> SUFFICES ASSUME NEW x \in 0..(size - 1), ChildOf(x, parent)
               PROVE  Offsets(Filled)[x] <= Offsets(Filled)[parent]
    OBVIOUS
  <2>1. child < size
    <3>1. parent \in Nat /\ size \in Nat /\ child = 2 * parent + 1
      BY <1>1, SiftPositions, SiftFacts
    <3>2. x = 2 * parent + 1 \/ x = 2 * parent + 2
      BY DEF ChildOf
    <3> QED BY <3>1, <3>2
  <2>2. /\ LargestChild \in 0..(size - 1) /\ merged[LargestChild + 1] = Filled[LargestChild + 1]
        /\ Filled[x + 1].offset <= Filled[LargestChild + 1].offset
    BY <1>1, <2>1, LargestChildFacts
  <2>3. Filled[LargestChild + 1].offset <= held.offset
    BY <1>1, <2>1, <2>2
  <2>4. x \in 0..(Len(merged) - 1) /\ parent \in 0..(Len(merged) - 1)
        /\ LargestChild \in 0..(Len(merged) - 1)
    <3>1. /\ parent \in 0..(Len(merged) - 1)
          /\ \A q \in 0..(size - 1) : q \in 0..(Len(merged) - 1)
      BY <1>1, SiftPositions
    <3> HIDE DEF LargestChild
    <3> QED BY <2>2, <3>1
  <2> HIDE DEF LargestChild
  <2>5. Offsets(Filled)[x] \in Nat /\ Offsets(Filled)[x] = Filled[x + 1].offset
        /\ Offsets(Filled)[LargestChild] \in Nat
        /\ Offsets(Filled)[LargestChild] = Filled[LargestChild + 1].offset
    BY <1>5, <2>4
  <2>6. Filled[parent + 1] = held /\ held.offset \in Nat
    <3>1. parent + 1 \in 1..Len(merged)
      BY <1>1, SiftPositions
    <3> QED BY <1>2, <3>1 DEF ThreadArg
  <2>7. Offsets(Filled)[parent] = held.offset
    BY <1>5, <2>4, <2>6
  <2> QED BY <2>2, <2>3, <2>5, <2>6, <2>7
<1>7. Above(Offsets(Filled), size, first, -1)
  <2> DEFINE n == Len(merged)
             g == Offsets(Filled)
  <2>1. n \in Nat /\ g \in [0..(n - 1) -> Nat] /\ size \in 1..n
        /\ first \in Nat /\ parent \in first..(size - 1) /\ Above(g, size, first, parent)
    BY <1>1, <1>2, <1>5, SiftPositions
  <2>2. \A x \in 0..(size - 1) : ChildOf(x, parent) => g[x] <= g[parent]
    BY <1>6
  <2> HIDE DEF n, g
  <2>3. Above(g, size, first, -1)
    BY <2>1, <2>2, HoleIsFilled
  <2> QED BY <2>3 DEF g
<1>8. StageInv'
  BY <1>1, <1>2, <1>3, <1>7 DEF StageInv
<1> QED BY <1>1, <1>2, <1>3, <1>4, <1>8 DEF HeapInv

\* The array as given has no heap in its lower half, and needs none in its upper.
LEMMA SortStarts ==
  ASSUME HeapTypeOK, NEW args \in Seq(ThreadArg), args # <<>>, StartSort(args)
  PROVE  HeapTypeOK' /\ HeapInv'
<1>1. merged' = args /\ original' = args /\ size' = Len(args) /\ first' = Len(args) \div 2
      /\ phase' = (IF Len(args) = 1 THEN "sorted" ELSE "pick")
      /\ parent' = parent /\ child' = child /\ held' = held
  BY DEF StartSort
<1>2. Len(args) \in Nat \ {0}
  OBVIOUS
<1>3. Len(args) \div 2 \in 0..Len(args) /\ \A q \in Nat : Len(args) \div 2 <= q => 2 * q + 1 >= Len(args)
  BY <1>2, HalfHasNoChildren
<1>4. HeapTypeOK'
  BY <1>1, <1>2, <1>3 DEF HeapTypeOK
<1>5. Rearranged(args, args)
  BY RearrangedSelf
<1>6. Filled' = args
  BY <1>1 DEF Filled
<1>7. Behind(Offsets(args), Len(args), Len(args)) /\ (Len(args) = 1 => Behind(Offsets(args), 1, Len(args)))
  BY <1>2 DEF Behind
<1>8. Len(args) = 1 => InOrder(args)
  BY <1>7, OrderedBehindRoot
<1>9. Above(Offsets(args), Len(args), Len(args) \div 2, -1)
  BY <1>2, <1>3 DEF Above, ChildOf
<1>10. phase' = "pick" => StageInv'
  BY <1>1, <1>2, <1>3, <1>6, <1>7, <1>9 DEF StageInv
<1> QED BY <1>1, <1>4, <1>5, <1>6, <1>8, <1>10 DEF HeapInv

\* Every step of heap_sort keeps the types and the invariant ...
LEMMA SortSteps ==
  ASSUME HeapTypeOK, HeapInv, SortStep PROVE HeapTypeOK' /\ HeapInv'
BY PickParentStep, ExtractStep, SortedStep, SiftDownStep, PutBackStep DEF SortStep

\* ... and with them the array is sorted at its end.
LEMMA SortedAtEnd ==
  ASSUME HeapTypeOK, HeapInv PROVE SortedPermutation
<1> SUFFICES ASSUME phase = "sorted" PROVE InOrder(merged) /\ IsPermutation(merged, original)
  BY DEF SortedPermutation
<1>1. Filled = merged /\ original \in Seq(ThreadArg)
  BY DEF Filled, HeapTypeOK
<1>2. InOrder(merged) /\ Rearranged(merged, original)
  BY <1>1 DEF HeapInv
<1> QED BY <1>1, <1>2, RearrangedCounts

=============================================================================
