------------------------- MODULE Contiguity_proofs --------------------------
(***************************************************************************)
(* Proofs about Contiguity for any number of threads, any requests and any *)
(* lists: heap_sort sorts what it is given while the threads work, the     *)
(* quit flag comes with the last run, and the threads' shares are counted  *)
(* and balanced whatever the runs are.  For calls whose runs have the      *)
(* lengths the analyzer takes them to have (EvenRuns, HintsHold): implicit *)
(* offsets follow the data, no two runs could have been one, and a call    *)
(* moves nothing but what is asked for, each byte to its place, and all of *)
(* it but the buffers that a LIST call strands.                            *)
(***************************************************************************)
EXTENDS Contiguity, WorkManager_proofs, HeapSort_proofs, SequenceTheorems

-----------------------------------------------------------------------------
(* Loops that accumulate *)

\* What holds at 0, and at n if it holds at n - 1, holds up to any N.
LEMMA Upwards ==
  ASSUME NEW N \in Nat, NEW S, NEW f, f[0] \in S,
         \A n \in 1..N : f[n - 1] \in S => f[n] \in S
  PROVE  \A n \in 0..N : f[n] \in S
<1> DEFINE T == {n \in 0..N : f[n] \notin S}
<1> SUFFICES ASSUME T # {} PROVE FALSE
  OBVIOUS
<1>1. T \in SUBSET Nat
  OBVIOUS
<1>2. PICK n \in T : \A m \in T : n <= m
  <2> HIDE DEF T
  <2> QED BY <1>1, Least
<1>3. n \in 1..N /\ n - 1 \in 0..N /\ n - 1 < n
  OBVIOUS
<1>4. n - 1 \notin T
  BY <1>2, <1>3
<1>5. f[n - 1] \in S
  BY <1>3, <1>4
<1> QED BY <1>3, <1>5

\* f[n] is what a loop over 1..N has in S after n rounds, if it starts with a and
\* its round n does s[n].
Accumulates(f, N, S, a, s) ==
  f \in [0..N -> S] /\ f[0] = a /\ \A n \in 1..N : f[n] = s[n][f[n - 1]]

\* Every such loop has these results.
LEMMA Accumulated ==
  ASSUME NEW N \in Nat, NEW S, NEW a \in S, NEW s \in [1..N -> [S -> S]]
  PROVE  \E f : Accumulates(f, N, S, a, s)
<1> DEFINE Upto(m) == \E f : Accumulates(f, m, S, a, s)
           T == {m \in 0..N : ~Upto(m)}
<1>0. T = {} => Upto(N)
  <2> HIDE DEF Upto
  <2> QED OBVIOUS
<1> SUFFICES ASSUME T # {} PROVE FALSE
  BY <1>0
<1>1. T \in SUBSET Nat
  OBVIOUS
<1>2. PICK m \in T : \A k \in T : m <= k
  <2> HIDE DEF T
  <2> QED BY <1>1, Least
<1>3. Upto(0)
  <2> DEFINE z == [n \in 0..0 |-> a]
  <2>1. z \in [0..0 -> S] /\ z[0] = a
    OBVIOUS
  <2>2. \A n \in 1..0 : z[n] = s[n][z[n - 1]]
    OBVIOUS
  <2> HIDE DEF z
  <2>3. Accumulates(z, 0, S, a, s)
    BY <2>1, <2>2 DEF Accumulates
  <2> QED BY <2>3
<1>4. m \in 1..N /\ m - 1 \in 0..N /\ m - 1 < m
  <2>1. m # 0
    BY <1>3
  <2> QED BY <2>1
<1>5. Upto(m - 1)
  BY <1>2, <1>4
<1>f. PICK f : Accumulates(f, m - 1, S, a, s)
  BY <1>5
<1>6. f \in [0..(m - 1) -> S] /\ f[0] = a /\ \A n \in 1..(m - 1) : f[n] = s[n][f[n - 1]]
  BY <1>f DEF Accumulates
<1> DEFINE g == [n \in 0..m |-> IF n = m THEN s[m][f[m - 1]] ELSE f[n]]
<1>7. f[m - 1] \in S
  BY <1>4, <1>6
<1>8. s[m][f[m - 1]] \in S
  BY <1>4, <1>7
<1>9. g \in [0..m -> S]
  <2> SUFFICES ASSUME NEW n \in 0..m PROVE (IF n = m THEN s[m][f[m - 1]] ELSE f[n]) \in S
    OBVIOUS
  <2>1. n # m => n \in 0..(m - 1)
    BY <1>4
  <2> QED BY <1>6, <1>8, <2>1
<1>10. g[0] = a
  BY <1>4, <1>6
<1>11. \A n \in 1..m : g[n] = s[n][g[n - 1]]
  <2> SUFFICES ASSUME NEW n \in 1..m PROVE g[n] = s[n][g[n - 1]]
    OBVIOUS
  <2>1. n \in 0..m /\ n - 1 \in 0..m /\ n - 1 # m
    BY <1>4
  <2>2. g[n - 1] = f[n - 1]
    BY <2>1
  <2>3. CASE n = m
    BY <2>1, <2>2, <2>3
  <2>4. CASE n # m
    <3>1. n \in 1..(m - 1) /\ g[n] = f[n]
      BY <1>4, <2>1, <2>4
    <3> QED BY <1>6, <2>2, <3>1
  <2> QED BY <2>3, <2>4
<1> HIDE DEF g
<1>12. Upto(m)
  <2>1. Accumulates(g, m, S, a, s)
    BY <1>9, <1>10, <1>11 DEF Accumulates
  <2> QED BY <2>1
<1> QED BY <1>12

\* merge_args_lists makes a list of arguments of the lists it is given, and not an
\* empty one.
LEMMA MergeArgsListsType ==
  ASSUME NumThreads \in Nat \ {0}, NEW lists \in [Threads -> Seq(ThreadArg) \ {<<>>}]
  PROVE  MergeArgsLists(lists) \in Seq(ThreadArg) \ {<<>>}
<1> DEFINE S == Seq(ThreadArg)
           N == NumThreads
           s == [n \in 1..N |-> [q \in S |-> q \o lists[n - 1]]]
           IsJoined(f) == f = [n \in 0..N |-> IF n = 0 THEN <<>> ELSE f[n - 1] \o lists[n - 1]]
           joined == CHOOSE f : IsJoined(f)
<1>1. \A n \in 1..N : lists[n - 1] \in S /\ lists[n - 1] # <<>>
  BY DEF Threads
<1>2. s \in [1..N -> [S -> S]]
  BY <1>1
<1>3. \E f : IsJoined(f)
  <2>1. PICK f : Accumulates(f, N, S, <<>>, s)
    <3>1. <<>> \in S
      OBVIOUS
    <3> HIDE DEF s, S
    <3> QED BY <1>2, <3>1, Accumulated
  <2>3. f \in [0..N -> S] /\ f[0] = <<>> /\ \A n \in 1..N : f[n] = s[n][f[n - 1]]
    BY <2>1, Zenon DEF Accumulates
  <2>2. ASSUME NEW n \in 0..N PROVE f[n] = IF n = 0 THEN <<>> ELSE f[n - 1] \o lists[n - 1]
    <3>1. CASE n # 0
      <4>1. n \in 1..N /\ n - 1 \in 0..N
        BY <3>1
      <4>2. f[n - 1] \in S
        BY <2>3, <4>1
      <4> QED BY <2>3, <3>1, <4>1, <4>2
    <3> QED BY <2>3, <3>1
  <2> HIDE DEF S, s
  <2>4. IsJoined(f)
    BY <2>2, <2>3
  <2> HIDE DEF IsJoined
  <2> QED BY <2>4
<1>4. IsJoined(joined)
  <2> HIDE DEF IsJoined
  <2> QED BY <1>3
<1> HIDE DEF joined
<1>5. joined[0] \in S
  <2>1. joined[0] = <<>>
    BY <1>4
  <2> QED BY <2>1
<1>6. \A n \in 1..N : joined[n - 1] \in S => joined[n] \in S
  <2> SUFFICES ASSUME NEW n \in 1..N, joined[n - 1] \in S PROVE joined[n] \in S
    OBVIOUS
  <2>1. joined[n] = joined[n - 1] \o lists[n - 1]
    <3>1. n \in 0..N /\ n # 0
      OBVIOUS
    <3> QED BY <1>4, <3>1
  <2> QED BY <1>1, <2>1
<1>7. joined[N] \in S
  <2>1. N \in Nat /\ N \in 0..N
    OBVIOUS
  <2> HIDE DEF S, N
  <2> QED BY <1>5, <1>6, <2>1, Upwards
<1>8. MergeArgsLists(lists) = joined[N]
  BY DEF MergeArgsLists, joined
<1>9. joined[N] # <<>>
  <2>1. N \in 1..N /\ N - 1 \in 0..N /\ N # 0 /\ N \in 0..N
    OBVIOUS
  <2>2. joined[N - 1] \in S
    <3>1. \A n \in 0..N : joined[n] \in S
      <4>1. N \in Nat
        OBVIOUS
      <4> HIDE DEF S, N
      <4> QED BY <1>5, <1>6, <4>1, Upwards
    <3> QED BY <2>1, <3>1
  <2>3. joined[N] = joined[N - 1] \o lists[N - 1]
    BY <1>4, <2>1
  <2> QED BY <1>1, <2>1, <2>2, <2>3
<1> QED BY <1>7, <1>8, <1>9

\* The loop that adds up lengths, round by round ...
LEMMA TotalRounds ==
  ASSUME NEW from \in Nat, NEW lengths \in Seq(Nat)
  PROVE  \E sum \in [0..Len(lengths) -> Nat] :
           /\ sum[0] = from
           /\ \A n \in 1..Len(lengths) : sum[n] = sum[n - 1] + lengths[n]
           /\ Total(from, lengths) = sum[Len(lengths)]
<1> DEFINE N == Len(lengths)
           s == [n \in 1..N |-> [q \in Nat |-> q + lengths[n]]]
           IsSum(f) == f = [n \in 0..N |-> IF n = 0 THEN from ELSE f[n - 1] + lengths[n]]
           sum == CHOOSE f : IsSum(f)
<1>1. N \in Nat /\ \A n \in 1..N : lengths[n] \in Nat
  OBVIOUS
<1>2. s \in [1..N -> [Nat -> Nat]]
  BY <1>1
<1>3. \E f : IsSum(f)
  <2>1. PICK f : Accumulates(f, N, Nat, from, s)
    <3> HIDE DEF s, N
    <3> QED BY <1>1, <1>2, Accumulated
  <2>2. f \in [0..N -> Nat] /\ f[0] = from /\ \A n \in 1..N : f[n] = s[n][f[n - 1]]
    BY <2>1, Zenon DEF Accumulates
  <2>3. ASSUME NEW n \in 0..N PROVE f[n] = IF n = 0 THEN from ELSE f[n - 1] + lengths[n]
    <3>1. CASE n # 0
      <4>1. n \in 1..N /\ n - 1 \in 0..N
        BY <3>1
      <4>2. f[n - 1] \in Nat
        BY <2>2, <4>1
      <4> QED BY <2>2, <3>1, <4>1, <4>2
    <3> QED BY <2>2, <3>1
  <2> QED BY <2>2, <2>3
<1>4. IsSum(sum)
  <2> HIDE DEF IsSum
  <2> QED BY <1>3
<1> HIDE DEF sum
<1>5. sum[0] = from /\ \A n \in 1..N : sum[n] = sum[n - 1] + lengths[n]
  <2>1. sum[0] = from
    BY <1>1, <1>4
  <2>2. ASSUME NEW n \in 1..N PROVE sum[n] = sum[n - 1] + lengths[n]
    <3>1. n \in 0..N /\ n # 0
      BY <1>1
    <3> QED BY <1>4, <3>1
  <2> QED BY <2>1, <2>2
<1>6. \A n \in 0..N : sum[n] \in Nat
  <2>1. \A n \in 1..N : sum[n - 1] \in Nat => sum[n] \in Nat
    BY <1>1, <1>5
  <2>2. sum[0] \in Nat
    BY <1>5
  <2> HIDE DEF N
  <2> QED BY <1>1, <2>1, <2>2, Upwards
<1>7. sum \in [0..N -> Nat]
  BY <1>4, <1>6
<1>8. Total(from, lengths) = sum[N]
  BY DEF Total, sum
<1> QED BY <1>5, <1>7, <1>8

\* ... its result is a length ...
LEMMA TotalType ==
  ASSUME NEW from \in Nat, NEW lengths \in Seq(Nat)
  PROVE  Total(from, lengths) \in Nat
<1>1. Len(lengths) \in 0..Len(lengths)
  OBVIOUS
<1> QED BY <1>1, TotalRounds

\* ... which is the first length alone if there is no other, and otherwise what
\* the loop over all but the last one has, plus that one.
LEMMA TotalNext ==
  ASSUME NEW from \in Nat, NEW lengths \in Seq(Nat)
  PROVE  /\ Len(lengths) = 0 => Total(from, lengths) = from
         /\ \A front \in Seq(Nat) :
              /\ Len(lengths) = Len(front) + 1
              /\ \A n \in 1..Len(front) : front[n] = lengths[n]
              => Total(from, lengths) = Total(from, front) + lengths[Len(lengths)]
<1>1. PICK sum \in [0..Len(lengths) -> Nat] :
        /\ sum[0] = from
        /\ \A n \in 1..Len(lengths) : sum[n] = sum[n - 1] + lengths[n]
        /\ Total(from, lengths) = sum[Len(lengths)]
  BY TotalRounds
<1>2. ASSUME NEW front \in Seq(Nat), Len(lengths) = Len(front) + 1,
             \A n \in 1..Len(front) : front[n] = lengths[n]
      PROVE  Total(from, lengths) = Total(from, front) + lengths[Len(lengths)]
  <2> DEFINE N == Len(front)
  <2>0. N \in Nat
    OBVIOUS
  <2>1. PICK part \in [0..N -> Nat] :
          /\ part[0] = from
          /\ \A n \in 1..N : part[n] = part[n - 1] + front[n]
          /\ Total(from, front) = part[N]
    BY TotalRounds
  <2> DEFINE gap == [n \in 0..N |-> part[n] - sum[n]]
  <2> HIDE DEF N
  <2>2. gap[0] \in {0}
    <3>1. gap[0] = part[0] - sum[0]
      BY <2>0
    <3> QED BY <1>1, <2>1, <3>1
  <2>3. \A n \in 1..N : gap[n - 1] \in {0} => gap[n] \in {0}
    <3> SUFFICES ASSUME NEW n \in 1..N, gap[n - 1] \in {0} PROVE gap[n] \in {0}
      OBVIOUS
    <3>1. n \in 0..N /\ n - 1 \in 0..N /\ n \in 1..Len(lengths) /\ n - 1 \in 0..Len(lengths)
          /\ n \in 0..Len(lengths)
      BY <1>2, <2>0 DEF N
    <3>2. sum[n] = sum[n - 1] + lengths[n] /\ part[n] = part[n - 1] + front[n]
          /\ front[n] = lengths[n] /\ part[n - 1] - sum[n - 1] = 0
      BY <1>1, <1>2, <2>1, <3>1 DEF N
    <3>3. sum[n - 1] \in Nat /\ part[n - 1] \in Nat /\ lengths[n] \in Nat
      BY <3>1
    <3>4. part[n] - sum[n] = 0
      BY <3>2, <3>3
    <3> QED BY <3>1, <3>4
  <2>4. gap[N] = 0
    <3> DEFINE Z == {0}
    <3>1. gap[0] \in Z /\ \A n \in 1..N : gap[n - 1] \in Z => gap[n] \in Z
      BY <2>2, <2>3
    <3> HIDE DEF gap, Z
    <3>2. \A n \in 0..N : gap[n] \in Z
      BY <2>0, <3>1, Upwards
    <3>3. N \in 0..N
      BY <2>0
    <3>4. gap[N] \in Z
      BY <3>2, <3>3
    <3> QED BY <3>4 DEF Z
  <2>5. N \in 0..N /\ N \in 0..Len(lengths) /\ Len(lengths) \in 1..Len(lengths)
        /\ Len(lengths) - 1 = N
    BY <1>2, <2>0 DEF N
  <2>6. part[N] - sum[N] = 0 /\ part[N] \in Nat /\ sum[N] \in Nat
    BY <2>4, <2>5
  <2>7. sum[Len(lengths)] = sum[N] + lengths[Len(lengths)]
    BY <1>1, <2>5
  <2>8. part[N] = sum[N]
    BY <2>6
  <2> QED BY <1>1, <2>1, <2>7, <2>8
<1>3. Len(lengths) = 0 => Total(from, lengths) = from
  BY <1>1
<1> QED BY <1>2, <1>3

\* total_buflen is a length ...
LEMMA SumOfLengthsType ==
  ASSUME NEW seq \in Seq(ThreadArg) PROVE SumOfLengths(seq) \in Nat
<1>1. [n \in DOMAIN seq |-> seq[n].buflen] \in Seq(Nat)
  <2>1. DOMAIN seq = 1..Len(seq) /\ Len(seq) \in Nat
    OBVIOUS
  <2>2. ASSUME NEW n \in 1..Len(seq) PROVE seq[n].buflen \in Nat
    <3>1. seq[n] \in ThreadArg
      BY ElementOf
    <3> QED BY <3>1 DEF ThreadArg
  <2> QED BY <2>1, <2>2
<1> QED BY <1>1, TotalType DEF SumOfLengths

\* ... and a block ends at a position in the file.
LEMMA AfterType ==
  ASSUME NEW block \in BlockType, NEW n \in 0..Len(block.iov) PROVE After(block, n) \in Nat
<1>1. block.offset \in Nat /\ block.iov \in Seq(IovecType)
  BY DEF BlockType
<1>2. \A k \in 1..n : block.iov[k].iov_len \in Nat
  <2> SUFFICES ASSUME NEW k \in 1..n PROVE block.iov[k].iov_len \in Nat
    OBVIOUS
  <2>1. k \in 1..Len(block.iov)
    BY <1>1
  <2>2. block.iov[k] \in IovecType
    BY <1>1, <2>1, ElementOf
  <2> QED BY <2>2 DEF IovecType
<1>3. [k \in 1..n |-> block.iov[k].iov_len] \in Seq(Nat)
  BY <1>1, <1>2
<1> QED BY <1>1, <1>3, TotalType DEF After

\* The length of the first n buffers of a.
Extent(a, n) == SumOfLengths(SubSeq(a, 1, n))

\* It grows with every buffer by its length, up to total_buflen.
LEMMA ExtentSteps ==
  ASSUME NEW a \in Seq(ThreadArg)
  PROVE  /\ Len(a) \in Nat /\ \A n \in 1..Len(a) : a[n] \in ThreadArg
         /\ \A n \in 1..Len(a) : a[n].bufptr \in Nat /\ a[n].buflen \in Nat /\ a[n].offset \in Nat
         /\ \A n \in 0..Len(a) : Extent(a, n) \in Nat
         /\ Extent(a, 0) = 0
         /\ \A n \in 1..Len(a) : Extent(a, n) = Extent(a, n - 1) + a[n].buflen
         /\ Extent(a, Len(a)) = SumOfLengths(a)
<1>1. Len(a) \in Nat /\ \A n \in 1..Len(a) : a[n] \in ThreadArg
  BY ElementOf
<1>2. \A n \in 1..Len(a) : a[n].bufptr \in Nat /\ a[n].buflen \in Nat /\ a[n].offset \in Nat
  BY <1>1 DEF ThreadArg
<1> DEFINE lengths(q) == [n \in DOMAIN q |-> q[n].buflen]
<1>3. ASSUME NEW n \in 0..Len(a)
      PROVE  /\ SubSeq(a, 1, n) \in Seq(ThreadArg)
             /\ lengths(SubSeq(a, 1, n)) \in Seq(Nat) /\ Len(lengths(SubSeq(a, 1, n))) = n
             /\ \A k \in 1..n : lengths(SubSeq(a, 1, n))[k] = a[k].buflen
  <2> DEFINE q == SubSeq(a, 1, n)
  <2>1. q \in Seq(ThreadArg) /\ Len(q) = n /\ \A k \in 1..n : q[k] = a[k]
    <3>1. \A k \in 1..n : a[k] \in ThreadArg
      BY <1>1
    <3>2. /\ q \in Seq(ThreadArg) /\ Len(q) = (IF 1 <= n THEN n - 1 + 1 ELSE 0)
          /\ \A k \in 1..(n - 1 + 1) : q[k] = a[1 + k - 1]
      BY <3>1, SubSeqProperties
    <3>3. n \in Nat /\ n - 1 + 1 = n /\ \A k \in 1..n : 1 + k - 1 = k
      OBVIOUS
    <3> HIDE DEF q
    <3>4. \A k \in 1..n : q[k] = a[k]
      BY <3>2, <3>3
    <3> QED BY <3>2, <3>3, <3>4
  <2> HIDE DEF q
  <2>2. DOMAIN q = 1..n
    BY <2>1
  <2>3. \A k \in 1..n : lengths(q)[k] = a[k].buflen /\ lengths(q)[k] \in Nat
    BY <1>2, <2>1, <2>2
  <2>4. lengths(q) \in [1..n -> Nat]
    BY <1>2, <2>1, <2>2
  <2>5. lengths(q) \in Seq(Nat) /\ Len(lengths(q)) = n
    <3> HIDE DEF lengths
    <3> QED BY <2>4
  <2> QED BY <2>1, <2>3, <2>5 DEF q
<1>4. \A n \in 0..Len(a) : Extent(a, n) = Total(0, lengths(SubSeq(a, 1, n)))
  BY DEF Extent, SumOfLengths
<1> HIDE DEF lengths
<1>5. \A n \in 0..Len(a) : Extent(a, n) \in Nat
  BY <1>3, <1>4, TotalType
<1>6. Extent(a, 0) = 0
  <2>1. 0 \in 0..Len(a)
    BY <1>1
  <2> QED BY <1>3, <1>4, <2>1, TotalNext
<1>7. ASSUME NEW n \in 1..Len(a) PROVE Extent(a, n) = Extent(a, n - 1) + a[n].buflen
  <2>1. n \in 0..Len(a) /\ n - 1 \in 0..Len(a) /\ n = (n - 1) + 1 /\ n \in 1..n
        /\ \A k \in 1..(n - 1) : k \in 1..n
    BY <1>1
  <2> DEFINE all == lengths(SubSeq(a, 1, n))
             front == lengths(SubSeq(a, 1, n - 1))
  <2>2. all \in Seq(Nat) /\ Len(all) = n /\ \A k \in 1..n : all[k] = a[k].buflen
    BY <1>3, <2>1
  <2>3. front \in Seq(Nat) /\ Len(front) = n - 1 /\ \A k \in 1..(n - 1) : front[k] = a[k].buflen
    BY <1>3, <2>1
  <2>4. Extent(a, n) = Total(0, all) /\ Extent(a, n - 1) = Total(0, front)
    BY <1>4, <2>1
  <2> HIDE DEF all, front
  <2>5. Len(all) = Len(front) + 1 /\ \A k \in 1..Len(front) : front[k] = all[k]
    BY <2>1, <2>2, <2>3
  <2>6. Total(0, all) = Total(0, front) + all[Len(all)]
    BY <2>2, <2>3, <2>5, TotalNext
  <2> QED BY <2>1, <2>2, <2>4, <2>6
<1>8. Extent(a, Len(a)) = SumOfLengths(a)
  BY SubSeqFull DEF Extent
<1> QED BY <1>1, <1>2, <1>5, <1>6, <1>7, <1>8

-----------------------------------------------------------------------------
(* Buffers that follow each other *)

\* The same from any index on: what is in T with its predecessor, is in T.
LEMMA Onwards ==
  ASSUME NEW from \in Nat, NEW to \in Nat, NEW T, from \in T,
         \A n \in (from + 1)..to : n - 1 \in T => n \in T
  PROVE  \A n \in from..to : n \in T
<1> SUFFICES ASSUME from <= to PROVE \A n \in from..to : n \in T
  OBVIOUS
<1> DEFINE N == to - from
           f == [k \in 0..N |-> from + k]
<1>1. N \in Nat
  OBVIOUS
<1>2. f[0] \in T
  BY <1>1
<1>3. ASSUME NEW k \in 1..N, f[k - 1] \in T PROVE f[k] \in T
  <2>1. k \in 0..N /\ k - 1 \in 0..N /\ from + k \in (from + 1)..to
        /\ from + (k - 1) = from + k - 1
    BY <1>1
  <2>2. from + k - 1 \in T
    BY <1>3, <2>1
  <2> QED BY <2>1, <2>2
<1>4. \A k \in 0..N : f[k] \in T
  <2> HIDE DEF N, f
  <2> QED BY <1>1, <1>2, <1>3, Upwards
<1> SUFFICES ASSUME NEW n \in from..to PROVE n \in T
  OBVIOUS
<1>5. n - from \in 0..N /\ from + (n - from) = n
  OBVIOUS
<1>6. f[n - from] = from + (n - from)
  BY <1>5
<1> QED BY <1>4, <1>5, <1>6

\* Longer prefixes have no smaller extents.
LEMMA ExtentGrows ==
  ASSUME NEW a \in Seq(ThreadArg), NEW from \in 0..Len(a), NEW to \in from..Len(a)
  PROVE  Extent(a, from) <= Extent(a, to)
<1> DEFINE T == {n \in from..to : Extent(a, from) <= Extent(a, n)}
<1>1. Len(a) \in Nat /\ \A n \in 0..Len(a) : Extent(a, n) \in Nat
  BY ExtentSteps
<1>2. from \in Nat /\ to \in Nat /\ from \in 0..Len(a) /\ to \in from..to
  BY <1>1
<1>3. from \in T
  BY <1>1, <1>2
<1>4. ASSUME NEW n \in (from + 1)..to, n - 1 \in T PROVE n \in T
  <2>1. n \in 1..Len(a) /\ n - 1 \in 0..Len(a) /\ n \in 0..Len(a) /\ n \in from..to
    BY <1>1, <1>2
  <2>2. Extent(a, n) = Extent(a, n - 1) + a[n].buflen /\ a[n].buflen \in Nat
    BY <2>1, ExtentSteps
  <2>3. Extent(a, from) <= Extent(a, n - 1)
    BY <1>4
  <2>4. Extent(a, from) \in Nat /\ Extent(a, n - 1) \in Nat
    BY <1>1, <1>2, <2>1
  <2>5. Extent(a, from) <= Extent(a, n)
    <3> DEFINE p == Extent(a, from)
               q == Extent(a, n - 1)
               r == Extent(a, n)
               l == a[n].buflen
    <3>1. r = q + l /\ l \in Nat /\ p \in Nat /\ q \in Nat /\ p <= q
      BY <2>2, <2>3, <2>4
    <3> HIDE DEF p, q, r, l
    <3>2. p <= r
      BY <3>1
    <3> QED BY <3>2 DEF p, r
  <2> QED BY <2>1, <2>5
<1> HIDE DEF T
<1>5. to \in T
  BY <1>2, <1>3, <1>4, Onwards
<1> QED BY <1>5 DEF T

\* Buffers that follow each other, in memory or in the file, lie as far apart as
\* their extents say: g[n] is where buffer n begins.
LEMMA ChainExtents ==
  ASSUME NEW a \in Seq(ThreadArg), NEW g \in [1..Len(a) -> Nat],
         NEW from \in 1..Len(a), NEW to \in from..Len(a),
         \A n \in from..(to - 1) : g[n] + a[n].buflen = g[n + 1]
  PROVE  \A n \in from..to : g[n] = g[from] + Extent(a, n - 1) - Extent(a, from - 1)
<1> DEFINE T == {n \in from..to : g[n] = g[from] + Extent(a, n - 1) - Extent(a, from - 1)}
<1>1. Len(a) \in Nat /\ \A n \in 0..Len(a) : Extent(a, n) \in Nat
  BY ExtentSteps
<1>2. from \in Nat /\ to \in Nat /\ from \in from..to /\ from - 1 \in 0..Len(a)
  BY <1>1
<1>3. from \in T
  BY <1>1, <1>2
<1>4. ASSUME NEW n \in (from + 1)..to, n - 1 \in T PROVE n \in T
  <2>1. n \in 1..Len(a) /\ n - 1 \in 1..Len(a) /\ n - 1 \in from..(to - 1) /\ n \in from..to
        /\ n - 1 - 1 \in 0..Len(a) /\ n - 1 + 1 = n /\ n - 1 \in 0..Len(a)
    BY <1>1, <1>2
  <2>2. Extent(a, n - 1) = Extent(a, n - 1 - 1) + a[n - 1].buflen /\ a[n - 1].buflen \in Nat
    BY <2>1, ExtentSteps
  <2>3. g[n - 1] + a[n - 1].buflen = g[n]
    BY <2>1
  <2>4. g[n - 1] = g[from] + Extent(a, n - 1 - 1) - Extent(a, from - 1)
    BY <1>4
  <2>5. Extent(a, n - 1 - 1) \in Nat /\ Extent(a, from - 1) \in Nat /\ Extent(a, n - 1) \in Nat
        /\ g[from] \in Nat /\ g[n] \in Nat /\ g[n - 1] \in Nat
    BY <1>1, <1>2, <2>1
  <2> DEFINE u == Extent(a, n - 1 - 1)
             v == Extent(a, n - 1)
             w == Extent(a, from - 1)
             l == a[n - 1].buflen
             b == g[n - 1]
             c == g[from]
  <2>6. /\ v = u + l /\ b + l = g[n] /\ b = c + u - w /\ l \in Nat
        /\ u \in Nat /\ v \in Nat /\ w \in Nat /\ b \in Nat /\ c \in Nat
    BY <2>2, <2>3, <2>4, <2>5
  <2> HIDE DEF u, v, w, l, b, c
  <2>7. g[n] = c + v - w
    BY <2>6
  <2> QED BY <2>1, <2>7 DEF c, v, w
<1> HIDE DEF T
<1>5. \A n \in from..to : n \in T
  BY <1>2, <1>3, <1>4, Onwards
<1> QED BY <1>5 DEF T

\* The length the contiguity analyzer computes for a run is that of its buffers if
\* all but the last one have one length.
LEMMA EvenExtent ==
  ASSUME NEW a \in Seq(ThreadArg), NEW from \in 1..Len(a), NEW to \in from..Len(a),
         \A n \in (from + 1)..(to - 1) : a[n].buflen = a[n - 1].buflen
  PROVE  (to - from) * a[from].buflen + a[to].buflen = Extent(a, to) - Extent(a, from - 1)
<1> DEFINE L == a[from].buflen
           T == {n \in (from - 1)..(to - 1) :
                   /\ Extent(a, n) - Extent(a, from - 1) = (n - (from - 1)) * L
                   /\ n >= from => a[n].buflen = L}
<1>1. Len(a) \in Nat /\ \A n \in 0..Len(a) : Extent(a, n) \in Nat
  BY ExtentSteps
<1>2. /\ from - 1 \in Nat /\ to - 1 \in Nat /\ from - 1 \in 0..Len(a) /\ to - 1 \in 0..Len(a)
      /\ from - 1 \in (from - 1)..(to - 1) /\ to \in 1..Len(a) /\ to - 1 \in (from - 1)..(to - 1)
      /\ ~(from - 1 >= from) /\ from - 1 + 1 = from /\ from \in Nat /\ to \in Nat
  BY <1>1
<1>3. L \in Nat /\ a[to].buflen \in Nat
  BY <1>2, ExtentSteps
<1> HIDE DEF L
<1>4. from - 1 \in T
  <2>1. (from - 1 - (from - 1)) * L = 0
    BY <1>2, <1>3
  <2>2. Extent(a, from - 1) - Extent(a, from - 1) = 0
    BY <1>1, <1>2
  <2> QED BY <1>2, <2>1, <2>2
<1>5. ASSUME NEW n \in (from - 1 + 1)..(to - 1), n - 1 \in T PROVE n \in T
  <2>1. n \in 1..Len(a) /\ n - 1 \in 0..Len(a) /\ n \in (from - 1)..(to - 1) /\ n \in Nat
    BY <1>1, <1>2
  <2>2. a[n].buflen = L
    <3>1. CASE n = from
      BY <3>1 DEF L
    <3>2. CASE n # from
      <4>1. n \in (from + 1)..(to - 1) /\ n - 1 >= from
        BY <1>2, <2>1, <3>2
      <4> QED BY <1>5, <4>1
    <3> QED BY <3>1, <3>2
  <2>3. Extent(a, n) = Extent(a, n - 1) + L
    BY <2>1, <2>2, ExtentSteps
  <2>4. Extent(a, n - 1) - Extent(a, from - 1) = (n - 1 - (from - 1)) * L
    BY <1>5
  <2>5. (n - (from - 1)) * L = (n - 1 - (from - 1)) * L + L
    <3> DEFINE z == n - (from - 1)
    <3>1. z \in Int /\ n - 1 - (from - 1) = z - 1
      BY <1>2, <2>1
    <3> HIDE DEF z
    <3>2. z * L = (z - 1) * L + L
      BY <1>3, <3>1
    <3>3. (n - 1 - (from - 1)) * L = (z - 1) * L
      BY <3>1
    <3> QED BY <3>2, <3>3 DEF z
  <2>6. Extent(a, n - 1) \in Nat /\ Extent(a, from - 1) \in Nat /\ (n - 1 - (from - 1)) * L \in Int
    BY <1>1, <1>2, <1>3, <2>1
  <2> DEFINE x == (n - 1 - (from - 1)) * L
             y == (n - (from - 1)) * L
             p == Extent(a, n - 1)
             q == Extent(a, from - 1)
  <2>8. Extent(a, n) - q = y
    <3>1. Extent(a, n) = p + L /\ p - q = x /\ y = x + L /\ p \in Nat /\ q \in Nat /\ x \in Int
      BY <2>3, <2>4, <2>5, <2>6
    <3> HIDE DEF x, y, p, q
    <3> QED BY <1>3, <3>1
  <2> HIDE DEF Extent
  <2> QED BY <2>1, <2>2, <2>8
<1> HIDE DEF T
<1>6. to - 1 \in T
  BY <1>2, <1>4, <1>5, Onwards
<1>7. Extent(a, to - 1) - Extent(a, from - 1) = (to - 1 - (from - 1)) * L
  BY <1>6 DEF T
<1>8. Extent(a, to) = Extent(a, to - 1) + a[to].buflen
  BY <1>2, ExtentSteps
<1>9. to - 1 - (from - 1) = to - from
  BY <1>2
<1>10. Extent(a, to - 1) \in Nat /\ Extent(a, from - 1) \in Nat /\ (to - from) * L \in Int
  BY <1>1, <1>2, <1>3
<1>11. Extent(a, to - 1) - Extent(a, from - 1) = (to - from) * L
  BY <1>7, <1>9
<1> DEFINE x == (to - from) * L
           p == Extent(a, to - 1)
           q == Extent(a, from - 1)
<1>12. x + a[to].buflen = Extent(a, to) - q
  <2>1. p - q = x /\ Extent(a, to) = p + a[to].buflen /\ p \in Nat /\ q \in Nat /\ x \in Int
    BY <1>8, <1>10, <1>11
  <2> HIDE DEF x, p, q
  <2> QED BY <1>3, <2>1
<1> QED BY <1>12 DEF L

\* len bytes that go from address m of memory to position p of the file.
Span(p, m, len) == {<<p + d, m + d>> : d \in 0..(len - 1)}

\* Byte c of a part of l bytes that is u bytes behind the start of v bytes.
LEMMA ByteWithin ==
  \A p, m, u, v, l \in Nat : \A c \in 0..(l - 1) : u + l <= v =>
    u + c \in 0..(v - 1) /\ (p + u) + c = p + (u + c) /\ (m + u) + c = m + (u + c)
OBVIOUS

\* A run that is contiguous in memory and in the file moves what its buffers move
\* one by one: pos[n] is the place of buffer n in the file.
LEMMA SpanOfRun ==
  ASSUME NEW a \in Seq(ThreadArg), NEW pos \in [1..Len(a) -> Nat],
         NEW from \in 1..Len(a), NEW to \in from..Len(a),
         \A n \in from..to : pos[n] = pos[from] + Extent(a, n - 1) - Extent(a, from - 1),
         \A n \in from..to :
           a[n].bufptr = a[from].bufptr + Extent(a, n - 1) - Extent(a, from - 1)
  PROVE  \A x : x \in Span(pos[from], a[from].bufptr, Extent(a, to) - Extent(a, from - 1)) <=>
                \E n \in from..to : x \in Span(pos[n], a[n].bufptr, a[n].buflen)
<1> DEFINE E == [n \in (from - 1)..to |-> Extent(a, n) - Extent(a, from - 1)]
<1>1. Len(a) \in Nat /\ (\A n \in 0..Len(a) : Extent(a, n) \in Nat)
      /\ from \in Nat /\ to \in Nat /\ from <= to /\ from >= 1 /\ from - 1 \in 0..Len(a)
  BY ExtentSteps
<1>2. \A n \in (from - 1)..to : E[n] \in Nat
  <2> SUFFICES ASSUME NEW n \in (from - 1)..to PROVE E[n] \in Nat
    OBVIOUS
  <2>1. n \in 0..Len(a) /\ from - 1 \in 0..Len(a) /\ n \in (from - 1)..Len(a)
    BY <1>1
  <2>2. Extent(a, from - 1) <= Extent(a, n)
    BY <2>1, ExtentGrows
  <2>3. Extent(a, from - 1) \in Nat /\ Extent(a, n) \in Nat
    BY <1>1, <2>1
  <2> HIDE DEF Extent
  <2> QED BY <2>2, <2>3
<1>3. E[from - 1] = 0
  <2>1. from - 1 \in (from - 1)..to /\ Extent(a, from - 1) \in Nat
    BY <1>1
  <2> QED BY <2>1
<1>4. ASSUME NEW n \in from..to
      PROVE  /\ E[n] = E[n - 1] + a[n].buflen /\ a[n].buflen \in Nat
             /\ pos[n] = pos[from] + E[n - 1] /\ a[n].bufptr = a[from].bufptr + E[n - 1]
  <2>1. n \in 1..Len(a) /\ n \in (from - 1)..to /\ n - 1 \in (from - 1)..to
        /\ n \in 0..Len(a) /\ n - 1 \in 0..Len(a) /\ from \in 1..Len(a)
    BY <1>1
  <2>2. Extent(a, n) = Extent(a, n - 1) + a[n].buflen /\ a[n].buflen \in Nat
    BY <2>1, ExtentSteps
  <2>3. Extent(a, n) \in Nat /\ Extent(a, n - 1) \in Nat /\ Extent(a, from - 1) \in Nat
    BY <1>1, <2>1
  <2>4. pos[from] \in Nat /\ a[from].bufptr \in Nat
    BY <2>1, ExtentSteps
  <2>5. pos[n] = pos[from] + Extent(a, n - 1) - Extent(a, from - 1)
        /\ a[n].bufptr = a[from].bufptr + Extent(a, n - 1) - Extent(a, from - 1)
    BY <2>1
  <2>6. E[n] = Extent(a, n) - Extent(a, from - 1) /\ E[n - 1] = Extent(a, n - 1) - Extent(a, from - 1)
    BY <2>1
  <2> DEFINE u == Extent(a, n - 1)
             v == Extent(a, n)
             w == Extent(a, from - 1)
             l == a[n].buflen
             p == pos[from]
             m == a[from].bufptr
  <2>7. /\ v = u + l /\ l \in Nat /\ u \in Nat /\ v \in Nat /\ w \in Nat /\ p \in Nat /\ m \in Nat
        /\ pos[n] = p + u - w /\ a[n].bufptr = m + u - w /\ E[n] = v - w /\ E[n - 1] = u - w
    BY <2>2, <2>3, <2>4, <2>5, <2>6
  <2> HIDE DEF u, v, w, l, p, m, E
  <2>8. E[n] = E[n - 1] + l /\ pos[n] = p + E[n - 1] /\ a[n].bufptr = m + E[n - 1]
    BY <2>7
  <2> QED BY <2>7, <2>8 DEF l, p, m
<1>5. E[to] = Extent(a, to) - Extent(a, from - 1)
  BY <1>1
<1>6. pos[from] \in Nat /\ a[from].bufptr \in Nat
  BY ExtentSteps
<1> HIDE DEF E
<1> DEFINE p == pos[from]
           m == a[from].bufptr
<1>7. ASSUME NEW x \in Span(p, m, E[to])
      PROVE  \E n \in from..to : x \in Span(pos[n], a[n].bufptr, a[n].buflen)
  <2>1. PICK d \in 0..(E[to] - 1) : x = <<p + d, m + d>>
    BY DEF Span
  <2> DEFINE T == {n \in from..to : d < E[n]}
  <2>2. to \in from..to /\ to \in (from - 1)..to
    BY <1>1
  <2>3. to \in T
    BY <1>2, <2>1, <2>2
  <2>4. T \in SUBSET Nat /\ T # {}
    <3>1. \A n \in from..to : n \in Nat
      BY <1>1
    <3>2. T \in SUBSET Nat
      BY <3>1
    <3> QED BY <2>3, <3>2
  <2>5. PICK n \in T : \A k \in T : n <= k
    <3> HIDE DEF T
    <3> QED BY <2>4, Least
  <2>6. n \in from..to /\ d < E[n] /\ n - 1 \in (from - 1)..to /\ n \in (from - 1)..to
    BY <1>1, <2>5
  <2>7. E[n - 1] <= d
    <3>1. CASE n = from
      BY <1>3, <2>1, <3>1
    <3>2. CASE n # from
      <4>1. n - 1 \in from..to /\ ~(n <= n - 1)
        BY <1>1, <2>6, <3>2
      <4>2. n - 1 \notin T
        BY <2>5, <4>1
      <4>3. ~(d < E[n - 1]) /\ E[n - 1] \in Nat /\ d \in Int
        BY <1>2, <2>1, <2>6, <4>1, <4>2
      <4> QED BY <4>3
    <3> QED BY <3>1, <3>2
  <2> DEFINE c == d - E[n - 1]
  <2>8. /\ E[n - 1] \in Nat /\ d \in Int
        /\ E[n] = E[n - 1] + a[n].buflen /\ a[n].buflen \in Nat
        /\ pos[n] = p + E[n - 1] /\ a[n].bufptr = m + E[n - 1]
    BY <1>2, <1>4, <2>1, <2>6
  <2>9. c \in 0..(a[n].buflen - 1) /\ p + d = pos[n] + c /\ m + d = a[n].bufptr + c
    <3> DEFINE u == E[n - 1]
               l == a[n].buflen
               P == pos[n]
               M == a[n].bufptr
    <3>1. /\ p \in Nat /\ m \in Nat /\ u \in Nat /\ l \in Nat /\ d \in Int /\ d < u + l /\ u <= d
          /\ P = p + u /\ M = m + u
      BY <1>6, <2>6, <2>7, <2>8
    <3> HIDE DEF p, m, u, l, P, M
    <3>2. d - u \in 0..(l - 1) /\ p + d = P + (d - u) /\ m + d = M + (d - u)
      BY <3>1
    <3> QED BY <3>2 DEF u, l, P, M
  <2>10. x = <<pos[n] + c, a[n].bufptr + c>>
    BY <2>1, <2>9
  <2> HIDE DEF c, p, m, T
  <2>11. x \in Span(pos[n], a[n].bufptr, a[n].buflen)
    BY <2>9, <2>10 DEF Span
  <2> QED BY <2>6, <2>11
<1>8. ASSUME NEW n \in from..to, NEW x \in Span(pos[n], a[n].bufptr, a[n].buflen)
      PROVE  x \in Span(p, m, E[to])
  <2>1. PICK c \in 0..(a[n].buflen - 1) : x = <<pos[n] + c, a[n].bufptr + c>>
    BY DEF Span
  <2>2. n - 1 \in (from - 1)..to /\ n \in (from - 1)..to /\ to \in (from - 1)..to
    BY <1>1
  <2>3. E[n] <= E[to]
    <3>1. n \in 0..Len(a) /\ to \in n..Len(a) /\ from - 1 \in 0..Len(a) /\ to \in 0..Len(a)
      BY <1>1
    <3>2. Extent(a, n) <= Extent(a, to)
      BY <3>1, ExtentGrows
    <3>3. Extent(a, n) \in Nat /\ Extent(a, to) \in Nat /\ Extent(a, from - 1) \in Nat
      BY <1>1, <3>1
    <3>4. E[n] = Extent(a, n) - Extent(a, from - 1)
      BY <2>2 DEF E
    <3> HIDE DEF Extent
    <3> QED BY <1>5, <3>2, <3>3, <3>4
  <2> DEFINE d == E[n - 1] + c
  <2>4. /\ E[n - 1] \in Nat /\ E[to] \in Nat /\ c \in Int
        /\ E[n] = E[n - 1] + a[n].buflen /\ a[n].buflen \in Nat
        /\ pos[n] = p + E[n - 1] /\ a[n].bufptr = m + E[n - 1]
    BY <1>2, <1>4, <2>1, <2>2
  <2>5. d \in 0..(E[to] - 1) /\ pos[n] + c = p + d /\ a[n].bufptr + c = m + d
    <3> DEFINE u == E[n - 1]
               v == E[to]
               l == a[n].buflen
               P == pos[n]
               M == a[n].bufptr
    <3>1. /\ p \in Nat /\ m \in Nat /\ u \in Nat /\ v \in Nat /\ l \in Nat
          /\ c \in Int /\ 0 <= c /\ c <= l - 1 /\ u + l <= v /\ P = p + u /\ M = m + u
      BY <1>6, <2>1, <2>3, <2>4
    <3> HIDE DEF p, m, u, v, l, P, M
    <3>2. l \in Nat /\ c \in 0..(l - 1)
      BY <3>1
    <3>3. u + c \in 0..(v - 1) /\ P + c = p + (u + c) /\ M + c = m + (u + c)
      BY <3>1, <3>2, ByteWithin
    <3> QED BY <3>2, <3>3 DEF u, v, P, M
  <2> HIDE DEF d, p, m, E
  <2>6. x = <<p + d, m + d>>
    BY <2>1, <2>5
  <2> QED BY <2>5, <2>6 DEF Span
<1> HIDE DEF p, m
<1>9. \A x : x \in Span(p, m, E[to]) <=> \E n \in from..to : x \in Span(pos[n], a[n].bufptr, a[n].buflen)
  BY <1>7, <1>8
<1> QED BY <1>5, <1>9 DEF p, m

-----------------------------------------------------------------------------
(* The inductive invariant *)

\* Where a call stands: what there is to merge, to sort and to analyze, and that
\* the quit flag is raised when the last run has been handed over.
CallInv ==
  /\ program \in Programs
  /\ calls = 0 => step = "idle"
  /\ step = "sort" => phase \in {"pick", "sift"}
  /\ step \in {"sort", "analyze"} => start \in 1..Len(merged)
  /\ step # "idle" => (all_quit_flag <=> step = "work")

Exact == TypeOK /\ HeapInv /\ HasBuffer /\ CallInv

\* The request of the call that is being made.
LEMMA RequestType ==
  ASSUME RequestsAssumption, TypeOK, CallInv
  PROVE  /\ program \in Seq(Requests) /\ Len(program) \in Nat \ {0}
         /\ req \in Requests /\ req.prms.merge_type \in {"MEM", "ALL"}
<1>1. program \in Seq(Requests) /\ program # <<>> /\ calls \in 0..Len(program)
  BY DEF RequestsAssumption, TypeOK, CallInv
<1>2. Len(program) \in Nat \ {0}
  BY <1>1
<1> DEFINE n == IF calls = 0 THEN 1 ELSE calls
<1>3. n \in 1..Len(program)
  BY <1>1, <1>2
<1>4. program[n] \in Requests
  BY <1>1, <1>3, ElementOf
<1>5. req \in Requests
  BY <1>4 DEF req
<1>6. req.prms \in BufInterfaces \cup ListInterfaces
  BY <1>5 DEF Requests
<1>7. \A p \in BufInterfaces \cup ListInterfaces : p.merge_type \in {"MEM", "ALL"}
  <2>1. \A p \in BufInterfaces : p.merge_type \in {"MEM", "ALL"}
    <3>1. ReadAll.merge_type = "MEM" /\ ReadAtAll.merge_type = "MEM"
      BY DEF ReadAll, ReadAtAll
    <3>2. WriteAll.merge_type = "MEM" /\ WriteAtAll.merge_type = "ALL"
      BY DEF ReadAll, WriteAll, WriteAtAll
    <3> QED BY <3>1, <3>2 DEF BufInterfaces
  <2>2. \A p \in {ReadListAll, ReadListAtAll, ReadComListAll, ReadComListAtAll} :
          p.merge_type \in {"MEM", "ALL"}
    BY DEF ReadAll, ReadListAll, ReadListAtAll, ReadComListAll, ReadComListAtAll
  <2>3. \A p \in {WriteListAll, WriteListAtAll, WriteComListAll, WriteComListAtAll} :
          p.merge_type \in {"MEM", "ALL"}
    BY DEF ReadAll, WriteAll, WriteListAll, WriteListAtAll, WriteComListAll, WriteComListAtAll
  <2>4. \A p \in ListInterfaces :
          \/ p \in {ReadListAll, ReadListAtAll, ReadComListAll, ReadComListAtAll}
          \/ p \in {WriteListAll, WriteListAtAll, WriteComListAll, WriteComListAtAll}
    BY DEF ListInterfaces
  <2> QED BY <2>1, <2>2, <2>3, <2>4
<1> HIDE DEF n
<1> QED BY <1>1, <1>2, <1>5, <1>6, <1>7

\* Its input type.
LEMMA InputTypes ==
  ASSUME RequestsAssumption, TypeOK, CallInv
  PROVE  req.prms.input_type \in {"BUF", "LIST"}
<1>1. req.prms \in BufInterfaces \cup ListInterfaces
  BY RequestType DEF Requests
<1>2. \A p \in BufInterfaces : p.input_type = "BUF"
  <2>1. ReadAll.input_type = "BUF" /\ ReadAtAll.input_type = "BUF"
    BY DEF ReadAll, ReadAtAll
  <2>2. WriteAll.input_type = "BUF" /\ WriteAtAll.input_type = "BUF"
    BY DEF ReadAll, WriteAll, WriteAtAll
  <2> QED BY <2>1, <2>2 DEF BufInterfaces
<1>3. \A p \in {ReadListAll, ReadListAtAll, ReadComListAll, ReadComListAtAll} :
        p.input_type = "LIST"
  BY DEF ReadAll, ReadListAll, ReadListAtAll, ReadComListAll, ReadComListAtAll
<1>4. \A p \in {WriteListAll, WriteListAtAll, WriteComListAll, WriteComListAtAll} :
        p.input_type = "LIST"
  BY DEF ReadAll, WriteAll, WriteListAll, WriteListAtAll, WriteComListAll, WriteComListAtAll
<1>5. \A p \in ListInterfaces : p.input_type = "LIST"
  BY <1>3, <1>4 DEF ListInterfaces
<1> QED BY <1>1, <1>2, <1>5

\* Its arguments, merged.
LEMMA MergedArgsType ==
  ASSUME RequestsAssumption, NEW r \in Requests
  PROVE  MergedArgs(r) \in Seq(ThreadArg) \ {<<>>}
<1>1. r.lists \in [Threads -> Seq(ThreadArg) \ {<<>>}]
  BY DEF Requests
<1>2. NumThreads \in Nat \ {0}
  BY DEF RequestsAssumption
<1>3. MASTER \in Threads
  BY <1>2 DEF MASTER, Threads
<1> QED BY <1>1, <1>2, <1>3, MergeArgsListsType DEF MergedArgs

\* A run ends inside the array, at the first index that does not join the next.
LEMMA RunEndFacts ==
  ASSUME NEW from \in Nat, NEW to \in Nat, from <= to, NEW joins
  PROVE  /\ RunEnd(from, to, joins) \in from..to
         /\ RunEnd(from, to, joins) = to \/ RunEnd(from, to, joins) \notin joins
         /\ \A n \in from..(RunEnd(from, to, joins) - 1) : n \in joins
<1> DEFINE T == {k \in from..to : k = to \/ k \notin joins}
           Ends(k) == k \in from..to /\ (k = to \/ k \notin joins) /\ from..(k - 1) \subseteq joins
<1>1. T \in SUBSET Nat /\ T # {}
  <2>1. to \in T
    OBVIOUS
  <2> QED BY <2>1
<1>2. PICK k \in T : \A x \in T : k <= x
  <2> HIDE DEF T
  <2> QED BY <1>1, Least
<1>3. from..(k - 1) \subseteq joins
  <2> SUFFICES ASSUME NEW x \in from..(k - 1) PROVE x \in joins
    OBVIOUS
  <2>1. x \in from..to /\ x < k /\ x \in Nat /\ k \in Nat
    OBVIOUS
  <2>2. x \notin T
    BY <1>2, <2>1
  <2> QED BY <2>1, <2>2
<1>4. Ends(k)
  BY <1>3
<1> HIDE DEF T
<1> QED BY <1>4 DEF RunEnd

\* The run that begins at `start`, in the file and in memory.
LEMMA RunFacts ==
  ASSUME TypeOK, start \in 1..Len(merged)
  PROVE  /\ FileRunEnd \in start..Len(merged) /\ BufRunEnd \in start..FileRunEnd
         /\ BufRunEnd \in 1..Len(merged) /\ RunLength \in Nat
         /\ Finishes(RunSignal) <=> BufRunEnd = Len(merged)
<1>1. merged \in Seq(ThreadArg) /\ Len(merged) \in Nat /\ start \in Nat /\ start <= Len(merged)
  BY DEF TypeOK, HeapTypeOK
<1>2. FileRunEnd \in start..Len(merged)
  BY <1>1, RunEndFacts DEF FileRunEnd
<1>3. BufRunEnd \in start..FileRunEnd
  BY <1>1, <1>2, RunEndFacts DEF BufRunEnd
<1> HIDE DEF FileRunEnd, BufRunEnd
<1>4. BufRunEnd \in 1..Len(merged)
  BY <1>1, <1>2, <1>3
<1>5. merged[start].buflen \in Nat /\ merged[BufRunEnd].buflen \in Nat
  <2>1. merged[start] \in ThreadArg /\ merged[BufRunEnd] \in ThreadArg
    BY <1>1, <1>4, ElementOf
  <2> QED BY <2>1 DEF ThreadArg
<1>6. RunLength \in Nat
  <2>1. BufRunEnd - start \in Nat
    BY <1>1, <1>3
  <2>2. \A a, b, c \in Nat : a * b + c \in Nat
    OBVIOUS
  <2> QED BY <1>5, <2>1, <2>2 DEF RunLength
<1>7. Finishes(RunSignal) <=> BufRunEnd = Len(merged)
  <2>1. FileRunEnd \in Int /\ BufRunEnd \in Int /\ BufRunEnd <= FileRunEnd /\ FileRunEnd <= Len(merged)
    BY <1>1, <1>2, <1>3
  <2> QED BY <1>1, <2>1 DEF RunSignal, Finishes
<1> QED BY <1>2, <1>3, <1>4, <1>6, <1>7

\* What a block moves.
LEMMA BytesType ==
  ASSUME TypeOK, HasBuffer, NEW k \in DOMAIN listiopool
  PROVE  BytesOf(listiopool[k]) \in SUBSET (Nat \X Nat)
<1> DEFINE block == listiopool[k]
<1>1. block \in BlockType /\ block.iov # <<>>
  BY PoolType DEF TypeOK, HasBuffer
<1>2. block.offset \in Nat /\ block.iov \in Seq(IovecType) /\ DOMAIN block.iov = 1..Len(block.iov)
      /\ Len(block.iov) \in Nat \ {0}
  <2>1. block.offset \in Nat /\ block.iov \in Seq(IovecType)
    BY <1>1 DEF BlockType
  <2> HIDE DEF block
  <2> QED BY <1>1, <2>1
<1> HIDE DEF block
<1>3. \A n \in 1..Len(block.iov) : block.iov[n].iov_base \in Nat /\ block.iov[n].iov_len \in Nat
  <2> SUFFICES ASSUME NEW n \in 1..Len(block.iov)
               PROVE  block.iov[n].iov_base \in Nat /\ block.iov[n].iov_len \in Nat
    OBVIOUS
  <2>1. block.iov[n] \in IovecType
    BY <1>2, ElementOf
  <2> QED BY <2>1 DEF IovecType
<1>4. BufBytes(block) \in SUBSET (Nat \X Nat)
  <2>1. block.iov[1].iov_base \in Nat /\ block.iov[1].iov_len \in Nat
    BY <1>2, <1>3
  <2> QED BY <1>2, <2>1 DEF BufBytes
<1>5. ListBytes(block) \in SUBSET (Nat \X Nat)
  <2>1. ASSUME NEW n \in DOMAIN block.iov, NEW d \in 0..(block.iov[n].iov_len - 1)
        PROVE  After(block, n - 1) + d \in Nat /\ block.iov[n].iov_base + d \in Nat
    <3>1. n - 1 \in 0..Len(block.iov)
      BY <1>2
    <3>2. After(block, n - 1) \in Nat
      BY <1>1, <3>1, AfterType
    <3>3. block.iov[n].iov_base \in Nat /\ d \in Nat
      BY <1>2, <1>3
    <3> QED BY <3>2, <3>3
  <2> QED BY <2>1 DEF ListBytes
<1>6. BytesOf(block) \in SUBSET (Nat \X Nat)
  BY <1>4, <1>5 DEF BytesOf
<1> QED BY <1>6 DEF block

-----------------------------------------------------------------------------
(* Its steps *)

\* The array to sort, a heap or not, is nobody else's: steps that leave it and the
\* calls alone keep the invariant if they keep the types and the quit flag.
LEMMA ArrayKept ==
  ASSUME HeapTypeOK, HeapInv, UNCHANGED heapVars PROVE HeapTypeOK' /\ HeapInv'
BY DEF heapVars, heapLocals, HeapTypeOK, HeapInv, StageInv, Filled

\* The program begins a call.
LEMMA CallStep ==
  ASSUME RequestsAssumption, Exact, Call PROVE Exact'
<1>1. /\ step = "idle" /\ calls < Len(program) /\ step' = "merge" /\ calls' = calls + 1
      /\ base' = Start(program[calls + 1].prms) /\ all_quit_flag' = FALSE /\ transferred' = {}
      /\ UNCHANGED <<internal_offset, position, listiopool, nxt_slave, listlen, completed>>
      /\ UNCHANGED heapVars /\ program' = program /\ start' = start
  BY DEF Call
<1>2. WorkManagerTypeOK' /\ base' \in Nat
  BY <1>1, StartType DEF Exact, TypeOK, WorkManagerTypeOK
<1>3. HeapTypeOK' /\ HeapInv' /\ merged' = merged
  BY <1>1, ArrayKept DEF Exact, TypeOK, heapVars
<1>4. calls' \in 0..Len(program)
  BY <1>1, RequestType DEF Exact, TypeOK
<1>5. TypeOK'
  BY <1>1, <1>2, <1>3, <1>4 DEF Exact, TypeOK
<1>6. CallInv'
  <2>1. calls \in Nat
    BY RequestType DEF Exact, TypeOK
  <2> QED BY <1>1, <2>1 DEF Exact, CallInv
<1>7. HasBuffer'
  BY <1>1 DEF Exact, HasBuffer
<1> QED BY <1>3, <1>5, <1>6, <1>7 DEF Exact

\* The arguments are merged; explicit offsets are sorted next.
LEMMA MergeStep ==
  ASSUME RequestsAssumption, Exact, Merge PROVE Exact'
<1> DEFINE args == MergedArgs(req)
<1>1. /\ step = "merge" /\ start' = 1 /\ UNCHANGED wmVars /\ program' = program
      /\ calls' = calls /\ base' = base
  BY DEF Merge
<1>2. req \in Requests /\ args \in Seq(ThreadArg) /\ args # <<>>
  BY RequestType, MergedArgsType DEF Exact
<1>3. ~all_quit_flag /\ calls # 0 /\ program \in Programs
  BY <1>1 DEF Exact, CallInv
<1>4. WorkManagerTypeOK' /\ HasBuffer' /\ base' \in Nat /\ all_quit_flag' = all_quit_flag
      /\ calls' \in 0..Len(program')
  BY <1>1 DEF Exact, TypeOK, WorkManagerTypeOK, HasBuffer, wmVars
<1> HIDE DEF args
<1>5. CASE /\ StartSort(args)
           /\ step' = IF phase' = "sorted" THEN "analyze" ELSE "sort"
  <2>1. HeapTypeOK' /\ HeapInv'
    BY <1>2, <1>5, SortStarts DEF Exact, TypeOK
  <2>2. merged' = args /\ phase' \in {"sorted", "pick"}
    BY <1>5 DEF StartSort
  <2>3. Len(merged') \in Nat \ {0}
    BY <1>2, <2>2
  <2>4. TypeOK'
    BY <1>1, <1>4, <1>5, <2>1, <2>3 DEF TypeOK
  <2>5. CallInv'
    BY <1>1, <1>3, <1>4, <1>5, <2>2, <2>3 DEF CallInv
  <2> QED BY <1>4, <2>1, <2>4, <2>5 DEF Exact
<1>6. CASE /\ merged' = args /\ phase' = "none" /\ step' = "analyze"
           /\ UNCHANGED <<heapLocals, original>>
  <2>1. HeapTypeOK' /\ HeapInv'
    BY <1>2, <1>6 DEF Exact, TypeOK, HeapTypeOK, HeapInv, heapLocals
  <2>2. Len(merged') \in Nat \ {0}
    BY <1>2, <1>6
  <2>3. TypeOK'
    BY <1>1, <1>4, <1>6, <2>1, <2>2 DEF TypeOK
  <2>4. CallInv'
    BY <1>1, <1>3, <1>4, <1>6, <2>2 DEF CallInv
  <2> QED BY <1>4, <2>1, <2>3, <2>4 DEF Exact
<1> QED BY <1>5, <1>6 DEF Merge, args

\* heap_sort makes a step.
LEMMA SortingStep ==
  ASSUME Exact, Sort PROVE Exact'
<1>1. /\ step = "sort" /\ SortStep /\ step' = IF phase' = "sorted" THEN "analyze" ELSE "sort"
      /\ UNCHANGED wmVars /\ program' = program /\ calls' = calls /\ start' = start /\ base' = base
  BY DEF Sort
<1>2. HeapTypeOK' /\ HeapInv'
  BY <1>1, SortSteps DEF Exact, TypeOK
<1>3. phase \in {"pick", "sift"} /\ phase' \in {"pick", "sift", "sorted"} /\ original' = original
  BY <1>1 DEF SortStep, PickParent, Extract, Sorted, SiftDown, PutBack, TakeOut, Exact, CallInv
<1>4. Len(merged) = Len(original) /\ original # <<>> /\ Len(merged') = Len(original)
  BY <1>2, <1>3 DEF Exact, HeapInv
<1>5. Len(merged') = Len(merged) /\ Len(merged') \in Nat \ {0}
  BY <1>2, <1>4 DEF Exact, TypeOK, HeapTypeOK
<1>6. WorkManagerTypeOK' /\ HasBuffer' /\ all_quit_flag' = all_quit_flag
  BY <1>1 DEF Exact, TypeOK, WorkManagerTypeOK, HasBuffer, wmVars
<1>7. TypeOK'
  BY <1>1, <1>2, <1>5, <1>6 DEF Exact, TypeOK
<1>8. CallInv'
  BY <1>1, <1>3, <1>5, <1>6 DEF Exact, CallInv
<1> QED BY <1>2, <1>6, <1>7, <1>8 DEF Exact

\* A run, or all of the buffers at once, is handed over.
LEMMA HandOverStep ==
  ASSUME WorkManagerAssumption, RequestsAssumption, Exact, HandOverAll \/ HandOverRun
  PROVE  Exact'
<1>1. /\ step = "analyze" /\ start \in 1..Len(merged) /\ ~all_quit_flag
      /\ merged \in Seq(ThreadArg) /\ Len(merged) \in Nat /\ calls # 0 /\ program \in Programs
  BY DEF Exact, TypeOK, HeapTypeOK, CallInv, HandOverAll, HandOverRun
<1>2. /\ UNCHANGED heapVars /\ program' = program /\ calls' = calls /\ base' = base
      /\ merged' = merged
  BY DEF HandOverAll, HandOverRun, heapVars
<1>3. HeapTypeOK' /\ HeapInv'
  BY <1>2, ArrayKept DEF Exact, TypeOK
<1>4. \A n \in 1..Len(merged) : merged[n].bufptr \in Nat /\ merged[n].offset \in Nat
  <2> SUFFICES ASSUME NEW n \in 1..Len(merged)
               PROVE  merged[n].bufptr \in Nat /\ merged[n].offset \in Nat
    OBVIOUS
  <2>1. merged[n] \in ThreadArg
    BY <1>1, ElementOf
  <2> QED BY <2>1 DEF ThreadArg
<1>5. CASE HandOverAll
  <2> DEFINE all == SumOfLengths(merged)
  <2>1. /\ WorkManager(req.prms, merged[1].bufptr, all, merged[1].offset, "FINISH")
        /\ step' = "work" /\ start' = Len(merged) + 1
    BY <1>5 DEF HandOverAll
  <2>2. merged[1].bufptr \in Nat /\ merged[1].offset \in Nat /\ all \in Nat
    BY <1>1, <1>4, SumOfLengthsType
  <2> HIDE DEF all
  <2>3. WorkManagerTypeOK' /\ HasBuffer'
    BY <2>1, <2>2, PlannedType, PlannedHasBuffer DEF Exact, TypeOK
  <2>4. all_quit_flag'
    <3>1. all_quit_flag' = (all_quit_flag \/ Finishes("FINISH"))
      BY <2>1 DEF WorkManager
    <3>2. Finishes("FINISH")
      BY DEF Finishes
    <3> QED BY <3>1, <3>2, Zenon
  <2>5. TypeOK'
    BY <1>1, <1>2, <1>3, <2>1, <2>3 DEF Exact, TypeOK
  <2>6. CallInv'
    BY <1>1, <1>2, <2>1, <2>4 DEF CallInv
  <2> QED BY <1>3, <2>3, <2>5, <2>6 DEF Exact
<1>6. CASE HandOverRun
  <2>1. /\ WorkManager(req.prms, merged[start].bufptr, RunLength, merged[start].offset, RunSignal)
        /\ start' = BufRunEnd + 1
        /\ step' = IF BufRunEnd = Len(merged) THEN "work" ELSE "analyze"
    BY <1>6 DEF HandOverRun
  <2>2. /\ BufRunEnd \in 1..Len(merged) /\ RunLength \in Nat
        /\ Finishes(RunSignal) <=> BufRunEnd = Len(merged)
    BY <1>1, RunFacts DEF Exact
  <2>3. merged[start].bufptr \in Nat /\ merged[start].offset \in Nat
    BY <1>1, <1>4
  <2> HIDE DEF BufRunEnd, RunLength, RunSignal
  <2>4. WorkManagerTypeOK' /\ HasBuffer'
    BY <2>1, <2>2, <2>3, PlannedType, PlannedHasBuffer DEF Exact, TypeOK
  <2>5. all_quit_flag' <=> BufRunEnd = Len(merged)
    <3>1. all_quit_flag' = (all_quit_flag \/ Finishes(RunSignal))
      BY <2>1 DEF WorkManager
    <3> QED BY <1>1, <2>2, <3>1, Zenon
  <2>6. start' \in 1..(Len(merged) + 1) /\ (BufRunEnd # Len(merged) => start' \in 1..Len(merged))
    BY <1>1, <2>1, <2>2
  <2>7. TypeOK'
    BY <1>1, <1>2, <1>3, <2>1, <2>4, <2>6 DEF Exact, TypeOK
  <2>8. CallInv'
    BY <1>1, <1>2, <2>1, <2>5, <2>6 DEF CallInv
  <2> QED BY <1>3, <2>4, <2>7, <2>8 DEF Exact
<1> QED BY <1>5, <1>6

\* A thread transfers a block.
LEMMA WorkStep ==
  ASSUME WorkManagerAssumption, Exact, NEW t \in Active, Work(t) PROVE Exact'
<1>1. PICK k \in DOMAIN listiopool :
        /\ Transfer(t, k, BytesOf(listiopool[k]))
        /\ position' = IF t = MASTER /\ req.prms.input_type = "LIST"
                       THEN After(listiopool[k], Len(listiopool[k].iov)) ELSE position
  BY DEF Work
<1>2. /\ UNCHANGED heapVars /\ program' = program /\ calls' = calls /\ step' = step
      /\ start' = start /\ base' = base /\ merged' = merged
  BY DEF Work, heapVars
<1>3. HeapTypeOK' /\ HeapInv'
  BY <1>2, ArrayKept DEF Exact, TypeOK
<1>4. position' \in Nat
  <2>1. listiopool[k] \in BlockType /\ position \in Nat
    BY PoolType DEF Exact, TypeOK, WorkManagerTypeOK
  <2>2. Len(listiopool[k].iov) \in 0..Len(listiopool[k].iov)
    <3>1. listiopool[k].iov \in Seq(IovecType)
      BY <2>1 DEF BlockType
    <3> QED BY <3>1
  <2>3. After(listiopool[k], Len(listiopool[k].iov)) \in Nat
    BY <2>1, <2>2, AfterType
  <2> QED BY <1>1, <2>1, <2>3
<1> DEFINE bytes == BytesOf(listiopool[k])
<1>5. bytes \in SUBSET (Nat \X Nat) /\ Transfer(t, k, bytes)
  BY <1>1, BytesType DEF Exact
<1> HIDE DEF bytes
<1>6. WorkManagerTypeOK' /\ HasBuffer'
  BY <1>4, <1>5, TransferType, TransferHasBuffer DEF Exact, TypeOK
<1>7. all_quit_flag' = all_quit_flag
  BY <1>5 DEF Transfer
<1>8. TypeOK'
  BY <1>2, <1>3, <1>6 DEF Exact, TypeOK
<1>9. CallInv'
  <2>1. phase' = phase
    BY <1>2 DEF heapVars
  <2> QED BY <1>2, <1>7, <2>1 DEF Exact, CallInv
<1> QED BY <1>3, <1>6, <1>8, <1>9 DEF Exact

\* The call returns.
LEMMA ReturnStep ==
  ASSUME Exact, Return PROVE Exact'
<1>1. /\ FreePool /\ step' = "idle" /\ UNCHANGED heapVars /\ program' = program
      /\ calls' = calls /\ start' = start /\ base' = base /\ merged' = merged
  BY DEF Return, heapVars
<1>2. HeapTypeOK' /\ HeapInv'
  BY <1>1, ArrayKept DEF Exact, TypeOK
<1>3. WorkManagerTypeOK' /\ listiopool' = <<>>
  BY <1>1, FreedType DEF Exact, TypeOK, FreePool
<1>4. TypeOK'
  BY <1>1, <1>2, <1>3 DEF Exact, TypeOK
<1>5. CallInv'
  BY <1>1 DEF Exact, CallInv
<1>6. HasBuffer'
  BY <1>3 DEF HasBuffer
<1> QED BY <1>2, <1>4, <1>5, <1>6 DEF Exact

\* The invariant holds throughout.
THEOREM CallsAreExact == Spec => []Exact
<1> USE WorkManagerAssumption, RequestsAssumption
<1>1. Init => Exact
  <2> SUFFICES ASSUME Init PROVE Exact
    OBVIOUS
  <2>1. WorkManagerTypeOK
    BY InitialTypes DEF Init
  <2>2. HeapTypeOK /\ HeapInv /\ merged = <<>>
    <3>1. merged = <<>> /\ original = <<>> /\ phase = "none"
          /\ size = 0 /\ first = 0 /\ parent = 0 /\ child = 0 /\ held \in ThreadArg
      BY DEF Init, HeapInit, ThreadArg
    <3>2. <<>> \in Seq(ThreadArg)
      OBVIOUS
    <3> QED BY <3>1, <3>2 DEF HeapTypeOK, HeapInv
  <2>3. /\ program \in Programs /\ step = "idle" /\ calls = 0 /\ start = 1 /\ base = 0
        /\ listiopool = <<>>
    BY DEF Init, WorkManagerInit
  <2>4. Len(program) \in Nat
    BY <2>3 DEF RequestsAssumption
  <2>5. TypeOK
    BY <2>1, <2>2, <2>3, <2>4 DEF TypeOK
  <2> QED BY <2>2, <2>3, <2>5 DEF Exact, CallInv, HasBuffer
<1>2. Exact /\ [Next]_vars => Exact'
  <2> SUFFICES ASSUME Exact, [Next]_vars PROVE Exact'
    OBVIOUS
  <2>1. CASE UNCHANGED vars
    <3>1. /\ UNCHANGED wmVars /\ UNCHANGED heapVars /\ program' = program /\ calls' = calls
          /\ step' = step /\ start' = start /\ base' = base
      BY <2>1 DEF vars
    <3>2. HeapTypeOK' /\ HeapInv'
      BY <3>1, ArrayKept DEF Exact, TypeOK
    <3>3. WorkManagerTypeOK' /\ HasBuffer'
      BY <3>1 DEF Exact, TypeOK, WorkManagerTypeOK, HasBuffer, wmVars
    <3>4. TypeOK'
      BY <3>1, <3>2, <3>3 DEF Exact, TypeOK, heapVars
    <3>5. CallInv'
      BY <3>1 DEF Exact, CallInv, heapVars, wmVars
    <3> QED BY <3>2, <3>3, <3>4, <3>5 DEF Exact
  <2>2. ASSUME NEW t \in Active, Work(t) PROVE Exact'
    BY <2>2, WorkStep
  <2> QED BY <2>1, <2>2, CallStep, MergeStep, SortingStep, HandOverStep, ReturnStep
          DEF Next, Terminating
<1> QED BY <1>1, <1>2, PTL DEF Spec

\* The state of _base, work_manager.c and heap_sort.c has its types.
THEOREM TypeCorrect == Spec => []TypeOK
<1>1. Exact => TypeOK
  BY DEF Exact
<1> QED BY <1>1, CallsAreExact, PTL

\* heap_sort leaves the merged arguments, however many, in the order of their
\* offsets, and is undisturbed by the threads that work meanwhile.
THEOREM SortedPermutationHolds == Spec => []SortedPermutation
<1>1. Exact => SortedPermutation
  BY SortedAtEnd DEF Exact, TypeOK
<1> QED BY <1>1, CallsAreExact, PTL

\* The quit flag comes with the last run, wherever the runs end.
THEOREM QuitWithLastRunHolds == Spec => []QuitWithLastRun
<1>1. Exact => QuitWithLastRun
  BY DEF Exact, CallInv, QuitWithLastRun
<1> QED BY <1>1, CallsAreExact, PTL

-----------------------------------------------------------------------------
(* The shares of the threads *)

\* HandOverAll and HandOverRun are calls of work_manager.
LEMMA HandsOver ==
  ASSUME RequestsAssumption, Exact, HandOverAll \/ HandOverRun
  PROVE  \E at, len, off \in Nat, signal \in {"CONTINUE", "CONTIG_FILE_BLOCK", "FINISH", "CONTIG_AND_FINISH"} :
           /\ WorkManager(req.prms, at, len, off, signal)
           /\ step = "analyze" /\ step' # "idle"
<1>1. /\ step = "analyze" /\ start \in 1..Len(merged) /\ merged \in Seq(ThreadArg)
      /\ Len(merged) \in Nat
  BY DEF Exact, TypeOK, HeapTypeOK, CallInv, HandOverAll, HandOverRun
<1>2. \A n \in 1..Len(merged) : merged[n].bufptr \in Nat /\ merged[n].offset \in Nat
  <2> SUFFICES ASSUME NEW n \in 1..Len(merged)
               PROVE  merged[n].bufptr \in Nat /\ merged[n].offset \in Nat
    OBVIOUS
  <2>1. merged[n] \in ThreadArg
    BY <1>1, ElementOf
  <2> QED BY <2>1 DEF ThreadArg
<1>3. CASE HandOverAll
  <2>1. /\ WorkManager(req.prms, merged[1].bufptr, SumOfLengths(merged), merged[1].offset, "FINISH")
        /\ step' = "work"
    BY <1>3 DEF HandOverAll
  <2>2. merged[1].bufptr \in Nat /\ merged[1].offset \in Nat /\ SumOfLengths(merged) \in Nat
    BY <1>1, <1>2, SumOfLengthsType
  <2> QED BY <1>1, <2>1, <2>2
<1>4. CASE HandOverRun
  <2>1. /\ WorkManager(req.prms, merged[start].bufptr, RunLength, merged[start].offset, RunSignal)
        /\ step' \in {"work", "analyze"}
    BY <1>4 DEF HandOverRun
  <2>2. merged[start].bufptr \in Nat /\ merged[start].offset \in Nat /\ RunLength \in Nat
    BY <1>1, <1>2, RunFacts DEF Exact
  <2>3. RunSignal \in {"CONTINUE", "CONTIG_FILE_BLOCK", "FINISH", "CONTIG_AND_FINISH"}
    BY DEF RunSignal
  <2> HIDE DEF RunLength, RunSignal
  <2> QED BY <1>1, <2>1, <2>2, <2>3
<1> QED BY <1>3, <1>4

\* A thread that has done all that is counted for it has nothing in the pool.
THEOREM CountedAreAssignedHolds == Spec => []CountedAreAssigned
<1> USE WorkManagerAssumption, RequestsAssumption
<1>1. Init => CountedAreAssigned
  BY InitialCounted DEF Init
<1>2. Exact /\ CountedAreAssigned /\ [Next]_vars => CountedAreAssigned'
  <2> SUFFICES ASSUME Exact, CountedAreAssigned, [Next]_vars PROVE CountedAreAssigned'
    OBVIOUS
  <2>t. WorkManagerTypeOK
    BY DEF Exact, TypeOK
  <2>s. ASSUME UNCHANGED <<listiopool, listlen, completed>> PROVE CountedAreAssigned'
    BY <2>s DEF CountedAreAssigned
  <2>1. CASE Call
    BY <2>1, <2>s DEF Call
  <2>2. CASE Merge
    BY <2>2, <2>s DEF Merge, wmVars
  <2>3. CASE Sort
    BY <2>3, <2>s DEF Sort, wmVars
  <2>4. CASE HandOverAll \/ HandOverRun
    BY <2>t, <2>4, HandsOver, PlannedCounted
  <2>5. ASSUME NEW t \in Active, Work(t) PROVE CountedAreAssigned'
    BY <2>t, <2>5, TransferCounted DEF Work
  <2>6. CASE Return
    BY <2>6, FreedCounted DEF Return
  <2>7. CASE UNCHANGED vars
    BY <2>7, <2>s DEF vars, wmVars
  <2> QED BY <2>1, <2>2, <2>3, <2>4, <2>5, <2>6, <2>7 DEF Next, Terminating
<1> QED BY <1>1, <1>2, CallsAreExact, PTL DEF Spec

\* Until the last run sets nxt_slave back for the next call the slaves before it
\* are one block ahead of the MASTER.
RoundRobinInv ==
  /\ Balanced
  /\ step # "idle" /\ ~all_quit_flag => RoundRobin
  /\ step = "idle" => \A t \in Active : listlen[t] = 0
  /\ step = "idle" \/ all_quit_flag => nxt_slave = FirstSlave

\* No thread gets two blocks more than another, and none fewer than the MASTER,
\* whatever the runs are.
THEOREM BalancedHolds == Spec => []Balanced
<1> USE WorkManagerAssumption, RequestsAssumption
<1>1. Init => RoundRobinInv
  <2> SUFFICES ASSUME Init PROVE RoundRobinInv
    OBVIOUS
  <2>1. nxt_slave = FirstSlave /\ (\A t \in Active : listlen[t] = 0) /\ step = "idle"
    BY DEF Init, WorkManagerInit
  <2> QED BY <2>1, RoundRobinStarts DEF RoundRobinInv
<1>2. Exact /\ RoundRobinInv /\ [Next]_vars => RoundRobinInv'
  <2> SUFFICES ASSUME Exact, RoundRobinInv, [Next]_vars PROVE RoundRobinInv'
    OBVIOUS
  <2>t. WorkManagerTypeOK /\ FirstSlave' = FirstSlave
    BY DEF Exact, TypeOK, FirstSlave
  <2>s. ASSUME step # "idle", step' # "idle", UNCHANGED <<listlen, nxt_slave, all_quit_flag>>
        PROVE  RoundRobinInv'
    BY <2>s DEF RoundRobinInv, RoundRobin, Balanced, FirstSlave
  <2>1. CASE Call
    <3>1. /\ step = "idle" /\ step' = "merge" /\ ~all_quit_flag'
          /\ listlen' = listlen /\ nxt_slave' = nxt_slave
      BY <2>1 DEF Call
    <3>2. (\A t \in Active : listlen[t] = 0) /\ nxt_slave = FirstSlave
      BY <3>1 DEF RoundRobinInv
    <3>3. RoundRobin /\ Balanced
      BY <3>2, RoundRobinStarts
    <3>4. RoundRobin' /\ Balanced'
      BY <3>1, <3>3 DEF RoundRobin, Balanced
    <3> QED BY <3>1, <3>4, Zenon DEF RoundRobinInv
  <2>2. CASE Merge
    BY <2>2, <2>s DEF Merge, wmVars
  <2>3. CASE Sort
    BY <2>3, <2>s DEF Sort, wmVars
  <2>4. CASE HandOverAll \/ HandOverRun
    <3>1. PICK at \in Nat, len \in Nat, off \in Nat,
               signal \in {"CONTINUE", "CONTIG_FILE_BLOCK", "FINISH", "CONTIG_AND_FINISH"} :
            /\ WorkManager(req.prms, at, len, off, signal)
            /\ step = "analyze" /\ step' # "idle"
      BY <2>4, HandsOver
    <3>2. ~all_quit_flag /\ RoundRobin
      BY <3>1 DEF Exact, CallInv, RoundRobinInv
    <3>3. /\ Balanced'
          /\ Finishes(signal) => nxt_slave' = FirstSlave
          /\ ~Finishes(signal) => RoundRobin'
      BY <2>t, <3>1, <3>2, RoundRobinMoves
    <3>4. all_quit_flag' = (all_quit_flag \/ Finishes(signal))
      BY <3>1 DEF WorkManager
    <3>5. all_quit_flag' <=> Finishes(signal)
      BY <3>2, <3>4, Zenon
    <3> QED BY <2>t, <3>1, <3>3, <3>5, Zenon DEF RoundRobinInv
  <2>5. ASSUME NEW t \in Active, Work(t) PROVE RoundRobinInv'
    <3>1. step' = step /\ completed[t] < listlen[t] /\ UNCHANGED <<listlen, nxt_slave, all_quit_flag>>
      BY <2>5 DEF Work, Transfer
    <3>2. step # "idle"
      <4>1. completed[t] \in Nat
        BY <2>t DEF WorkManagerTypeOK
      <4> QED BY <3>1, <4>1 DEF RoundRobinInv
    <3> QED BY <2>s, <3>1, <3>2
  <2>6. CASE Return
    <3>1. /\ step' = "idle" /\ nxt_slave' = nxt_slave /\ all_quit_flag
          /\ listlen' = [t \in Active |-> 0]
      BY <2>6 DEF Return, FreePool, AllDone
    <3>2. nxt_slave = FirstSlave /\ MASTER \in Active
      BY <3>1, ThreadFacts DEF RoundRobinInv
    <3> QED BY <2>t, <3>1, <3>2 DEF RoundRobinInv, Balanced
  <2>7. CASE UNCHANGED vars
    BY <2>7, <2>t DEF vars, wmVars, RoundRobinInv, RoundRobin, Balanced
  <2> QED BY <2>1, <2>2, <2>3, <2>4, <2>5, <2>6, <2>7 DEF Next, Terminating
<1>3. RoundRobinInv => Balanced
  BY DEF RoundRobinInv
<1> QED BY <1>1, <1>2, <1>3, CallsAreExact, PTL DEF Spec

-----------------------------------------------------------------------------
(* What a run is *)

\* The arguments of a request in the order in which they are analyzed.
Arranged(r) ==
  IF r.prms.merge_type = "ALL"
  THEN {a \in Seq(ThreadArg) : InOrder(a) /\ Rearranged(a, MergedArgs(r))}
  ELSE {MergedArgs(r)}

\* Buffer n and the next one belong to one run.
Joined(r, a, n) ==
  /\ Adjacent(a[n], a[n + 1])
  /\ r.prms.merge_type = "ALL" => AdjacentInFile(a[n], a[n + 1])

\* The buffers of a run, the last one excepted, have one length: without that
\* buffer_contiguity_analyzer computes a wrong length for it (UnequalRuns).
EvenRuns ==
  \A p \in Programs : \A k \in DOMAIN p : p[k].hint <= 0 =>
    \A a \in Arranged(p[k]) : \A n \in 2..(Len(a) - 1) :
      Joined(p[k], a, n - 1) /\ Joined(p[k], a, n) => a[n].buflen = a[n - 1].buflen

\* EvenRuns covers every call whose buffers have one length, however they lie, as
\* those of test/test.c.
THEOREM EqualBuffersRunEvenly ==
  ASSUME RequestsAssumption,
         \A p \in Programs : \A k \in DOMAIN p :
           \A i, j \in DOMAIN MergedArgs(p[k]) :
             MergedArgs(p[k])[i].buflen = MergedArgs(p[k])[j].buflen
  PROVE  EvenRuns
<1> SUFFICES ASSUME NEW p \in Programs, NEW k \in DOMAIN p, NEW a \in Arranged(p[k]),
                    NEW n \in 2..(Len(a) - 1)
             PROVE  a[n].buflen = a[n - 1].buflen
  BY DEF EvenRuns
<1> DEFINE all == MergedArgs(p[k])
<1>1. p[k] \in Requests
  BY DEF RequestsAssumption
<1>2. all \in Seq(ThreadArg)
  BY <1>1, MergedArgsType
<1>3. a \in Seq(ThreadArg) /\ (a = all \/ Rearranged(a, all))
  BY <1>2 DEF Arranged
<1>4. DOMAIN a = 1..Len(a) /\ n \in DOMAIN a /\ n - 1 \in DOMAIN a
  BY <1>3
<1>5. \A x \in DOMAIN a : \E i \in DOMAIN all : a[x] = all[i]
  <2> HIDE DEF all
  <2>1. CASE a = all
    BY <2>1
  <2>2. CASE Rearranged(a, all)
    BY <2>2 DEF Rearranged
  <2> QED BY <1>3, <2>1, <2>2
<1>6. \A i, j \in DOMAIN all : all[i].buflen = all[j].buflen
  OBVIOUS
<1> HIDE DEF all
<1>7. \E i, j \in DOMAIN all : a[n] = all[i] /\ a[n - 1] = all[j]
  BY <1>4, <1>5
<1> QED BY <1>6, <1>7

\* Buffers that the caller's hint declares contiguous are contiguous.
HintsHold ==
  \A p \in Programs : \A k \in DOMAIN p : p[k].hint > 0 =>
    \A a \in Arranged(p[k]) : \A n \in 1..(Len(a) - 1) : Joined(p[k], a, n)

\* The arguments are in their final order.
Analyzed == step \in {"analyze", "work"} \/ Returned

\* merged holds the arguments of this call, sorted if they have offsets.
ArrayInv ==
  /\ step = "sort" => req.prms.merge_type = "ALL" /\ original = MergedArgs(req)
  /\ Analyzed =>
       IF req.prms.merge_type = "ALL" THEN phase = "sorted" /\ original = MergedArgs(req)
       ELSE merged = MergedArgs(req)

\* The pool is empty until the first run; only hints hand over more than runs.
PoolInv ==
  /\ step \in {"idle", "merge", "sort"} => listiopool = <<>>
  /\ step = "sort" => start = 1
  /\ step = "analyze" /\ start = 1 => listiopool = <<>>
  /\ step = "analyze" /\ start > 1 => Len(listiopool) > 0 /\ req.hint <= 0 /\ Len(merged) > 1
  /\ step = "work" \/ Returned => start = Len(merged) + 1

\* The array is the one of the call, the pool that of its runs so far.
THEOREM CallsAreArranged == Spec => [](ArrayInv /\ PoolInv)
<1> USE WorkManagerAssumption, RequestsAssumption
<1>1. Init => ArrayInv /\ PoolInv
  BY DEF Init, WorkManagerInit, ArrayInv, PoolInv, Analyzed, Returned
<1>2. Exact /\ ArrayInv /\ PoolInv /\ [Next]_vars => ArrayInv' /\ PoolInv'
  <2> SUFFICES ASSUME Exact, ArrayInv, PoolInv, [Next]_vars PROVE ArrayInv' /\ PoolInv'
    OBVIOUS
  <2>r. ASSUME program' = program, calls' = calls PROVE req' = req
    BY <2>r DEF req
  <2>h. ASSUME UNCHANGED <<merged, phase, original>>, req' = req, Analyzed' => Analyzed, step' # "sort"
        PROVE  ArrayInv'
    BY <2>h DEF ArrayInv
  <2>1. CASE Call
    <3>1. step = "idle" /\ step' = "merge" /\ listiopool' = listiopool
      BY <2>1 DEF Call
    <3> QED BY <3>1 DEF ArrayInv, PoolInv, Analyzed, Returned
  <2>2. CASE Merge
    <3>1. step = "merge" /\ start' = 1 /\ UNCHANGED wmVars /\ req' = req
      BY <2>2, <2>r DEF Merge
    <3>2. listiopool = <<>> /\ listiopool' = listiopool
      BY <3>1 DEF PoolInv, wmVars
    <3>3. \/ /\ req.prms.merge_type = "ALL" /\ original' = MergedArgs(req)
             /\ step' = IF phase' = "sorted" THEN "analyze" ELSE "sort"
          \/ req.prms.merge_type = "MEM" /\ merged' = MergedArgs(req) /\ step' = "analyze"
      BY <2>2 DEF Merge, StartSort
    <3>4. ArrayInv'
      BY <3>1, <3>3 DEF ArrayInv, Analyzed, Returned
    <3>5. PoolInv'
      BY <3>1, <3>2, <3>3 DEF PoolInv, Returned
    <3> QED BY <3>4, <3>5
  <2>3. CASE Sort
    <3>1. /\ step = "sort" /\ step' = IF phase' = "sorted" THEN "analyze" ELSE "sort"
          /\ UNCHANGED wmVars /\ start' = start /\ req' = req /\ original' = original
      BY <2>3, <2>r DEF Sort, SortStep, PickParent, Extract, Sorted, SiftDown, PutBack, TakeOut
    <3>2. listiopool = <<>> /\ listiopool' = listiopool
      BY <3>1 DEF PoolInv, wmVars
    <3>3. ArrayInv'
      BY <3>1 DEF ArrayInv, Analyzed, Returned
    <3>4. PoolInv'
      BY <3>1, <3>2 DEF PoolInv, Returned
    <3> QED BY <3>3, <3>4
  <2>4. CASE HandOverAll \/ HandOverRun
    <3>1. PICK at \in Nat, len \in Nat, off \in Nat,
               signal \in {"CONTINUE", "CONTIG_FILE_BLOCK", "FINISH", "CONTIG_AND_FINISH"} :
            /\ WorkManager(req.prms, at, len, off, signal)
            /\ step = "analyze" /\ step' # "idle"
      BY <2>4, HandsOver
    <3>2. Len(listiopool') > 0
      <4>1. listiopool \in Seq(BlockType) /\ Len(listiopool) \in Nat
        BY PoolType DEF Exact, TypeOK
      <4>2. listiopool' = AddToListiopool(at, len,
                            IF req.prms.merge_type = "MEM" THEN Start(req.prms) ELSE off, signal)
        BY <3>1 DEF WorkManager
      <4>3. \A b : Len(Append(listiopool, b)) > 0
        BY <4>1
      <4>4. ASSUME Len(listiopool) > 0, NEW b
            PROVE  Len([listiopool EXCEPT ![Len(listiopool)].iov = b]) > 0
        BY <4>1, <4>4
      <4> QED BY <4>2, <4>3, <4>4 DEF AddToListiopool
    <3>3. /\ UNCHANGED heapVars /\ req' = req /\ merged' = merged
          /\ UNCHANGED <<merged, phase, original>>
      BY <2>4, <2>r DEF HandOverAll, HandOverRun, heapVars
    <3>4. ArrayInv'
      <4>1. step' \in {"work", "analyze"}
        BY <2>4 DEF HandOverAll, HandOverRun
      <4> QED BY <2>h, <3>1, <3>3, <4>1 DEF Analyzed
    <3>5. PoolInv'
      <4>1. CASE HandOverAll
        BY <3>3, <4>1 DEF HandOverAll, PoolInv, Returned
      <4>2. CASE HandOverRun
        <5>1. /\ start' = BufRunEnd + 1 /\ step' = IF BufRunEnd = Len(merged) THEN "work" ELSE "analyze"
              /\ Len(merged) > 1 /\ req.hint <= 0
          BY <4>2 DEF HandOverRun
        <5>2. BufRunEnd \in 1..Len(merged)
          BY <3>1, RunFacts DEF Exact, CallInv
        <5>3. start' # 1
          BY <5>1, <5>2
        <5> HIDE DEF BufRunEnd
        <5> QED BY <3>2, <3>3, <5>1, <5>3 DEF PoolInv, Returned
      <4> QED BY <2>4, <4>1, <4>2
    <3> QED BY <3>4, <3>5
  <2>5. ASSUME NEW t \in Active, Work(t) PROVE ArrayInv' /\ PoolInv'
    <3>1. PICK k \in DOMAIN listiopool : Transfer(t, k, BytesOf(listiopool[k]))
      BY <2>5 DEF Work
    <3>2. /\ UNCHANGED <<merged, phase, original>> /\ req' = req /\ step' = step /\ start' = start
          /\ calls' = calls
      BY <2>5, <2>r DEF Work, heapVars
    <3>3. listiopool # <<>> /\ Len(listiopool') = Len(listiopool)
      <4>1. DOMAIN listiopool' = DOMAIN listiopool /\ listiopool' \in Seq(BlockType)
        BY <3>1, Taken DEF Exact, TypeOK
      <4>2. listiopool \in Seq(BlockType)
        BY PoolType DEF Exact, TypeOK
      <4> QED BY <4>1, <4>2
    <3>4. step # "sort"
      BY <3>3 DEF PoolInv
    <3>5. ArrayInv'
      BY <2>h, <3>2, <3>4 DEF Analyzed, Returned
    <3>6. PoolInv'
      BY <3>2, <3>3 DEF PoolInv, Returned
    <3> QED BY <3>5, <3>6
  <2>6. CASE Return
    <3>1. /\ step = "work" /\ step' = "idle" /\ listiopool' = <<>> /\ start' = start
          /\ UNCHANGED <<merged, phase, original>> /\ req' = req
      BY <2>6, <2>r DEF Return, FreePool, heapVars
    <3>2. ArrayInv'
      BY <2>h, <3>1 DEF Analyzed
    <3>3. PoolInv'
      BY <3>1 DEF PoolInv
    <3> QED BY <3>2, <3>3
  <2>7. CASE UNCHANGED vars
    <3>1. /\ step' = step /\ listiopool' = listiopool /\ start' = start /\ calls' = calls
          /\ UNCHANGED <<merged, phase, original>> /\ req' = req
      BY <2>7, <2>r DEF vars, wmVars, heapVars
    <3>2. ArrayInv'
      BY <3>1 DEF ArrayInv, Analyzed, Returned
    <3>3. PoolInv'
      BY <3>1 DEF PoolInv, Returned
    <3> QED BY <3>2, <3>3
  <2> QED BY <2>1, <2>2, <2>3, <2>4, <2>5, <2>6, <2>7 DEF Next, Terminating
<1> QED BY <1>1, <1>2, CallsAreExact, PTL DEF Spec

\* The request, for the hypotheses about the programs.
LEMMA RequestMade ==
  ASSUME RequestsAssumption, Exact
  PROVE  /\ program \in Programs /\ \E k \in DOMAIN program : req = program[k]
         /\ EvenRuns /\ req.hint <= 0 =>
              \A a \in Arranged(req) : \A n \in 2..(Len(a) - 1) :
                Joined(req, a, n - 1) /\ Joined(req, a, n) => a[n].buflen = a[n - 1].buflen
         /\ HintsHold /\ req.hint > 0 =>
              \A a \in Arranged(req) : \A n \in 1..(Len(a) - 1) : Joined(req, a, n)
<1> DEFINE k == IF calls = 0 THEN 1 ELSE calls
<1>1. program \in Programs /\ k \in DOMAIN program
  <2>1. program \in Seq(Requests) /\ Len(program) \in Nat \ {0} /\ calls \in 0..Len(program)
    BY RequestType DEF Exact, TypeOK
  <2> QED BY <2>1 DEF Exact, CallInv
<1>2. req = program[k]
  BY DEF req
<1> HIDE DEF k
<1> QED BY <1>1, <1>2 DEF EvenRuns, HintsHold

\* merged is what is asked for, in an order in which it may be analyzed.
LEMMA MergedArranged ==
  ASSUME RequestsAssumption, Exact, ArrayInv, Analyzed
  PROVE  merged \in Arranged(req) /\ merged \in Seq(ThreadArg)
<1>1. merged \in Seq(ThreadArg)
  BY DEF Exact, TypeOK, HeapTypeOK
<1>2. CASE req.prms.merge_type = "ALL"
  <2>1. phase = "sorted" /\ original = MergedArgs(req)
    BY <1>2 DEF ArrayInv
  <2>2. Filled = merged
    BY <2>1 DEF Filled
  <2>3. InOrder(merged) /\ Rearranged(merged, original)
    BY <2>1, <2>2 DEF Exact, HeapInv
  <2> QED BY <1>1, <1>2, <2>1, <2>3 DEF Arranged
<1>3. CASE req.prms.merge_type # "ALL"
  BY <1>1, <1>3 DEF ArrayInv, Arranged
<1> QED BY <1>1, <1>2, <1>3

\* The buffers of a run are joined, and the last one not to the next.
LEMMA RunJoined ==
  ASSUME RequestsAssumption, Exact, step = "analyze"
  PROVE  /\ BufRunEnd \in start..Len(merged) /\ start \in 1..Len(merged)
         /\ \A n \in start..(BufRunEnd - 1) : Joined(req, merged, n)
         /\ BufRunEnd < Len(merged) => ~Joined(req, merged, BufRunEnd)
<1> DEFINE N == Len(merged)
<1>1. N \in Nat /\ start \in 1..N /\ start \in Nat /\ start <= N
  BY DEF Exact, TypeOK, HeapTypeOK, CallInv
<1>2. FileRunEnd \in start..N /\ BufRunEnd \in start..FileRunEnd
  BY <1>1, RunFacts DEF Exact
<1>3. /\ BufRunEnd = FileRunEnd \/ BufRunEnd \notin JoinsNext
      /\ \A n \in start..(BufRunEnd - 1) : n \in JoinsNext
  <2>1. FileRunEnd \in Nat /\ start <= FileRunEnd
    BY <1>1, <1>2
  <2> HIDE DEF FileRunEnd, JoinsNext
  <2> QED BY <1>1, <2>1, RunEndFacts DEF BufRunEnd
<1>4. req.prms.merge_type = "ALL" =>
        /\ FileRunEnd = N \/ FileRunEnd \notin JoinsNextInFile
        /\ \A n \in start..(FileRunEnd - 1) : n \in JoinsNextInFile
  BY <1>1, RunEndFacts DEF FileRunEnd
<1>5. req.prms.merge_type # "ALL" => FileRunEnd = N
  BY DEF FileRunEnd
<1> HIDE DEF FileRunEnd, BufRunEnd, N
<1>6. \A n \in start..(BufRunEnd - 1) : Joined(req, merged, n)
  <2> SUFFICES ASSUME NEW n \in start..(BufRunEnd - 1) PROVE Joined(req, merged, n)
    OBVIOUS
  <2>1. n \in start..(FileRunEnd - 1)
    BY <1>1, <1>2
  <2>2. n \in JoinsNext /\ (req.prms.merge_type = "ALL" => n \in JoinsNextInFile)
    BY <1>3, <1>4, <2>1
  <2> QED BY <2>2 DEF Joined, JoinsNext, JoinsNextInFile
<1>7. ASSUME BufRunEnd < N PROVE ~Joined(req, merged, BufRunEnd)
  <2>1. BufRunEnd \in 1..(N - 1)
    BY <1>1, <1>2, <1>7
  <2>2. CASE BufRunEnd \notin JoinsNext
    BY <2>1, <2>2 DEF Joined, JoinsNext, N
  <2>3. CASE BufRunEnd = FileRunEnd
    <3>1. req.prms.merge_type = "ALL" /\ BufRunEnd \notin JoinsNextInFile
      BY <1>1, <1>2, <1>4, <1>5, <1>7, <2>3
    <3> QED BY <2>1, <3>1 DEF Joined, JoinsNextInFile, N
  <2> QED BY <1>3, <2>2, <2>3
<1> QED BY <1>1, <1>2, <1>6, <1>7 DEF N

\* Buffers that are joined lie as far apart as their extents say, in memory and, if
\* they have offsets, in the file.
LEMMA JoinedExtents ==
  ASSUME NEW a \in Seq(ThreadArg), NEW r, NEW from \in 1..Len(a), NEW to \in from..Len(a),
         \A n \in from..(to - 1) : Joined(r, a, n)
  PROVE  /\ \A n \in from..to :
              a[n].bufptr = a[from].bufptr + Extent(a, n - 1) - Extent(a, from - 1)
         /\ r.prms.merge_type = "ALL" =>
              \A n \in from..to :
                a[n].offset = a[from].offset + Extent(a, n - 1) - Extent(a, from - 1)
<1>1. /\ Len(a) \in Nat /\ from \in Nat /\ to \in Nat
      /\ \A n \in 1..Len(a) : a[n].bufptr \in Nat /\ a[n].buflen \in Nat /\ a[n].offset \in Nat
      /\ \A n \in from..(to - 1) : n \in 1..Len(a) /\ n + 1 \in 1..Len(a)
      /\ \A n \in from..to : n \in 1..Len(a)
  BY ExtentSteps
<1>2. \A n \in from..to : a[n].bufptr = a[from].bufptr + Extent(a, n - 1) - Extent(a, from - 1)
  <2> DEFINE g == [n \in 1..Len(a) |-> a[n].bufptr]
  <2>1. g \in [1..Len(a) -> Nat]
    BY <1>1
  <2>2. \A n \in from..(to - 1) : g[n] + a[n].buflen = g[n + 1]
    BY <1>1 DEF Joined, Adjacent
  <2>3. \A n \in from..to : g[n] = a[n].bufptr
    BY <1>1
  <2>4. g[from] = a[from].bufptr
    OBVIOUS
  <2> HIDE DEF g
  <2>5. \A n \in from..to : g[n] = g[from] + Extent(a, n - 1) - Extent(a, from - 1)
    BY <2>1, <2>2, ChainExtents
  <2> QED BY <2>3, <2>4, <2>5
<1>3. ASSUME r.prms.merge_type = "ALL"
      PROVE  \A n \in from..to : a[n].offset = a[from].offset + Extent(a, n - 1) - Extent(a, from - 1)
  <2> DEFINE g == [n \in 1..Len(a) |-> a[n].offset]
  <2>1. g \in [1..Len(a) -> Nat]
    BY <1>1
  <2>2. \A n \in from..(to - 1) : g[n] + a[n].buflen = g[n + 1]
    BY <1>1, <1>3 DEF Joined, AdjacentInFile
  <2>3. \A n \in from..to : g[n] = a[n].offset
    BY <1>1
  <2>4. g[from] = a[from].offset
    OBVIOUS
  <2> HIDE DEF g
  <2>5. \A n \in from..to : g[n] = g[from] + Extent(a, n - 1) - Extent(a, from - 1)
    BY <2>1, <2>2, ChainExtents
  <2> QED BY <2>3, <2>4, <2>5
<1> QED BY <1>2, <1>3

\* The length that is computed for a run is that of its buffers.
LEMMA RunExtent ==
  ASSUME RequestsAssumption, Exact, ArrayInv, EvenRuns, step = "analyze", req.hint <= 0
  PROVE  RunLength = Extent(merged, BufRunEnd) - Extent(merged, start - 1)
<1>1. /\ merged \in Arranged(req) /\ merged \in Seq(ThreadArg) /\ Len(merged) \in Nat
      /\ BufRunEnd \in start..Len(merged) /\ start \in 1..Len(merged)
      /\ \A n \in start..(BufRunEnd - 1) : Joined(req, merged, n)
  BY MergedArranged, RunJoined DEF Analyzed
<1>2. \A n \in 2..(Len(merged) - 1) :
        Joined(req, merged, n - 1) /\ Joined(req, merged, n) =>
          merged[n].buflen = merged[n - 1].buflen
  BY <1>1, RequestMade
<1> DEFINE to == BufRunEnd
<1> HIDE DEF to
<1>3. \A n \in (start + 1)..(to - 1) : merged[n].buflen = merged[n - 1].buflen
  <2> SUFFICES ASSUME NEW n \in (start + 1)..(to - 1) PROVE merged[n].buflen = merged[n - 1].buflen
    OBVIOUS
  <2>1. n \in 2..(Len(merged) - 1) /\ n \in start..(to - 1) /\ n - 1 \in start..(to - 1)
    BY <1>1 DEF to
  <2> QED BY <1>1, <1>2, <2>1 DEF to
<1>4. (to - start) * merged[start].buflen + merged[to].buflen
        = Extent(merged, to) - Extent(merged, start - 1)
  BY <1>1, <1>3, EvenExtent DEF to
<1> QED BY <1>4 DEF to, RunLength

\* What is handed over at once has not been begun before.
LEMMA HintOrSingle ==
  ASSUME RequestsAssumption, Exact, PoolInv, HandOverAll PROVE start = 1
<1>1. req.hint \in Int
  BY RequestType DEF Exact, Requests
<1>2. step = "analyze" /\ (Len(merged) = 1 \/ req.hint > 0)
  BY DEF HandOverAll
<1>3. start \in 1..Len(merged) /\ start \in Nat /\ Len(merged) \in Nat
  BY <1>2 DEF Exact, TypeOK, HeapTypeOK, CallInv
<1>4. start > 1 => req.hint <= 0 /\ Len(merged) > 1
  BY <1>2 DEF PoolInv
<1>5. \A h \in Int : ~(h > 0 /\ h <= 0) /\ ~(h = 1 /\ h > 1)
  OBVIOUS
<1>6. ~(req.hint > 0 /\ req.hint <= 0)
  BY <1>1, <1>5
<1>7. ~(Len(merged) = 1 /\ Len(merged) > 1)
  <2>1. Len(merged) \in Int
    BY <1>3
  <2> QED BY <1>5, <2>1, Zenon
<1>8. ~(start > 1)
  BY <1>2, <1>4, <1>6, <1>7, Zenon
<1> QED BY <1>3, <1>8

\* A run that goes to the open block is followed in the file by a buffer that is
\* elsewhere in memory.
LEMMA RunStranded ==
  ASSUME RequestsAssumption, Exact, step = "analyze", req.hint <= 0,
         RunSignal = "CONTIG_FILE_BLOCK"
  PROVE  \A n \in start..BufRunEnd : Stranded(req, merged, n)
<1> DEFINE N == Len(merged)
<1>1. N \in Nat /\ start \in 1..N /\ start \in Nat /\ start <= N
  BY DEF Exact, TypeOK, HeapTypeOK, CallInv
<1>2. FileRunEnd \in start..N /\ BufRunEnd \in start..FileRunEnd
  BY <1>1, RunFacts DEF Exact
<1>3. BufRunEnd < FileRunEnd /\ req.prms.input_type # "BUF"
  BY DEF RunSignal
<1>4. BufRunEnd = FileRunEnd \/ BufRunEnd \notin JoinsNext
  <2>1. FileRunEnd \in Nat /\ start <= FileRunEnd
    BY <1>1, <1>2
  <2> HIDE DEF FileRunEnd, JoinsNext
  <2> QED BY <1>1, <2>1, RunEndFacts DEF BufRunEnd
<1>5. req.prms.merge_type = "ALL" => \A n \in start..(FileRunEnd - 1) : n \in JoinsNextInFile
  BY <1>1, RunEndFacts DEF FileRunEnd
<1>6. req.prms.input_type = "LIST"
  BY <1>3, InputTypes DEF Exact
<1> HIDE DEF FileRunEnd, BufRunEnd, N
<1>7. BufRunEnd \in 1..(N - 1) /\ BufRunEnd # FileRunEnd
  BY <1>1, <1>2, <1>3
<1>8. ~Adjacent(merged[BufRunEnd], merged[BufRunEnd + 1])
  BY <1>4, <1>7 DEF JoinsNext, N
<1>9. ASSUME NEW n \in start..BufRunEnd PROVE Stranded(req, merged, n)
  <2>1. BufRunEnd \in n..(N - 1)
    BY <1>1, <1>2, <1>7
  <2>2. ASSUME NEW x \in n..BufRunEnd PROVE FollowsInFile(req, merged[x], merged[x + 1])
    <3>1. x \in start..(FileRunEnd - 1)
      BY <1>1, <1>2, <1>3
    <3> QED BY <1>5, <3>1 DEF FollowsInFile, JoinsNextInFile
  <2> QED BY <1>6, <1>8, <2>1, <2>2 DEF Stranded, N
<1> QED BY <1>9

\* HandOverAll and HandOverRun hand over the buffers from `start` to some `to`,
\* no more than are joined and, unless the caller's hint is followed, no fewer.
LEMMA HandedOver ==
  ASSUME RequestsAssumption, Exact, ArrayInv, PoolInv, EvenRuns, HandOverAll \/ HandOverRun
  PROVE  \E to \in start..Len(merged),
            signal \in {"CONTINUE", "CONTIG_FILE_BLOCK", "FINISH", "CONTIG_AND_FINISH"} :
           /\ WorkManager(req.prms, merged[start].bufptr,
                          Extent(merged, to) - Extent(merged, start - 1),
                          merged[start].offset, signal)
           /\ HintsHold \/ to < Len(merged) => \A n \in start..(to - 1) : Joined(req, merged, n)
           /\ to < Len(merged) => ~Joined(req, merged, to)
           /\ start' = to + 1
           /\ step' = IF to = Len(merged) THEN "work" ELSE "analyze"
           /\ signal = "CONTIG_FILE_BLOCK" => \A n \in start..to : Stranded(req, merged, n)
<1>1. step = "analyze"
  BY DEF HandOverAll, HandOverRun
<1>2. /\ merged \in Arranged(req) /\ merged \in Seq(ThreadArg) /\ Len(merged) \in Nat
      /\ BufRunEnd \in start..Len(merged) /\ start \in 1..Len(merged)
      /\ \A n \in start..(BufRunEnd - 1) : Joined(req, merged, n)
      /\ BufRunEnd < Len(merged) => ~Joined(req, merged, BufRunEnd)
  BY <1>1, MergedArranged, RunJoined DEF Analyzed
<1>3. CASE HandOverAll
  <2> DEFINE N == Len(merged)
  <2>1. /\ Len(merged) = 1 \/ req.hint > 0
        /\ WorkManager(req.prms, merged[1].bufptr, SumOfLengths(merged), merged[1].offset, "FINISH")
        /\ step' = "work" /\ start' = N + 1
    BY <1>3 DEF HandOverAll
  <2>2. start = 1
    BY <1>3, HintOrSingle
  <2>3. SumOfLengths(merged) = Extent(merged, N) - Extent(merged, start - 1)
    <3>1. /\ Extent(merged, 0) = 0 /\ Extent(merged, N) \in Nat
          /\ Extent(merged, N) = SumOfLengths(merged)
      BY <1>2, ExtentSteps
    <3>2. start - 1 = 0
      BY <2>2
    <3> QED BY <3>1, <3>2
  <2>4. HintsHold => \A n \in start..(N - 1) : Joined(req, merged, n)
    <3>1. CASE N = 1
      BY <2>2, <3>1
    <3>2. CASE N # 1
      BY <1>2, <2>1, <2>2, <3>2, RequestMade
    <3> QED BY <3>1, <3>2
  <2>5. N \in start..Len(merged) /\ ~(N < Len(merged))
    BY <1>2
  <2>6. WorkManager(req.prms, merged[start].bufptr, Extent(merged, N) - Extent(merged, start - 1),
                    merged[start].offset, "FINISH")
    BY <2>1, <2>2, <2>3
  <2>7. step' = IF N = Len(merged) THEN "work" ELSE "analyze"
    BY <2>1
  <2> HIDE DEF N
  <2>8. HintsHold \/ N < Len(merged) => \A n \in start..(N - 1) : Joined(req, merged, n)
    BY <2>4, <2>5
  <2> QED BY <2>1, <2>5, <2>6, <2>7, <2>8
<1>4. CASE HandOverRun
  <2> DEFINE to == BufRunEnd
  <2>1. /\ Len(merged) > 1 /\ req.hint <= 0
        /\ WorkManager(req.prms, merged[start].bufptr, RunLength, merged[start].offset, RunSignal)
        /\ start' = to + 1 /\ step' = IF to = Len(merged) THEN "work" ELSE "analyze"
    BY <1>4 DEF HandOverRun
  <2>2. RunLength = Extent(merged, to) - Extent(merged, start - 1)
    BY <1>1, <2>1, RunExtent
  <2>3. RunSignal \in {"CONTINUE", "CONTIG_FILE_BLOCK", "FINISH", "CONTIG_AND_FINISH"}
    BY DEF RunSignal
  <2>4. RunSignal = "CONTIG_FILE_BLOCK" => \A n \in start..to : Stranded(req, merged, n)
    BY <1>1, <2>1, RunStranded
  <2>5. WorkManager(req.prms, merged[start].bufptr, Extent(merged, to) - Extent(merged, start - 1),
                    merged[start].offset, RunSignal)
    BY <2>1, <2>2
  <2>6. /\ to \in start..Len(merged)
        /\ \A n \in start..(to - 1) : Joined(req, merged, n)
        /\ to < Len(merged) => ~Joined(req, merged, to)
    BY <1>2
  <2> HIDE DEF to, RunSignal
  <2> QED BY <2>1, <2>3, <2>4, <2>5, <2>6
<1> QED BY <1>3, <1>4

-----------------------------------------------------------------------------
(* The implicit offset *)

\* The next run goes where the runs before it end; until the first, the offset
\* is taken from the descriptor, which only a transfer can move.
OffsetInv ==
  req.prms.merge_type = "MEM" =>
    /\ step = "merge" \/ (step = "analyze" /\ start = 1) => base = Start(req.prms)
    /\ step = "analyze" /\ start > 1 => internal_offset = base + Extent(merged, start - 1)
    /\ step = "work" \/ Returned => internal_offset = base + Extent(merged, Len(merged))

\* Transfers and returns leave it alone, and everything it depends on.
LEMMA OffsetKept ==
  ASSUME OffsetInv, step # "idle", step' = step \/ (step = "work" /\ step' = "idle"), req' = req,
         UNCHANGED <<merged, start, base, internal_offset>>,
         step \in {"merge", "analyze"} /\ (start = 1 \/ step = "merge") => position' = position
  PROVE  OffsetInv'
<1> USE DEF OffsetInv
<1>1. ASSUME req.prms.merge_type = "MEM", step = "merge" \/ (step = "analyze" /\ start = 1)
      PROVE  base' = Start(req.prms)'
  BY <1>1 DEF Start
<1>2. Extent(merged, start - 1)' = Extent(merged, start - 1)
      /\ Extent(merged, Len(merged))' = Extent(merged, Len(merged))
  OBVIOUS
<1> QED BY <1>1, <1>2 DEF Returned

\* The implicit offset of the next run.
LEMMA NextOffset ==
  ASSUME Exact, OffsetInv, step = "analyze", req.prms.merge_type = "MEM"
  PROVE  Start(req.prms) = base + Extent(merged, start - 1)
<1>1. /\ start \in 1..Len(merged) /\ Len(merged) \in Nat /\ base \in Nat /\ merged \in Seq(ThreadArg)
      /\ internal_offset \in Nat \cup {-1}
  BY DEF Exact, TypeOK, HeapTypeOK, CallInv, WorkManagerTypeOK
<1>2. Extent(merged, start - 1) \in Nat /\ Extent(merged, 0) = 0
  <2>1. start - 1 \in 0..Len(merged)
    BY <1>1
  <2> QED BY <1>1, <2>1, ExtentSteps
<1>3. CASE start = 1
  <2>1. start - 1 = 0
    BY <1>3
  <2>2. base = Start(req.prms)
    BY <1>3 DEF OffsetInv
  <2>3. Extent(merged, start - 1) = 0
    BY <1>2, <2>1
  <2> HIDE DEF Start
  <2> QED BY <1>1, <2>2, <2>3
<1>4. CASE start # 1
  <2>1. internal_offset = base + Extent(merged, start - 1)
    BY <1>1, <1>4 DEF OffsetInv
  <2>2. internal_offset # -1
    BY <1>1, <1>2, <2>1
  <2> QED BY <2>1, <2>2 DEF Start
<1> QED BY <1>3, <1>4

\* A run is handed over with the offset that follows on the runs before it, if
\* the buffers of a run have one length.
THEOREM OffsetsFollow == ASSUME EvenRuns PROVE Spec => []OffsetInv
<1> USE WorkManagerAssumption, RequestsAssumption
<1> DEFINE Before == Exact /\ ArrayInv /\ PoolInv
<1>1. Init => OffsetInv
  BY DEF Init, OffsetInv, Returned
<1>2. Before /\ OffsetInv /\ [Next]_vars => OffsetInv'
  <2> SUFFICES ASSUME Exact, ArrayInv, PoolInv, OffsetInv, [Next]_vars PROVE OffsetInv'
    OBVIOUS
  <2>r. ASSUME program' = program, calls' = calls PROVE req' = req
    BY <2>r DEF req
  <2>1. CASE Call
    <3>1. step' = "merge" /\ req' = program[calls + 1]
      <4>1. calls \in Nat /\ calls' = calls + 1 /\ program' = program
        BY <2>1, RequestType DEF Exact, TypeOK, Call
      <4>2. calls' # 0
        BY <4>1
      <4> QED BY <2>1, <4>1, <4>2 DEF req, Call
    <3>2. base' = Start(program[calls + 1].prms) /\ internal_offset' = internal_offset
          /\ position' = position
      BY <2>1 DEF Call
    <3>3. base' = Start(req.prms)'
      BY <3>1, <3>2 DEF Start
    <3> QED BY <3>1, <3>3 DEF OffsetInv, Returned
  <2>2. CASE Merge
    <3>1. /\ step = "merge" /\ start' = 1 /\ base' = base /\ step' \in {"sort", "analyze"}
          /\ internal_offset' = internal_offset /\ position' = position /\ req' = req
      BY <2>2, <2>r DEF Merge, wmVars
    <3>2. Start(req.prms)' = Start(req.prms)
      BY <3>1 DEF Start
    <3> QED BY <3>1, <3>2 DEF OffsetInv, Returned
  <2>3. CASE Sort
    <3>1. step = "sort" /\ req' = req
      BY <2>3, <2>r DEF Sort
    <3>2. req'.prms.merge_type = "ALL"
      BY <3>1 DEF ArrayInv
    <3> QED BY <3>2 DEF OffsetInv
  <2>4. CASE HandOverAll \/ HandOverRun
    <3>1. PICK to \in start..Len(merged),
               signal \in {"CONTINUE", "CONTIG_FILE_BLOCK", "FINISH", "CONTIG_AND_FINISH"} :
            /\ WorkManager(req.prms, merged[start].bufptr,
                           Extent(merged, to) - Extent(merged, start - 1),
                           merged[start].offset, signal)
            /\ start' = to + 1 /\ step' = IF to = Len(merged) THEN "work" ELSE "analyze"
      BY <2>4, HandedOver
    <3>2. /\ step = "analyze" /\ merged' = merged /\ base' = base /\ req' = req
      BY <2>4, <2>r DEF HandOverAll, HandOverRun, heapVars
    <3>3. /\ start \in 1..Len(merged) /\ Len(merged) \in Nat /\ base \in Nat /\ merged \in Seq(ThreadArg)
          /\ internal_offset \in Nat \cup {-1}
      BY <3>2 DEF Exact, TypeOK, HeapTypeOK, CallInv, WorkManagerTypeOK
    <3> SUFFICES ASSUME req.prms.merge_type = "MEM"
                 PROVE  internal_offset' = base + Extent(merged, to)
      <4>1. to \in Nat /\ start' - 1 = to /\ start' # 1
        BY <3>1, <3>3
      <4>2. Extent(merged, start - 1)' = Extent(merged, to)
            /\ Extent(merged, Len(merged))' = Extent(merged, Len(merged))
        BY <3>2, <4>1
      <4> QED BY <3>1, <3>2, <4>1, <4>2 DEF OffsetInv, Returned
    <3>4. /\ Extent(merged, start - 1) \in Nat /\ Extent(merged, to) \in Nat /\ Extent(merged, 0) = 0
      <4>1. start - 1 \in 0..Len(merged) /\ to \in 0..Len(merged)
        BY <3>3
      <4> QED BY <3>3, <4>1, ExtentSteps
    <3>5. Start(req.prms) = base + Extent(merged, start - 1)
      BY <3>2, NextOffset
    <3>6. internal_offset' = Start(req.prms) + (Extent(merged, to) - Extent(merged, start - 1))
      BY <3>1 DEF WorkManager, OffsetAfter
    <3> DEFINE e == Extent(merged, to)
               f == Extent(merged, start - 1)
    <3>7. internal_offset' = (base + f) + (e - f) /\ e \in Nat /\ f \in Nat
      BY <3>4, <3>5, <3>6
    <3> HIDE DEF e, f
    <3>8. internal_offset' = base + e
      BY <3>3, <3>7
    <3> QED BY <3>8 DEF e
  <2>5. ASSUME NEW t \in Active, Work(t) PROVE OffsetInv'
    <3>1. PICK k \in DOMAIN listiopool : Transfer(t, k, BytesOf(listiopool[k]))
      BY <2>5 DEF Work
    <3>2. /\ UNCHANGED <<merged, start, base, internal_offset>> /\ req' = req /\ step' = step
      BY <2>5, <2>r, <3>1 DEF Work, heapVars, Transfer
    <3>3. listiopool # <<>>
      OBVIOUS
    <3>4. ~(step \in {"idle", "merge", "sort"}) /\ ~(step = "analyze" /\ start = 1)
      BY <3>3 DEF PoolInv
    <3> QED BY <3>2, <3>4, OffsetKept
  <2>6. CASE Return
    <3>1. /\ step = "work" /\ step' = "idle" /\ req' = req
          /\ UNCHANGED <<merged, start, base, internal_offset>>
      BY <2>6, <2>r DEF Return, FreePool, heapVars
    <3> QED BY <3>1, OffsetKept
  <2>7. CASE UNCHANGED vars
    <3>1. /\ step' = step /\ req' = req /\ calls' = calls
          /\ UNCHANGED <<merged, start, base, internal_offset, position>>
      BY <2>7, <2>r DEF vars, wmVars, heapVars
    <3>2. Start(req.prms)' = Start(req.prms)
      BY <3>1 DEF Start
    <3>3. Extent(merged, start - 1)' = Extent(merged, start - 1)
          /\ Extent(merged, Len(merged))' = Extent(merged, Len(merged))
      BY <3>1
    <3> QED BY <3>1, <3>2, <3>3 DEF OffsetInv, Returned
  <2> QED BY <2>1, <2>2, <2>3, <2>4, <2>5, <2>6, <2>7 DEF Next, Terminating
<1>3. Exact /\ ArrayInv /\ PoolInv => Before
  OBVIOUS
<1> HIDE DEF Before
<1> QED BY <1>1, <1>2, <1>3, CallsAreExact, CallsAreArranged, PTL DEF Spec

\* A call with explicit offsets finds the implicit one and leaves it as it is.
KeptInv == calls > 0 /\ req.prms.merge_type = "ALL" => internal_offset \in {-1, base}

THEOREM ExplicitCallsKeepOffset == Spec => []KeptInv
<1> USE RequestsAssumption
<1>1. Init => KeptInv
  BY DEF Init, KeptInv
<1>2. Exact /\ KeptInv /\ [Next]_vars => KeptInv'
  <2> SUFFICES ASSUME Exact, KeptInv, [Next]_vars PROVE KeptInv'
    OBVIOUS
  <2>r. ASSUME program' = program, calls' = calls PROVE req' = req
    BY <2>r DEF req
  <2>k. ASSUME UNCHANGED <<program, calls, base, internal_offset>> PROVE KeptInv'
    BY <2>k, <2>r DEF KeptInv
  <2>1. CASE Call
    <3>1. /\ calls \in Nat /\ calls' = calls + 1 /\ program' = program
          /\ base' = Start(program[calls + 1].prms) /\ internal_offset' = internal_offset
      BY <2>1, RequestType DEF Exact, TypeOK, Call
    <3>2. base' = internal_offset \/ internal_offset = -1
      BY <3>1 DEF Start
    <3> QED BY <3>1, <3>2 DEF KeptInv
  <2>2. CASE Merge \/ Sort
    BY <2>2, <2>k DEF Merge, Sort, wmVars
  <2>3. CASE HandOverAll \/ HandOverRun
    <3>1. UNCHANGED <<program, calls, base>>
      BY <2>3 DEF HandOverAll, HandOverRun
    <3>2. req.prms.merge_type # "MEM" => internal_offset' = internal_offset
      BY <2>3 DEF HandOverAll, HandOverRun, WorkManager
    <3> QED BY <3>1, <3>2, <2>r DEF KeptInv
  <2>4. ASSUME NEW t \in Active, Work(t) PROVE KeptInv'
    BY <2>4, <2>k DEF Work, Transfer
  <2>5. CASE Return
    BY <2>5, <2>k DEF Return, FreePool
  <2>6. CASE UNCHANGED vars
    BY <2>6, <2>k DEF vars, wmVars
  <2> QED BY <2>1, <2>2, <2>3, <2>4, <2>5, <2>6 DEF Next, Terminating
<1> QED BY <1>1, <1>2, CallsAreExact, PTL DEF Spec

\* The next implicit offset lies behind the data of this call, wherever its runs
\* end; a call with explicit offsets does not disturb it.
THEOREM OffsetFollowsDataHolds == ASSUME EvenRuns PROVE Spec => []OffsetFollowsData
<1> USE RequestsAssumption
<1>1. Exact /\ ArrayInv /\ PoolInv /\ OffsetInv /\ KeptInv => OffsetFollowsData
  <2> SUFFICES ASSUME Exact, ArrayInv, PoolInv, OffsetInv, KeptInv, Returned
               PROVE  OffsetFollowsData
    BY DEF OffsetFollowsData
  <2>1. CASE req.prms.merge_type = "MEM"
    <3>1. merged = MergedArgs(req)
      BY <2>1 DEF ArrayInv, Analyzed
    <3>2. Extent(merged, Len(merged)) = SumOfLengths(merged)
      BY MergedArranged, ExtentSteps DEF Analyzed
    <3>3. internal_offset = base + SumOfLengths(MergedArgs(req))
      BY <2>1, <3>1, <3>2 DEF OffsetInv
    <3> QED BY <2>1, <3>3 DEF OffsetFollowsData
  <2>2. CASE req.prms.merge_type = "ALL"
    <3>1. internal_offset \in {-1, base}
      BY <2>2 DEF KeptInv, Returned
    <3> QED BY <2>2, <3>1 DEF OffsetFollowsData
  <2> QED BY <2>1, <2>2, RequestType DEF Exact
<1> QED BY <1>1, CallsAreExact, CallsAreArranged, OffsetsFollow, ExplicitCallsKeepOffset, PTL

-----------------------------------------------------------------------------
(* Runs that could have been one *)

\* A signal that is not CONTIG_FILE_BLOCK makes a new block for nxt_slave.
LEMMA BlockAdded ==
  ASSUME WorkManagerAssumption, WorkManagerTypeOK, NEW p, NEW at \in Nat, NEW len \in Nat,
         NEW off \in Nat, NEW signal, signal # "CONTIG_FILE_BLOCK",
         WorkManager(p, at, len, off, signal)
  PROVE  /\ DOMAIN listiopool = 1..Len(listiopool) /\ Len(listiopool) \in Nat
         /\ DOMAIN listiopool' = 1..(Len(listiopool) + 1)
         /\ Len(listiopool') = Len(listiopool) + 1
         /\ \A k \in 1..Len(listiopool) : listiopool'[k] = listiopool[k]
         /\ listiopool'[Len(listiopool) + 1].offset = IF p.merge_type = "MEM" THEN Start(p) ELSE off
         /\ listiopool'[Len(listiopool) + 1].iov[1].iov_base = at
         /\ listiopool'[Len(listiopool) + 1].iov[1].iov_len = len
         /\ Len(listiopool'[Len(listiopool) + 1].iov) = 1
         /\ listiopool'[Len(listiopool) + 1].assigned_to # Nobody
<1> DEFINE o == IF p.merge_type = "MEM" THEN Start(p) ELSE off
           block == FileBlock(nxt_slave, at, len, o)
<1>1. /\ DOMAIN listiopool = 1..Len(listiopool) /\ Len(listiopool) \in Nat
      /\ listiopool \in Seq(BlockType) /\ nxt_slave \in Active /\ nxt_slave # Nobody
  BY PoolType, ThreadFacts DEF WorkManagerTypeOK
<1>2. o \in Nat
  BY StartType
<1>3. listiopool' = Append(listiopool, block)
  BY DEF WorkManager, AddToListiopool
<1> HIDE DEF o
<1>4. block \in BlockType
  BY <1>1, <1>2, FileBlockType
<1>5. /\ block.offset = o /\ block.iov[1].iov_base = at /\ block.iov[1].iov_len = len
      /\ Len(block.iov) = 1 /\ block.assigned_to # Nobody
  BY <1>1 DEF FileBlock, Iovec
<1> HIDE DEF block
<1>6. /\ DOMAIN listiopool' = 1..(Len(listiopool) + 1)
      /\ Len(listiopool') = Len(listiopool) + 1
      /\ \A k \in 1..Len(listiopool) : listiopool'[k] = listiopool[k]
      /\ listiopool'[Len(listiopool) + 1] = block
  BY <1>1, <1>3, <1>4
<1> QED BY <1>1, <1>5, <1>6 DEF o

\* While runs are left the last block ends where the last run does, and is not
\* continued there.
LastInv ==
  req.prms.input_type = "BUF" /\ step = "analyze" /\ start > 1 =>
    LET block == listiopool[Len(listiopool)]
        arg == merged[start - 1]
    IN  /\ block.iov[1].iov_base + block.iov[1].iov_len = arg.bufptr + arg.buflen
        /\ req.prms.merge_type = "ALL" =>
             block.offset + block.iov[1].iov_len = arg.offset + arg.buflen
        /\ ~Joined(req, merged, start - 1)

\* Neighbouring blocks of a call cannot be joined, if the buffers of a run have
\* one length.
THEOREM RunsAreMaximalHolds == ASSUME EvenRuns PROVE Spec => []RunsAreMaximal
<1> USE WorkManagerAssumption, RequestsAssumption
<1> DEFINE Before == Exact /\ ArrayInv /\ PoolInv
           Inv == RunsAreMaximal /\ LastInv
<1>1. Init => Inv
  BY DEF Init, WorkManagerInit, RunsAreMaximal, LastInv
<1>2. Before /\ Inv /\ [Next]_vars => Inv'
  <2> SUFFICES ASSUME Exact, ArrayInv, PoolInv, RunsAreMaximal, LastInv, [Next]_vars
               PROVE  RunsAreMaximal' /\ LastInv'
    OBVIOUS
  <2>r. ASSUME program' = program, calls' = calls PROVE req' = req
    BY <2>r DEF req
  <2>e. ASSUME listiopool' = <<>>, ~(step' = "analyze" /\ start' > 1)
        PROVE  RunsAreMaximal' /\ LastInv'
    BY <2>e DEF RunsAreMaximal, LastInv
  <2>1. CASE Call
    BY <2>1, <2>e DEF Call, PoolInv
  <2>2. CASE Merge
    BY <2>2, <2>e DEF Merge, PoolInv, wmVars
  <2>3. CASE Sort
    BY <2>3, <2>e DEF Sort, PoolInv, wmVars
  <2>4. CASE HandOverAll \/ HandOverRun
    <3> DEFINE n == Len(listiopool)
               len(to) == Extent(merged, to) - Extent(merged, start - 1)
    <3>1. PICK to \in start..Len(merged),
               signal \in {"CONTINUE", "CONTIG_FILE_BLOCK", "FINISH", "CONTIG_AND_FINISH"} :
            /\ WorkManager(req.prms, merged[start].bufptr, len(to), merged[start].offset, signal)
            /\ to < Len(merged) => \A x \in start..(to - 1) : Joined(req, merged, x)
            /\ to < Len(merged) => ~Joined(req, merged, to)
            /\ start' = to + 1
            /\ step' = IF to = Len(merged) THEN "work" ELSE "analyze"
            /\ signal = "CONTIG_FILE_BLOCK" => \A x \in start..to : Stranded(req, merged, x)
      BY <2>4, HandedOver
    <3>2. step = "analyze" /\ merged' = merged /\ req' = req
      BY <2>4, <2>r DEF HandOverAll, HandOverRun, heapVars
    <3>3. /\ start \in 1..Len(merged) /\ Len(merged) \in Nat /\ merged \in Seq(ThreadArg)
          /\ WorkManagerTypeOK
      BY <3>2 DEF Exact, TypeOK, HeapTypeOK, CallInv
    <3> SUFFICES ASSUME req.prms.input_type = "BUF" PROVE RunsAreMaximal' /\ LastInv'
      BY <3>2 DEF RunsAreMaximal, LastInv
    <3>4. signal # "CONTIG_FILE_BLOCK"
      <4>1. start \in start..to
        BY <3>3
      <4> QED BY <3>1, <4>1 DEF Stranded
    <3>5. /\ start - 1 \in 0..Len(merged) /\ to \in start..Len(merged) /\ to \in 1..Len(merged)
          /\ to - 1 \in 0..Len(merged) /\ to \in 0..Len(merged) /\ to \in start..to /\ start \in Nat
          /\ to \in (start - 1)..Len(merged) /\ to \in Nat
      BY <3>3
    <3>6. /\ merged[start].bufptr \in Nat /\ merged[start].offset \in Nat
          /\ merged[to].bufptr \in Nat /\ merged[to].offset \in Nat /\ merged[to].buflen \in Nat
          /\ Extent(merged, start - 1) \in Nat /\ Extent(merged, to) \in Nat
          /\ Extent(merged, to - 1) \in Nat
          /\ Extent(merged, to) = Extent(merged, to - 1) + merged[to].buflen
      BY <3>3, <3>5, ExtentSteps
    <3>7. len(to) \in Nat
      <4>1. Extent(merged, start - 1) <= Extent(merged, to)
        BY <3>3, <3>5, ExtentGrows
      <4> QED BY <3>6, <4>1
    <3> DEFINE new == listiopool'[n + 1]
               l == len(to)
    <3>8. /\ DOMAIN listiopool = 1..n /\ n \in Nat /\ Len(listiopool') = n + 1
          /\ \A k \in 1..n : listiopool'[k] = listiopool[k]
          /\ new.offset = IF req.prms.merge_type = "MEM" THEN Start(req.prms) ELSE merged[start].offset
          /\ new.iov[1].iov_base = merged[start].bufptr /\ new.iov[1].iov_len = l
      <4> DEFINE p == req.prms
                 at == merged[start].bufptr
                 off == merged[start].offset
      <4>1. WorkManager(p, at, l, off, signal) /\ at \in Nat /\ off \in Nat /\ l \in Nat
        BY <3>1, <3>6, <3>7
      <4> HIDE DEF l, p, at, off
      <4>2. /\ DOMAIN listiopool = 1..Len(listiopool) /\ Len(listiopool) \in Nat
            /\ Len(listiopool') = Len(listiopool) + 1
            /\ \A k \in 1..Len(listiopool) : listiopool'[k] = listiopool[k]
            /\ listiopool'[Len(listiopool) + 1].offset = IF p.merge_type = "MEM" THEN Start(p) ELSE off
            /\ listiopool'[Len(listiopool) + 1].iov[1].iov_base = at
            /\ listiopool'[Len(listiopool) + 1].iov[1].iov_len = l
        BY <3>3, <3>4, <4>1, BlockAdded
      <4> QED BY <4>2 DEF p, at, off
    <3>9. RunsAreMaximal'
      <4> SUFFICES ASSUME NEW k \in 1..(Len(listiopool') - 1),
                          listiopool'[k].iov[1].iov_base + listiopool'[k].iov[1].iov_len
                            = listiopool'[k + 1].iov[1].iov_base,
                          listiopool'[k].offset + listiopool'[k].iov[1].iov_len
                            = listiopool'[k + 1].offset
                   PROVE  FALSE
        BY DEF RunsAreMaximal
      <4>1. k \in 1..n
        BY <3>8
      <4>2. CASE k # n
        <5>1. k \in 1..(n - 1) /\ k + 1 \in 1..n
          BY <3>8, <4>1, <4>2
        <5>2. listiopool'[k] = listiopool[k] /\ listiopool'[k + 1] = listiopool[k + 1]
          BY <3>8, <4>1, <5>1
        <5> QED BY <5>1, <5>2 DEF RunsAreMaximal
      <4>3. CASE k = n
        <5>1. n > 0 /\ listiopool'[k] = listiopool[n]
          BY <3>8, <4>1, <4>3
        <5>2. start > 1
          <6>1. start # 1
            BY <3>2, <5>1 DEF PoolInv
          <6> QED BY <3>3, <6>1
        <5>3. /\ listiopool[n].iov[1].iov_base + listiopool[n].iov[1].iov_len
                   = merged[start - 1].bufptr + merged[start - 1].buflen
              /\ req.prms.merge_type = "ALL" =>
                   listiopool[n].offset + listiopool[n].iov[1].iov_len
                     = merged[start - 1].offset + merged[start - 1].buflen
              /\ ~Joined(req, merged, start - 1)
          BY <3>2, <5>2 DEF LastInv
        <5>4. start - 1 + 1 = start
          BY <3>3
        <5>5. Adjacent(merged[start - 1], merged[start])
          BY <3>8, <4>3, <5>1, <5>3 DEF Adjacent
        <5>6. req.prms.merge_type = "ALL" => AdjacentInFile(merged[start - 1], merged[start])
          BY <3>8, <4>3, <5>1, <5>3 DEF AdjacentInFile
        <5> QED BY <5>3, <5>4, <5>5, <5>6 DEF Joined
      <4> QED BY <4>2, <4>3
    <3>10. LastInv'
      <4> SUFFICES ASSUME step' = "analyze"
                   PROVE  /\ new.iov[1].iov_base + l = merged[to].bufptr + merged[to].buflen
                          /\ req.prms.merge_type = "ALL" =>
                               new.offset + l = merged[to].offset + merged[to].buflen
                          /\ ~Joined(req, merged, to)
        <5>1. start' - 1 = to /\ Len(listiopool') = n + 1
          BY <3>1, <3>5, <3>8
        <5>2. listiopool'[Len(listiopool')] = new /\ merged'[start' - 1] = merged[to]
              /\ new.iov[1].iov_len = l
          BY <3>2, <3>8, <5>1
        <5> HIDE DEF new, l
        <5> QED BY <3>2, <5>1, <5>2 DEF LastInv
      <4>1. to < Len(merged)
        BY <3>1, <3>3, <3>5
      <4>2. /\ merged[to].bufptr
                 = merged[start].bufptr + Extent(merged, to - 1) - Extent(merged, start - 1)
            /\ req.prms.merge_type = "ALL" =>
                 merged[to].offset
                   = merged[start].offset + Extent(merged, to - 1) - Extent(merged, start - 1)
        <5>1. \A x \in start..(to - 1) : Joined(req, merged, x)
          BY <3>1, <4>1
        <5> HIDE DEF len, l, new, n
        <5> QED BY <3>3, <3>5, <5>1, JoinedExtents
      <4> DEFINE e == Extent(merged, to)
                 f == Extent(merged, start - 1)
                 g == Extent(merged, to - 1)
                 b == merged[to].buflen
                 m == merged[start].bufptr
                 q == merged[start].offset
      <4>3. /\ l = e - f /\ e = g + b /\ e \in Nat /\ f \in Nat /\ g \in Nat /\ b \in Nat
            /\ m \in Nat /\ q \in Nat /\ merged[to].bufptr = m + g - f
            /\ req.prms.merge_type = "ALL" => merged[to].offset = q + g - f
        BY <3>6, <4>2
      <4>4. new.iov[1].iov_base = m /\ (req.prms.merge_type = "ALL" => new.offset = q)
        BY <3>8
      <4> HIDE DEF e, f, g, b, m, q, l, new
      <4>5. m + l = merged[to].bufptr + b
        BY <4>3
      <4>6. req.prms.merge_type = "ALL" => q + l = merged[to].offset + b
        BY <4>3
      <4> QED BY <3>1, <4>1, <4>4, <4>5, <4>6 DEF b
    <3> QED BY <3>9, <3>10
  <2>5. ASSUME NEW t \in Active, Work(t) PROVE RunsAreMaximal' /\ LastInv'
    <3>1. PICK k \in DOMAIN listiopool : Transfer(t, k, BytesOf(listiopool[k]))
      BY <2>5 DEF Work
    <3>2. /\ merged' = merged /\ start' = start /\ req' = req /\ step' = step
      BY <2>5, <2>r DEF Work, heapVars
    <3>3. /\ DOMAIN listiopool' = DOMAIN listiopool
          /\ \A j \in DOMAIN listiopool :
               listiopool'[j].iov = listiopool[j].iov /\ listiopool'[j].offset = listiopool[j].offset
          /\ listiopool' \in Seq(BlockType)
      BY <3>1, Taken DEF Exact, TypeOK
    <3>4. Len(listiopool) \in Nat /\ DOMAIN listiopool = 1..Len(listiopool)
      BY PoolType DEF Exact, TypeOK
    <3>5. Len(listiopool') = Len(listiopool)
      BY <3>3, <3>4
    <3>6. RunsAreMaximal'
      <4> SUFFICES ASSUME req.prms.input_type = "BUF", NEW j \in 1..(Len(listiopool) - 1)
                   PROVE  ~ /\ listiopool'[j].iov[1].iov_base + listiopool'[j].iov[1].iov_len
                                 = listiopool'[j + 1].iov[1].iov_base
                            /\ listiopool'[j].offset + listiopool'[j].iov[1].iov_len
                                 = listiopool'[j + 1].offset
        BY <3>2, <3>5 DEF RunsAreMaximal
      <4>1. j \in DOMAIN listiopool /\ j + 1 \in DOMAIN listiopool
        BY <3>4
      <4> QED BY <3>3, <4>1 DEF RunsAreMaximal
    <3>7. LastInv'
      <4>1. step = "analyze" /\ start > 1 => Len(listiopool) \in DOMAIN listiopool
        BY <3>4 DEF PoolInv
      <4> QED BY <3>2, <3>3, <3>5, <4>1 DEF LastInv
    <3> QED BY <3>6, <3>7
  <2>6. CASE Return
    BY <2>6, <2>e DEF Return, FreePool
  <2>7. CASE UNCHANGED vars
    <3>1. /\ step' = step /\ req' = req /\ UNCHANGED <<merged, start, listiopool>>
      BY <2>7, <2>r DEF vars, wmVars, heapVars
    <3> QED BY <3>1 DEF RunsAreMaximal, LastInv
  <2> QED BY <2>1, <2>2, <2>3, <2>4, <2>5, <2>6, <2>7 DEF Next, Terminating
<1>3. Exact /\ ArrayInv /\ PoolInv => Before
  OBVIOUS
<1>4. Inv => RunsAreMaximal
  OBVIOUS
<1> HIDE DEF Before, Inv
<1> QED BY <1>1, <1>2, <1>3, <1>4, CallsAreExact, CallsAreArranged, PTL DEF Spec

-----------------------------------------------------------------------------
(* Every buffer to its place *)

\* The place in the file of the n-th buffer.
Place(n) ==
  IF req.prms.merge_type = "ALL" THEN merged[n].offset ELSE base + Extent(merged, n - 1)

Moves(n) == Span(Place(n), merged[n].bufptr, merged[n].buflen)

\* A thread has still to move x.
Waits(x) ==
  \E k \in DOMAIN listiopool : listiopool[k].assigned_to # Nobody /\ x \in BufBytes(listiopool[k])

\* What has been moved and what waits in the pool is what the buffers before
\* `start` have at their places, the stranded ones excepted; a block that a thread
\* will transfer is one buffer.
MovedInv ==
  /\ \A k \in DOMAIN listiopool :
       listiopool[k].assigned_to # Nobody => Len(listiopool[k].iov) = 1
  /\ step \in {"merge", "sort"} => transferred = {}
  /\ Analyzed =>
       /\ \A x : x \in transferred \/ Waits(x) => \E n \in 1..(start - 1) : x \in Moves(n)
       /\ \A n \in 1..(start - 1) : \A x \in Moves(n) :
            Stranded(req, merged, n) \/ x \in transferred \/ Waits(x)

\* A block of one buffer moves that buffer, by writev as by pwrite.
LEMMA SingleBuffer ==
  ASSUME NEW block \in BlockType, Len(block.iov) = 1 PROVE BytesOf(block) = BufBytes(block)
<1>1. block.offset \in Nat /\ block.iov \in Seq(IovecType) /\ DOMAIN block.iov = {1}
  BY DEF BlockType
<1>2. After(block, 1 - 1) = block.offset
  <2> DEFINE s == [k \in 1..(1 - 1) |-> block.iov[k].iov_len]
  <2>1. s \in Seq(Nat) /\ Len(s) = 0
    <3>1. s = <<>>
      OBVIOUS
    <3> QED BY <3>1
  <2> HIDE DEF s
  <2>2. Total(block.offset, s) = block.offset
    BY <1>1, <2>1, TotalNext
  <2> QED BY <2>2 DEF After, s
<1>3. ListBytes(block) = BufBytes(block)
  BY <1>1, <1>2 DEF ListBytes, BufBytes
<1> QED BY <1>3 DEF BytesOf

\* What is handed over is what its buffers have at their places.
LEMMA MovesOfRun ==
  ASSUME RequestsAssumption, Exact, OffsetInv, step = "analyze", merged \in Seq(ThreadArg),
         NEW to \in start..Len(merged), \A n \in start..(to - 1) : Joined(req, merged, n)
  PROVE  LET off == IF req.prms.merge_type = "MEM" THEN Start(req.prms) ELSE merged[start].offset
         IN  \A x : x \in Span(off, merged[start].bufptr,
                               Extent(merged, to) - Extent(merged, start - 1)) <=>
                    \E n \in start..to : x \in Moves(n)
<1> DEFINE off == IF req.prms.merge_type = "MEM" THEN Start(req.prms) ELSE merged[start].offset
           N == Len(merged)
           pos == [n \in 1..N |-> Place(n)]
<1>1. /\ start \in 1..N /\ N \in Nat /\ base \in Nat /\ start \in Nat
      /\ req.prms.merge_type \in {"MEM", "ALL"}
  BY RequestType DEF Exact, TypeOK, HeapTypeOK, CallInv
<1>2. /\ \A n \in 1..N : merged[n].bufptr \in Nat /\ merged[n].buflen \in Nat /\ merged[n].offset \in Nat
      /\ \A n \in 0..N : Extent(merged, n) \in Nat
      /\ \A n \in start..to : n \in 1..N /\ n - 1 \in 0..N
  BY <1>1, ExtentSteps
<1>3. pos \in [1..N -> Nat]
  <2> SUFFICES ASSUME NEW n \in 1..N PROVE Place(n) \in Nat
    OBVIOUS
  <2>1. n - 1 \in 0..N
    BY <1>1
  <2>2. Extent(merged, n - 1) \in Nat /\ merged[n].offset \in Nat
    BY <1>2, <2>1
  <2> QED BY <1>1, <2>2 DEF Place
<1>4. \A n \in start..to : pos[n] = Place(n)
  BY <1>2
<1>5. pos[start] = off
  <2>1. pos[start] = Place(start)
    BY <1>1
  <2>2. CASE req.prms.merge_type = "MEM"
    <3>1. Start(req.prms) = base + Extent(merged, start - 1)
      BY <2>2, NextOffset
    <3> QED BY <2>1, <2>2, <3>1 DEF Place
  <2>3. CASE req.prms.merge_type = "ALL"
    BY <2>1, <2>3 DEF Place
  <2> QED BY <1>1, <2>2, <2>3
<1>6. /\ \A n \in start..to :
           merged[n].bufptr = merged[start].bufptr + Extent(merged, n - 1) - Extent(merged, start - 1)
      /\ req.prms.merge_type = "ALL" =>
           \A n \in start..to :
             merged[n].offset = merged[start].offset + Extent(merged, n - 1) - Extent(merged, start - 1)
  BY <1>1, JoinedExtents
<1>7. ASSUME NEW n \in start..to
      PROVE  pos[n] = pos[start] + Extent(merged, n - 1) - Extent(merged, start - 1)
  <2>1. CASE req.prms.merge_type = "MEM"
    <3> DEFINE e == Extent(merged, n - 1)
               f == Extent(merged, start - 1)
    <3>1. pos[n] = base + e /\ pos[start] = base + f
      BY <1>1, <1>4, <2>1 DEF Place
    <3>2. e \in Nat /\ f \in Nat
      BY <1>1, <1>2
    <3> HIDE DEF e, f, pos
    <3>3. pos[n] = pos[start] + e - f
      BY <1>1, <3>1, <3>2
    <3> QED BY <3>3 DEF e, f
  <2>2. CASE req.prms.merge_type = "ALL"
    <3>1. pos[n] = merged[n].offset /\ pos[start] = merged[start].offset
      BY <1>1, <1>4, <2>2 DEF Place
    <3> HIDE DEF pos
    <3> QED BY <1>6, <2>2, <3>1
  <2> QED BY <1>1, <2>1, <2>2
<1> HIDE DEF pos
<1>8. \A x : x \in Span(pos[start], merged[start].bufptr,
                        Extent(merged, to) - Extent(merged, start - 1)) <=>
             \E n \in start..to : x \in Span(pos[n], merged[n].bufptr, merged[n].buflen)
  BY <1>1, <1>3, <1>6, <1>7, SpanOfRun
<1> HIDE DEF off
<1>9. \A x : x \in Span(off, merged[start].bufptr,
                        Extent(merged, to) - Extent(merged, start - 1)) <=>
             \E n \in start..to : x \in Moves(n)
  BY <1>4, <1>5, <1>8 DEF Moves
<1> QED BY <1>9 DEF off

\* What a block moves, once it has the buffer, is a span.
LEMMA BlockSpan ==
  ASSUME NEW block
  PROVE  BufBytes(block) = Span(block.offset, block.iov[1].iov_base, block.iov[1].iov_len)
BY DEF BufBytes, Span

\* CONTIG_FILE_BLOCK adds to a block that waits for no thread.
LEMMA OpenBlock ==
  ASSUME WorkManagerAssumption, WorkManagerTypeOK, NEW p, NEW at, NEW len, NEW off,
         WorkManager(p, at, len, off, "CONTIG_FILE_BLOCK")
  PROVE  /\ \A k \in DOMAIN listiopool : listiopool[k].assigned_to # Nobody =>
              k \in DOMAIN listiopool' /\ listiopool'[k] = listiopool[k]
         /\ \A k \in DOMAIN listiopool' : listiopool'[k].assigned_to # Nobody =>
              k \in DOMAIN listiopool /\ listiopool'[k] = listiopool[k]
<1> DEFINE last == Len(listiopool)
           o == IF p.merge_type = "MEM" THEN Start(p) ELSE off
           block == FileBlock(Nobody, at, len, o)
<1>1. /\ DOMAIN listiopool = 1..last /\ last \in Nat /\ listiopool \in Seq(BlockType)
      /\ \A k \in DOMAIN listiopool : listiopool[k] \in BlockType
  BY PoolType DEF WorkManagerTypeOK
<1>2. listiopool' = AddToListiopool(at, len, o, "CONTIG_FILE_BLOCK")
  BY DEF WorkManager
<1> HIDE DEF o
<1>3. CASE last > 0 /\ listiopool[last].assigned_to = Nobody
  <2>1. listiopool' = [listiopool EXCEPT ![last].iov = Append(@, Iovec(at, len))]
    BY <1>2, <1>3 DEF AddToListiopool
  <2>2. last \in DOMAIN listiopool
    BY <1>1, <1>3
  <2>3. /\ DOMAIN listiopool' = DOMAIN listiopool
        /\ \A k \in DOMAIN listiopool : k # last => listiopool'[k] = listiopool[k]
        /\ listiopool'[last] = [listiopool[last] EXCEPT !.iov = Append(@, Iovec(at, len))]
    BY <2>1, <2>2
  <2>4. listiopool'[last].assigned_to = Nobody
    BY <1>1, <1>3, <2>2, <2>3 DEF BlockType
  <2> QED BY <1>3, <2>3, <2>4
<1>4. CASE ~(last > 0 /\ listiopool[last].assigned_to = Nobody)
  <2>1. listiopool' = Append(listiopool, block)
    BY <1>2, <1>4 DEF AddToListiopool
  <2>2. block.assigned_to = Nobody
    BY DEF FileBlock
  <2> HIDE DEF block
  <2>3. /\ DOMAIN listiopool' = 1..(last + 1) /\ listiopool'[last + 1] = block
        /\ \A k \in 1..last : listiopool'[k] = listiopool[k]
    BY <1>1, <2>1
  <2>4. ASSUME NEW k \in 1..(last + 1) PROVE k \in 1..last \/ k = last + 1
    BY <1>1
  <2>5. \A k \in 1..last : k \in 1..(last + 1)
    BY <1>1
  <2> HIDE DEF last
  <2> QED BY <1>1, <2>2, <2>3, <2>4, <2>5
<1> QED BY <1>3, <1>4

\* Handing over buffers puts them into the pool, for a thread unless they are
\* stranded.
LEMMA MovedHandOver ==
  ASSUME WorkManagerAssumption, RequestsAssumption, Exact, ArrayInv, PoolInv, OffsetInv, MovedInv,
         EvenRuns, HintsHold, HandOverAll \/ HandOverRun, req' = req
  PROVE  MovedInv'
<1> DEFINE n == Len(listiopool)
           p == req.prms
           at == merged[start].bufptr
           off == merged[start].offset
<1>1. PICK to \in start..Len(merged),
           signal \in {"CONTINUE", "CONTIG_FILE_BLOCK", "FINISH", "CONTIG_AND_FINISH"} :
        /\ WorkManager(p, at, Extent(merged, to) - Extent(merged, start - 1), off, signal)
        /\ \A x \in start..(to - 1) : Joined(req, merged, x)
        /\ start' = to + 1
        /\ step' = IF to = Len(merged) THEN "work" ELSE "analyze"
        /\ signal = "CONTIG_FILE_BLOCK" => \A x \in start..to : Stranded(req, merged, x)
  BY HandedOver
<1> DEFINE l == Extent(merged, to) - Extent(merged, start - 1)
           new == listiopool'[n + 1]
<1>2. step = "analyze" /\ merged' = merged /\ base' = base /\ transferred' = transferred
  BY <1>1 DEF HandOverAll, HandOverRun, heapVars, WorkManager
<1>3. /\ start \in 1..Len(merged) /\ Len(merged) \in Nat /\ merged \in Seq(ThreadArg)
      /\ WorkManagerTypeOK
  BY <1>2 DEF Exact, TypeOK, HeapTypeOK, CallInv
<1>4. step' \in {"work", "analyze"} /\ start' - 1 = to
  BY <1>1, <1>3
<1>5. \A m : Moves(m)' = Moves(m) /\ (Stranded(req, merged, m)' <=> Stranded(req, merged, m))
  <2> SUFFICES ASSUME NEW m
               PROVE  Moves(m)' = Moves(m) /\ (Stranded(req, merged, m)' <=> Stranded(req, merged, m))
    OBVIOUS
  <2>1. Extent(merged, m - 1)' = Extent(merged, m - 1)
    BY <1>2
  <2> QED BY <1>2, <2>1 DEF Moves, Place
<1>6. \A m : m \in 1..to <=> m \in 1..(start - 1) \/ m \in start..to
  BY <1>3
<1>7. /\ \A x : x \in transferred \/ Waits(x) => \E m \in 1..(start - 1) : x \in Moves(m)
      /\ \A m \in 1..(start - 1) : \A x \in Moves(m) :
           Stranded(req, merged, m) \/ x \in transferred \/ Waits(x)
  BY <1>2 DEF MovedInv, Analyzed
<1> SUFFICES /\ \A k \in DOMAIN listiopool' :
                  listiopool'[k].assigned_to # Nobody => Len(listiopool'[k].iov) = 1
             /\ \A x : x \in transferred \/ Waits(x)' => \E m \in 1..to : x \in Moves(m)
             /\ \A m \in 1..to : \A x \in Moves(m) :
                  Stranded(req, merged, m) \/ x \in transferred \/ Waits(x)'
  <2> HIDE DEF Waits, Moves, Stranded
  <2> QED BY <1>2, <1>4, <1>5 DEF MovedInv
<1>8. CASE signal = "CONTIG_FILE_BLOCK"
  <2>1. /\ \A k \in DOMAIN listiopool : listiopool[k].assigned_to # Nobody =>
             k \in DOMAIN listiopool' /\ listiopool'[k] = listiopool[k]
        /\ \A k \in DOMAIN listiopool' : listiopool'[k].assigned_to # Nobody =>
             k \in DOMAIN listiopool /\ listiopool'[k] = listiopool[k]
    <3>1. WorkManager(p, at, l, off, "CONTIG_FILE_BLOCK")
      BY <1>1, <1>8
    <3> HIDE DEF l, p, at, off
    <3> QED BY <1>3, <3>1, OpenBlock
  <2>2. \A k \in DOMAIN listiopool' :
          listiopool'[k].assigned_to # Nobody => Len(listiopool'[k].iov) = 1
    BY <2>1 DEF MovedInv
  <2>3. \A x : Waits(x)' <=> Waits(x)
    <3> HIDE DEF BufBytes
    <3>1. \A x : Waits(x)' <=> \E k \in DOMAIN listiopool' :
                                 listiopool'[k].assigned_to # Nobody /\ x \in BufBytes(listiopool'[k])
      BY DEF Waits
    <3> QED BY <2>1, <3>1 DEF Waits
  <2>4. \A m \in start..to : Stranded(req, merged, m)
    BY <1>1, <1>8
  <2> HIDE DEF Waits, Moves, Stranded
  <2> QED BY <1>6, <1>7, <2>2, <2>3, <2>4
<1>9. CASE signal # "CONTIG_FILE_BLOCK"
  <2>1. at \in Nat /\ off \in Nat /\ l \in Nat
    <3>1. /\ start - 1 \in 0..Len(merged) /\ to \in 0..Len(merged) /\ to \in (start - 1)..Len(merged)
      BY <1>3
    <3>2. Extent(merged, start - 1) \in Nat /\ Extent(merged, to) \in Nat /\ at \in Nat /\ off \in Nat
      BY <1>3, <3>1, ExtentSteps
    <3>3. Extent(merged, start - 1) <= Extent(merged, to)
      BY <1>3, <3>1, ExtentGrows
    <3> QED BY <3>2, <3>3
  <2>2. /\ DOMAIN listiopool = 1..n /\ n \in Nat /\ DOMAIN listiopool' = 1..(n + 1)
        /\ \A k \in 1..n : listiopool'[k] = listiopool[k]
        /\ new.offset = IF p.merge_type = "MEM" THEN Start(p) ELSE off
        /\ new.iov[1].iov_base = at /\ new.iov[1].iov_len = l
        /\ Len(new.iov) = 1 /\ new.assigned_to # Nobody
    <3>1. WorkManager(p, at, l, off, signal)
      BY <1>1
    <3> HIDE DEF l, p, at, off
    <3>2. /\ DOMAIN listiopool = 1..Len(listiopool) /\ Len(listiopool) \in Nat
          /\ DOMAIN listiopool' = 1..(Len(listiopool) + 1)
          /\ \A k \in 1..Len(listiopool) : listiopool'[k] = listiopool[k]
          /\ listiopool'[Len(listiopool) + 1].offset = IF p.merge_type = "MEM" THEN Start(p) ELSE off
          /\ listiopool'[Len(listiopool) + 1].iov[1].iov_base = at
          /\ listiopool'[Len(listiopool) + 1].iov[1].iov_len = l
          /\ Len(listiopool'[Len(listiopool) + 1].iov) = 1
          /\ listiopool'[Len(listiopool) + 1].assigned_to # Nobody
      BY <1>3, <1>9, <2>1, <3>1, BlockAdded
    <3> QED BY <3>2
  <2>3. \A x : x \in BufBytes(new) <=> \E m \in start..to : x \in Moves(m)
    <3>1. BufBytes(new) = Span(IF p.merge_type = "MEM" THEN Start(p) ELSE off, at, l)
      BY <2>2, BlockSpan
    <3> QED BY <1>1, <1>2, <1>3, <3>1, MovesOfRun
  <2> HIDE DEF new, l, p, at, off
  <2>4. ASSUME NEW k \in DOMAIN listiopool', listiopool'[k].assigned_to # Nobody
        PROVE  Len(listiopool'[k].iov) = 1
    <3>1. k \in 1..n \/ k = n + 1
      BY <2>2
    <3> QED BY <2>2, <2>4, <3>1 DEF MovedInv, new
  <2>5. \A x : Waits(x)' <=> Waits(x) \/ x \in BufBytes(new)
    <3> SUFFICES ASSUME NEW x PROVE Waits(x)' <=> Waits(x) \/ x \in BufBytes(new)
      OBVIOUS
    <3>1. Waits(x)' <=> \E k \in 1..(n + 1) :
                          listiopool'[k].assigned_to # Nobody /\ x \in BufBytes(listiopool'[k])
      BY <2>2 DEF Waits
    <3>2. Waits(x) <=> \E k \in 1..n :
                         listiopool[k].assigned_to # Nobody /\ x \in BufBytes(listiopool[k])
      BY <2>2 DEF Waits
    <3>3. ASSUME NEW k \in 1..(n + 1) PROVE k \in 1..n \/ k = n + 1
      BY <2>2
    <3>4. n + 1 \in 1..(n + 1) /\ \A k \in 1..n : k \in 1..(n + 1)
      BY <2>2
    <3> HIDE DEF n, Waits, BufBytes
    <3> QED BY <2>2, <3>1, <3>2, <3>3, <3>4 DEF new
  <2> HIDE DEF Waits, Moves, Stranded
  <2> QED BY <1>6, <1>7, <2>3, <2>4, <2>5
<1> QED BY <1>8, <1>9

\* A thread moves what a block holds.
LEMMA MovedWork ==
  ASSUME Exact, PoolInv, MovedInv, NEW t \in Active, WorkManagerAssumption, Work(t), req' = req
  PROVE  MovedInv'
<1>1. PICK k \in DOMAIN listiopool : Transfer(t, k, BytesOf(listiopool[k]))
  BY DEF Work
<1>2. merged' = merged /\ base' = base /\ start' = start /\ step' = step /\ calls' = calls
  BY DEF Work, heapVars
<1>3. /\ listiopool[k].assigned_to = t /\ DOMAIN listiopool' = DOMAIN listiopool
      /\ listiopool'[k].assigned_to = Nobody /\ t # Nobody
      /\ \A j \in DOMAIN listiopool : j # k => listiopool'[j] = listiopool[j]
      /\ \A j \in DOMAIN listiopool : listiopool'[j].iov = listiopool[j].iov
  BY <1>1, Taken, ThreadFacts DEF Exact, TypeOK
<1>4. \A j \in DOMAIN listiopool' :
        listiopool'[j].assigned_to # Nobody => Len(listiopool'[j].iov) = 1
  BY <1>3 DEF MovedInv
<1>5. step \notin {"merge", "sort", "idle"}
  <2>1. listiopool # <<>>
    OBVIOUS
  <2> QED BY <2>1 DEF PoolInv
<1>6. step \in {"analyze", "work"}
  BY <1>5 DEF Exact, TypeOK
<1>7. BytesOf(listiopool[k]) = BufBytes(listiopool[k])
  <2>1. listiopool[k] \in BlockType
    BY PoolType DEF Exact, TypeOK
  <2> QED BY <1>3, <2>1, SingleBuffer DEF MovedInv
<1>8. transferred' = transferred \cup BufBytes(listiopool[k])
  BY <1>1, <1>7 DEF Transfer
<1>9. \A x : x \in transferred' \/ Waits(x)' <=> x \in transferred \/ Waits(x)
  <2> SUFFICES ASSUME NEW x
               PROVE  x \in transferred' \/ Waits(x)' <=> x \in transferred \/ Waits(x)
    OBVIOUS
  <2>1. Waits(x)' <=> \E j \in DOMAIN listiopool :
                        j # k /\ listiopool[j].assigned_to # Nobody /\ x \in BufBytes(listiopool[j])
    BY <1>3 DEF Waits
  <2> HIDE DEF BufBytes
  <2> QED BY <1>3, <1>8, <2>1 DEF Waits
<1>10. \A m : Moves(m)' = Moves(m) /\ (Stranded(req, merged, m)' <=> Stranded(req, merged, m))
  <2> SUFFICES ASSUME NEW m
               PROVE  Moves(m)' = Moves(m) /\ (Stranded(req, merged, m)' <=> Stranded(req, merged, m))
    OBVIOUS
  <2>1. Extent(merged, m - 1)' = Extent(merged, m - 1)
    BY <1>2
  <2> QED BY <1>2, <2>1 DEF Moves, Place
<1>11. /\ \A x : x \in transferred \/ Waits(x) => \E m \in 1..(start - 1) : x \in Moves(m)
       /\ \A m \in 1..(start - 1) : \A x \in Moves(m) :
            Stranded(req, merged, m) \/ x \in transferred \/ Waits(x)
  BY <1>6 DEF MovedInv, Analyzed
<1> HIDE DEF Waits, Moves, Stranded
<1> QED BY <1>2, <1>4, <1>6, <1>9, <1>10, <1>11 DEF MovedInv

\* What is asked for, seen from the array as it is analyzed.
LEMMA AskedMoves ==
  ASSUME RequestsAssumption, Exact, ArrayInv, Returned
  PROVE  /\ \A x : x \in Asked <=> \E n \in 1..Len(merged) : x \in Moves(n)
         /\ \A n : Bytes(merged, n) = Moves(n)
<1> DEFINE all == MergedArgs(req)
           pos(n) == IF req.prms.merge_type = "ALL" THEN all[n].offset
                     ELSE base + SumOfLengths(SubSeq(all, 1, n - 1))
<1>1. /\ req \in Requests /\ all \in Seq(ThreadArg) /\ merged \in Arranged(req)
      /\ merged \in Seq(ThreadArg) /\ req.prms.merge_type \in {"MEM", "ALL"}
  BY RequestType, MergedArgsType, MergedArranged DEF Exact, Analyzed
<1>2. \A x : x \in Asked <=> \E n \in DOMAIN all : x \in Span(pos(n), all[n].bufptr, all[n].buflen)
  BY DEF Asked, Bytes, Span
<1>3. ASSUME req.prms.merge_type = "MEM"
      PROVE  \A x : x \in Asked <=> \E n \in 1..Len(merged) : x \in Moves(n)
  <2>1. all = merged
    BY <1>1, <1>3 DEF Arranged
  <2>2. DOMAIN merged = 1..Len(merged)
    BY <1>1
  <2>3. \A n : pos(n) = Place(n)
    BY <1>3, <2>1 DEF Place, Extent
  <2> HIDE DEF all, pos
  <2> QED BY <1>2, <2>1, <2>2, <2>3 DEF Moves
<1>4. ASSUME req.prms.merge_type = "ALL"
      PROVE  \A x : x \in Asked <=> \E n \in 1..Len(merged) : x \in Moves(n)
  <2>1. Rearranged(merged, all)
    BY <1>1, <1>4 DEF Arranged
  <2>2. PICK q \in [DOMAIN all -> DOMAIN all] :
          /\ \A y \in DOMAIN all : \E n \in DOMAIN all : q[n] = y
          /\ merged = [n \in DOMAIN all |-> all[q[n]]]
    BY <2>1 DEF Rearranged
  <2>3. DOMAIN all = 1..Len(merged)
    <3>1. DOMAIN merged = 1..Len(merged)
      BY <1>1
    <3> QED BY <2>2, <3>1
  <2> DEFINE Of(a) == Span(a.offset, a.bufptr, a.buflen)
  <2>4. \A n \in DOMAIN all : Span(pos(n), all[n].bufptr, all[n].buflen) = Of(all[n])
    BY <1>4
  <2>5. \A n \in 1..Len(merged) : Moves(n) = Of(merged[n])
    BY <1>4 DEF Moves, Place
  <2>6. \A n \in DOMAIN all : merged[n] = all[q[n]] /\ q[n] \in DOMAIN all
    BY <2>2
  <2> HIDE DEF all, pos, Of
  <2>7. ASSUME NEW x PROVE x \in Asked <=> \E n \in DOMAIN all : x \in Of(all[n])
    BY <1>2, <2>4
  <2>8. ASSUME NEW x PROVE (\E n \in DOMAIN all : x \in Of(all[n])) <=> \E n \in DOMAIN all : x \in Of(merged[n])
    BY <2>2, <2>6
  <2>9. ASSUME NEW x
        PROVE  (\E n \in DOMAIN all : x \in Of(merged[n])) <=> \E n \in 1..Len(merged) : x \in Moves(n)
    BY <2>3, <2>5, Zenon
  <2> QED BY <2>7, <2>8, <2>9, Zenon
<1>5. \A n : Bytes(merged, n) = Moves(n)
  BY DEF Bytes, Moves, Span, Place, Extent
<1> QED BY <1>1, <1>3, <1>4, <1>5

\* For BUF and LIST calls, with or without offsets: nothing is moved that was not
\* asked for, each byte goes to its place in the file, and all of them are moved but
\* those of the buffers that a LIST call strands.  When the call returns the threads
\* have done all blocks that have a thread, and these are the other buffers.  The
\* hypotheses are those under which the contiguity analyzer computes the lengths and
\* the places of runs right.
THEOREM MovesWhatWasAskedHolds == ASSUME EvenRuns, HintsHold PROVE Spec => []MovesWhatWasAsked
<1> USE WorkManagerAssumption, RequestsAssumption
<1> DEFINE Before == Exact /\ ArrayInv /\ PoolInv /\ OffsetInv /\ CountedAreAssigned
<1>1. Init => MovedInv
  BY DEF Init, WorkManagerInit, MovedInv, Analyzed, Returned
<1>2. Before /\ MovedInv /\ [Next]_vars => MovedInv'
  <2> SUFFICES ASSUME Exact, ArrayInv, PoolInv, OffsetInv, CountedAreAssigned, MovedInv,
                      [Next]_vars
               PROVE  MovedInv'
    OBVIOUS
  <2>r. ASSUME program' = program, calls' = calls PROVE req' = req
    BY <2>r DEF req
  <2>e. ASSUME listiopool' = <<>>, transferred' = {}, step' \in {"merge", "sort"} \/ start' = 1
        PROVE  MovedInv'
    <3>1. ASSUME NEW x PROVE ~(x \in transferred' \/ Waits(x)')
      BY <2>e DEF Waits
    <3>2. ASSUME start' = 1, NEW x PROVE ~(\E n \in 1..(start' - 1) : x \in Moves(n)')
      BY <3>2
    <3> HIDE DEF Waits, Moves
    <3> QED BY <2>e, <3>1, <3>2 DEF MovedInv, Analyzed, Returned
  <2>1. CASE Call
    BY <2>1, <2>e DEF Call, PoolInv
  <2>2. ASSUME Merge PROVE MovedInv'
    <3>1. step = "merge" /\ start' = 1 /\ listiopool' = listiopool /\ transferred' = transferred
          /\ req' = req
      BY <2>2, <2>r DEF Merge, wmVars
    <3>2. transferred = {}
      BY <3>1 DEF MovedInv
    <3> QED BY <2>e, <3>1, <3>2 DEF PoolInv
  <2>3. ASSUME Sort PROVE MovedInv'
    <3>1. step = "sort" /\ start' = start /\ listiopool' = listiopool /\ transferred' = transferred
          /\ req' = req
      BY <2>3, <2>r DEF Sort, wmVars
    <3>2. transferred = {}
      BY <3>1 DEF MovedInv
    <3> QED BY <2>e, <3>1, <3>2 DEF PoolInv
  <2>4. CASE HandOverAll \/ HandOverRun
    <3>1. req' = req
      BY <2>4, <2>r DEF HandOverAll, HandOverRun
    <3> QED BY <2>4, <3>1, MovedHandOver
  <2>5. ASSUME NEW t \in Active, Work(t) PROVE MovedInv'
    <3>1. req' = req
      BY <2>5, <2>r DEF Work
    <3> QED BY <2>5, <3>1, MovedWork
  <2>6. ASSUME Return PROVE MovedInv'
    <3>1. /\ step = "work" /\ step' = "idle" /\ listiopool' = <<>> /\ transferred' = transferred
          /\ merged' = merged /\ base' = base /\ start' = start /\ req' = req
          /\ \A t \in Active : completed[t] = listlen[t]
      BY <2>6, <2>r DEF Return, FreePool, AllDone, heapVars
    <3>2. ASSUME NEW k \in DOMAIN listiopool PROVE listiopool[k].assigned_to = Nobody
      <4> SUFFICES ASSUME listiopool[k].assigned_to # Nobody PROVE FALSE
        OBVIOUS
      <4> DEFINE t == listiopool[k].assigned_to
      <4>1. t \in Active
        <5>1. listiopool[k] \in BlockType
          BY PoolType DEF Exact, TypeOK
        <5> QED BY <5>1 DEF BlockType
      <4>2. k \in Mine(t)
        BY DEF Mine
      <4> HIDE DEF t
      <4>3. Cardinality(Mine(t)) = listlen[t] - completed[t]
        BY <4>1 DEF CountedAreAssigned, Mine
      <4>4. listlen[t] - completed[t] = 0
        BY <3>1, <4>1 DEF Exact, TypeOK, WorkManagerTypeOK
      <4>5. IsFiniteSet(Mine(t))
        BY MineFinite DEF Exact, TypeOK
      <4> QED BY <4>2, <4>3, <4>4, <4>5, FS_EmptySet
    <3>3. \A x : ~Waits(x) /\ ~Waits(x)'
      BY <3>1, <3>2 DEF Waits
    <3>4. \A m : Moves(m)' = Moves(m) /\ (Stranded(req, merged, m)' <=> Stranded(req, merged, m))
      <4> SUFFICES ASSUME NEW m
                   PROVE  Moves(m)' = Moves(m) /\ (Stranded(req, merged, m)' <=> Stranded(req, merged, m))
        OBVIOUS
      <4>1. Extent(merged, m - 1)' = Extent(merged, m - 1)
        BY <3>1
      <4> QED BY <3>1, <4>1 DEF Moves, Place
    <3>5. DOMAIN listiopool' = {}
      BY <3>1
    <3>6. /\ \A x : x \in transferred \/ Waits(x) => \E m \in 1..(start - 1) : x \in Moves(m)
          /\ \A m \in 1..(start - 1) : \A x \in Moves(m) :
               Stranded(req, merged, m) \/ x \in transferred \/ Waits(x)
      BY <3>1 DEF MovedInv, Analyzed
    <3> HIDE DEF Waits, Moves, Stranded
    <3> QED BY <3>1, <3>3, <3>4, <3>5, <3>6 DEF MovedInv
  <2>7. CASE UNCHANGED vars
    <3>1. /\ step' = step /\ req' = req /\ UNCHANGED <<merged, start, listiopool, base, transferred, calls>>
      BY <2>7, <2>r DEF vars, wmVars, heapVars
    <3>2. \A m : Moves(m)' = Moves(m) /\ (Stranded(req, merged, m)' <=> Stranded(req, merged, m))
      <4> SUFFICES ASSUME NEW m
                   PROVE  Moves(m)' = Moves(m) /\ (Stranded(req, merged, m)' <=> Stranded(req, merged, m))
        OBVIOUS
      <4>1. Extent(merged, m - 1)' = Extent(merged, m - 1)
        BY <3>1
      <4> QED BY <3>1, <4>1 DEF Moves, Place
    <3>3. \A x : Waits(x)' <=> Waits(x)
      BY <3>1 DEF Waits
    <3> HIDE DEF Waits, Moves, Stranded
    <3> QED BY <3>1, <3>2, <3>3 DEF MovedInv, Analyzed, Returned
  <2> QED BY <2>1, <2>2, <2>3, <2>4, <2>5, <2>6, <2>7 DEF Next, Terminating
<1>3. Before /\ MovedInv => MovesWhatWasAsked
  <2> SUFFICES ASSUME Exact, ArrayInv, PoolInv, MovedInv, Returned
               PROVE  transferred \subseteq Asked /\ Asked \subseteq transferred \cup Lost
    BY DEF MovesWhatWasAsked
  <2>1. listiopool = <<>> /\ start - 1 = Len(merged) /\ DOMAIN merged = 1..Len(merged)
    <3>1. start = Len(merged) + 1 /\ Len(merged) \in Nat /\ merged \in Seq(ThreadArg)
      BY DEF PoolInv, Exact, TypeOK, HeapTypeOK
    <3> QED BY <3>1 DEF PoolInv, Returned
  <2>2. \A x : ~Waits(x)
    BY <2>1 DEF Waits
  <2>3. /\ \A x : x \in transferred \/ Waits(x) => \E n \in 1..(start - 1) : x \in Moves(n)
        /\ \A n \in 1..(start - 1) : \A x \in Moves(n) :
             Stranded(req, merged, n) \/ x \in transferred \/ Waits(x)
    BY DEF MovedInv, Analyzed
  <2>4. /\ \A x : x \in Asked <=> \E n \in 1..Len(merged) : x \in Moves(n)
        /\ \A n : Bytes(merged, n) = Moves(n)
    BY AskedMoves
  <2> HIDE DEF Waits, Moves, Asked, Stranded, Bytes
  <2>5. \A n \in 1..Len(merged) : Stranded(req, merged, n) => Moves(n) \subseteq Lost
    BY <2>1, <2>4 DEF Lost
  <2> HIDE DEF Lost
  <2>6. ASSUME NEW x \in transferred PROVE x \in Asked
    BY <2>1, <2>3, <2>4
  <2>7. ASSUME NEW x \in Asked PROVE x \in transferred \cup Lost
    <3>1. PICK n \in 1..Len(merged) : x \in Moves(n)
      BY <2>4
    <3> QED BY <2>1, <2>2, <2>3, <2>5, <3>1
  <2> QED BY <2>6, <2>7
<1>4. Exact /\ ArrayInv /\ PoolInv /\ OffsetInv /\ CountedAreAssigned => Before
  OBVIOUS
<1> HIDE DEF Before
<1> QED BY <1>1, <1>2, <1>3, <1>4, CallsAreExact, CallsAreArranged, OffsetsFollow,
        CountedAreAssignedHolds, PTL DEF Spec

\* No buffer of a call is stranded, in whatever order the call may be analyzed.
NoneStranded(r) == \A a \in Arranged(r) : \A n \in DOMAIN a : ~Stranded(r, a, n)

\* Everything is moved, if no buffer is stranded; OpenBlocks is a LIST call that
\* strands one.
THEOREM AllBuffersMovedHolds ==
  ASSUME EvenRuns, HintsHold, \A p \in Programs : \A k \in DOMAIN p : NoneStranded(p[k])
  PROVE  Spec => [](Returned => transferred = Asked) /\ []AllBuffersMoved
<1> USE RequestsAssumption
<1> DEFINE All == Returned => transferred = Asked
<1>1. Exact /\ ArrayInv /\ MovesWhatWasAsked => All
  <2> SUFFICES ASSUME Exact, ArrayInv, MovesWhatWasAsked, Returned PROVE transferred = Asked
    OBVIOUS
  <2>1. NoneStranded(req)
    <3>1. program \in Programs /\ \E k \in DOMAIN program : req = program[k]
      BY RequestMade
    <3> QED BY <3>1
  <2>2. merged \in Arranged(req)
    BY MergedArranged DEF Analyzed
  <2>3. Lost = {}
    BY <2>1, <2>2 DEF Lost, NoneStranded
  <2> QED BY <2>3 DEF MovesWhatWasAsked
<1>2. All => AllBuffersMoved
  BY DEF AllBuffersMoved
<1> HIDE DEF All
<1>3. Spec => []All
  BY <1>1, CallsAreExact, CallsAreArranged, MovesWhatWasAskedHolds, PTL
<1> QED BY <1>2, <1>3, PTL DEF All

\* An interface that takes offsets moves its data there, if it merges by offsets and
\* strands no buffer.  The merge_type of omp_file_read_at_all is MEM (ReadAtOffset).
THEOREM MovedToItsOffsetHolds ==
  ASSUME EvenRuns, HintsHold,
         \A p \in Programs : \A k \in DOMAIN p : NoneStranded(p[k]),
         \A p \in Programs : \A k \in DOMAIN p :
           p[k].prms.offsets => p[k].prms.merge_type = "ALL"
  PROVE  Spec => []MovedToItsOffset
<1> USE RequestsAssumption
<1> DEFINE All == Returned => transferred = Asked
<1>1. Exact /\ All => MovedToItsOffset
  <2> DEFINE all == MergedArgs(req)
  <2> SUFFICES ASSUME Exact, All, Returned, req.prms.offsets,
                      NEW n \in DOMAIN all, all[n].buflen > 0
               PROVE  <<all[n].offset, all[n].bufptr>> \in transferred
    BY DEF MovedToItsOffset
  <2>1. req.prms.merge_type = "ALL"
    <3>1. program \in Programs /\ \E k \in DOMAIN program : req = program[k]
      BY RequestMade
    <3> QED BY <3>1
  <2>2. all[n].offset \in Nat /\ all[n].bufptr \in Nat /\ all[n].buflen \in Nat
    <3>1. all \in Seq(ThreadArg)
      BY RequestType, MergedArgsType DEF Exact
    <3> HIDE DEF all
    <3>2. n \in 1..Len(all)
      BY <3>1
    <3> QED BY <3>1, <3>2, ExtentSteps
  <2>3. /\ 0 \in 0..(all[n].buflen - 1)
        /\ all[n].offset + 0 = all[n].offset /\ all[n].bufptr + 0 = all[n].bufptr
    <3> HIDE DEF all
    <3> QED BY <2>2
  <2>4. <<all[n].offset + 0, all[n].bufptr + 0>> \in Bytes(all, n)
    <3> HIDE DEF all
    <3> QED BY <2>1, <2>3 DEF Bytes
  <2>5. <<all[n].offset + 0, all[n].bufptr + 0>> \in Asked
    <3> HIDE DEF Bytes
    <3> QED BY <2>4 DEF Asked
  <2> HIDE DEF all
  <2> QED BY <2>3, <2>5
<1>2. Spec => []All
  <2> HIDE DEF All
  <2>1. Spec => [](Returned => transferred = Asked)
    BY AllBuffersMovedHolds, PTL
  <2> QED BY <2>1 DEF All
<1> HIDE DEF All
<1> QED BY <1>1, <1>2, CallsAreExact, PTL

-----------------------------------------------------------------------------
(* Blocks and runs *)

\* Buffers from..to are as long as the prefixes up to them differ.
LEMMA PartExtent ==
  ASSUME NEW a \in Seq(ThreadArg), NEW from \in 1..Len(a), NEW to \in from..Len(a)
  PROVE  SumOfLengths(SubSeq(a, from, to)) = Extent(a, to) - Extent(a, from - 1)
<1> DEFINE b == SubSeq(a, from, to)
           N == to - from + 1
           f == from - 1
<1>1. /\ Len(a) \in Nat /\ (\A n \in 1..Len(a) : a[n] \in ThreadArg)
      /\ (\A n \in 0..Len(a) : Extent(a, n) \in Nat)
      /\ \A n \in 1..Len(a) : Extent(a, n) = Extent(a, n - 1) + a[n].buflen
  BY ExtentSteps
<1>2. N \in Nat /\ f \in 0..Len(a) /\ f + N = to /\ from <= to
  BY <1>1
<1>3. b \in Seq(ThreadArg) /\ Len(b) = N /\ \A k \in 1..N : b[k] = a[f + k]
  <2>1. \A k \in from..to : a[k] \in ThreadArg
    BY <1>1
  <2>2. /\ b \in Seq(ThreadArg) /\ Len(b) = (IF from <= to THEN N ELSE 0)
        /\ \A k \in 1..N : b[k] = a[from + k - 1]
    BY <2>1, SubSeqProperties
  <2>3. \A k \in 1..N : from + k - 1 = f + k
    BY <1>1
  <2> HIDE DEF b, N, f
  <2> QED BY <1>2, <2>2, <2>3
<1>4. /\ (\A n \in 0..N : Extent(b, n) \in Nat) /\ Extent(b, 0) = 0
      /\ (\A n \in 1..N : Extent(b, n) = Extent(b, n - 1) + b[n].buflen)
      /\ (\A n \in 1..N : b[n].buflen \in Nat)
      /\ Extent(b, N) = SumOfLengths(b)
  <2> HIDE DEF b, N
  <2> QED BY <1>3, ExtentSteps
<1> HIDE DEF b
<1> DEFINE T == {k \in 0..N : Extent(b, k) = Extent(a, f + k) - Extent(a, f)}
<1>5. 0 \in T
  <2>1. f + 0 = f /\ Extent(a, f) \in Nat /\ 0 \in 0..N
    BY <1>1, <1>2
  <2> HIDE DEF f, N, Extent
  <2> QED BY <1>4, <2>1
<1>6. ASSUME NEW k \in 1..N, k - 1 \in T PROVE k \in T
  <2>1. /\ f + k \in 1..Len(a) /\ f + k \in 0..Len(a) /\ f + (k - 1) \in 0..Len(a)
        /\ (f + k) - 1 = f + (k - 1) /\ k \in 0..N
    BY <1>1, <1>2
  <2> HIDE DEF f, N
  <2> DEFINE u == Extent(b, k - 1)
             v == Extent(a, f + (k - 1))
             w == Extent(a, f)
             l == b[k].buflen
             x == Extent(b, k)
             y == Extent(a, f + k)
  <2>2. u = v - w /\ x = u + l /\ y = v + l
    <3>1. Extent(a, f + k) = Extent(a, (f + k) - 1) + a[f + k].buflen
      BY <1>1, <2>1, Zenon
    <3>2. u = v - w
      BY <1>6
    <3>3. x = u + l
      BY <1>4
    <3>4. y = v + l
      <4>1. b[k] = a[f + k] /\ (f + k) - 1 = f + (k - 1)
        BY <1>3, <2>1
      <4> HIDE DEF Extent
      <4> QED BY <3>1, <4>1
    <3> QED BY <3>2, <3>3, <3>4
  <2>3. v \in Nat /\ w \in Nat /\ l \in Nat
    BY <1>1, <1>2, <1>4, <2>1
  <2> HIDE DEF u, v, w, l, x, y
  <2>4. x = y - w
    BY <2>2, <2>3
  <2> QED BY <2>1, <2>4 DEF x, y, w
<1>7. N \in T
  <2> HIDE DEF T, N
  <2>1. 0 \in Nat /\ N \in Nat /\ \A k \in (0 + 1)..N : k - 1 \in T => k \in T
    BY <1>2, <1>6
  <2>2. \A k \in 0..N : k \in T
    BY <1>5, <2>1, Onwards
  <2> QED BY <1>2, <2>2
<1>8. Extent(b, N) = Extent(a, to) - Extent(a, f)
  <2> HIDE DEF N, f
  <2> QED BY <1>2, <1>7
<1> HIDE DEF N
<1> QED BY <1>4, <1>8 DEF b

\* A buffer that is handed over becomes one piece of one block.
LEMMA PieceAdded ==
  ASSUME WorkManagerAssumption, WorkManagerTypeOK, NEW p, NEW at \in Nat, NEW len \in Nat,
         NEW off \in Nat, NEW signal, WorkManager(p, at, len, off, signal),
         NEW k \in DOMAIN listiopool', NEW n \in DOMAIN listiopool'[k].iov
  PROVE  \/ /\ k \in DOMAIN listiopool /\ n \in DOMAIN listiopool[k].iov
            /\ listiopool'[k].iov[n] = listiopool[k].iov[n]
         \/ listiopool'[k].iov[n] = Iovec(at, len)
<1> DEFINE last == Len(listiopool)
           o == IF p.merge_type = "MEM" THEN Start(p) ELSE off
<1>1. /\ DOMAIN listiopool = 1..last /\ last \in Nat /\ listiopool \in Seq(BlockType)
      /\ \A j \in DOMAIN listiopool : listiopool[j] \in BlockType
      /\ nxt_slave \in Active
  BY PoolType DEF WorkManagerTypeOK
<1>2. listiopool' = AddToListiopool(at, len, o, signal) /\ o \in Nat
  BY StartType DEF WorkManager
<1> HIDE DEF o
<1>3. ASSUME NEW to \in Active \cup {Nobody},
             listiopool' = Append(listiopool, FileBlock(to, at, len, o))
      PROVE  \/ /\ k \in DOMAIN listiopool /\ n \in DOMAIN listiopool[k].iov
                /\ listiopool'[k].iov[n] = listiopool[k].iov[n]
             \/ listiopool'[k].iov[n] = Iovec(at, len)
  <2> DEFINE block == FileBlock(to, at, len, o)
  <2>1. block \in BlockType
    BY <1>2, FileBlockType
  <2>2. block.iov = <<Iovec(at, len)>>
    BY DEF FileBlock
  <2> HIDE DEF block
  <2>3. /\ DOMAIN listiopool' = 1..(last + 1) /\ listiopool'[last + 1] = block
        /\ \A j \in 1..last : listiopool'[j] = listiopool[j]
    BY <1>1, <1>3, <2>1 DEF block
  <2>4. CASE k = last + 1
    <3>1. n = 1
      BY <2>2, <2>3, <2>4
    <3> QED BY <2>2, <2>3, <2>4, <3>1
  <2>5. CASE k # last + 1
    <3>1. k \in 1..last
      BY <1>1, <2>3, <2>5
    <3> QED BY <1>1, <2>3, <3>1
  <2> QED BY <2>4, <2>5
<1>4. ASSUME last > 0,
             listiopool' = [listiopool EXCEPT ![last].iov = Append(@, Iovec(at, len))]
      PROVE  \/ /\ k \in DOMAIN listiopool /\ n \in DOMAIN listiopool[k].iov
                /\ listiopool'[k].iov[n] = listiopool[k].iov[n]
             \/ listiopool'[k].iov[n] = Iovec(at, len)
  <2> DEFINE iov == listiopool[last].iov
  <2>1. last \in DOMAIN listiopool
    BY <1>1, <1>4
  <2>2. iov \in Seq(IovecType) /\ Iovec(at, len) \in IovecType
    BY <1>1, <2>1 DEF BlockType, Iovec, IovecType
  <2>3. /\ DOMAIN listiopool' = DOMAIN listiopool
        /\ \A j \in DOMAIN listiopool : j # last => listiopool'[j] = listiopool[j]
        /\ listiopool'[last] = [listiopool[last] EXCEPT !.iov = Append(@, Iovec(at, len))]
    BY <1>4, <2>1
  <2>4. listiopool'[last].iov = Append(iov, Iovec(at, len))
    <3>1. listiopool[last] \in BlockType
      BY <1>1, <2>1
    <3> QED BY <2>3, <3>1 DEF BlockType
  <2> HIDE DEF iov
  <2>5. ASSUME NEW m \in DOMAIN Append(iov, Iovec(at, len))
        PROVE  \/ m \in DOMAIN iov /\ Append(iov, Iovec(at, len))[m] = iov[m]
               \/ Append(iov, Iovec(at, len))[m] = Iovec(at, len)
    <3> DEFINE v == Iovec(at, len)
    <3> HIDE DEF v
    <3>1. v \in IovecType
      BY <2>2 DEF v
    <3>2. /\ DOMAIN iov = 1..Len(iov) /\ Len(iov) \in Nat
          /\ DOMAIN Append(iov, v) = 1..(Len(iov) + 1)
          /\ Append(iov, v)[Len(iov) + 1] = v /\ \A j \in 1..Len(iov) : Append(iov, v)[j] = iov[j]
      BY <2>2, <3>1
    <3>3. m \in 1..Len(iov) \/ m = Len(iov) + 1
      BY <2>5, <3>2 DEF v
    <3> QED BY <3>2, <3>3 DEF v
  <2>6. CASE k = last
    BY <2>1, <2>4, <2>5, <2>6 DEF iov
  <2>7. CASE k # last
    BY <2>3, <2>7
  <2> QED BY <2>6, <2>7
<1> QED BY <1>1, <1>2, <1>3, <1>4 DEF AddToListiopool

\* The piece is a run: buffers that follow each other in memory.
IsRun(piece) ==
  \E from, to \in DOMAIN merged :
    /\ merged[from].bufptr = piece.iov_base
    /\ \A x \in from..(to - 1) : Adjacent(merged[x], merged[x + 1])
    /\ piece.iov_len = SumOfLengths(SubSeq(merged, from, to))

\* Each piece of each block is exactly a run of buffers that follow each other in
\* memory, if the buffers of a run have one length; otherwise the piece may be too
\* long or too short (UnequalRuns).
THEOREM BlocksAreRunsHolds == ASSUME EvenRuns, HintsHold PROVE Spec => []BlocksAreRuns
<1> USE WorkManagerAssumption, RequestsAssumption
<1>0. BlocksAreRuns <=> \A k \in DOMAIN listiopool : \A n \in DOMAIN listiopool[k].iov :
                          IsRun(listiopool[k].iov[n])
  BY DEF BlocksAreRuns, IsRun
<1>1. Init => BlocksAreRuns
  BY DEF Init, WorkManagerInit, BlocksAreRuns
<1>2. Exact /\ ArrayInv /\ PoolInv /\ BlocksAreRuns /\ [Next]_vars => BlocksAreRuns'
  <2> SUFFICES ASSUME Exact, ArrayInv, PoolInv, BlocksAreRuns, [Next]_vars
               PROVE  BlocksAreRuns'
    OBVIOUS
  <2>e. ASSUME listiopool' = <<>> PROVE BlocksAreRuns'
    BY <2>e DEF BlocksAreRuns
  <2>1. CASE Call
    BY <2>1, <2>e DEF Call, PoolInv
  <2>2. CASE Merge
    BY <2>2, <2>e DEF Merge, PoolInv, wmVars
  <2>3. CASE Sort
    BY <2>3, <2>e DEF Sort, PoolInv, wmVars
  <2>4. CASE HandOverAll \/ HandOverRun
    <3>1. PICK to \in start..Len(merged),
               signal \in {"CONTINUE", "CONTIG_FILE_BLOCK", "FINISH", "CONTIG_AND_FINISH"} :
            /\ WorkManager(req.prms, merged[start].bufptr,
                           Extent(merged, to) - Extent(merged, start - 1),
                           merged[start].offset, signal)
            /\ \A x \in start..(to - 1) : Joined(req, merged, x)
      BY <2>4, HandedOver
    <3>2. step = "analyze" /\ merged' = merged
      BY <2>4 DEF HandOverAll, HandOverRun, heapVars
    <3>3. /\ start \in 1..Len(merged) /\ Len(merged) \in Nat /\ merged \in Seq(ThreadArg)
          /\ DOMAIN merged = 1..Len(merged) /\ WorkManagerTypeOK
      BY <3>2 DEF Exact, TypeOK, HeapTypeOK, CallInv
    <3> DEFINE p == req.prms
               at == merged[start].bufptr
               off == merged[start].offset
               l == Extent(merged, to) - Extent(merged, start - 1)
    <3>4. at \in Nat /\ off \in Nat /\ l \in Nat
      <4>1. /\ start - 1 \in 0..Len(merged) /\ to \in 0..Len(merged) /\ to \in (start - 1)..Len(merged)
        BY <3>3
      <4>2. Extent(merged, start - 1) \in Nat /\ Extent(merged, to) \in Nat /\ at \in Nat /\ off \in Nat
        BY <3>3, <4>1, ExtentSteps
      <4>3. Extent(merged, start - 1) <= Extent(merged, to)
        BY <3>3, <4>1, ExtentGrows
      <4> QED BY <4>2, <4>3
    <3>5. WorkManager(p, at, l, off, signal)
      BY <3>1
    <3>6. l = SumOfLengths(SubSeq(merged, start, to))
      BY <3>3, PartExtent
    <3>7. IsRun(Iovec(at, l))
      <4>1. \A x \in start..(to - 1) : Adjacent(merged[x], merged[x + 1])
        BY <3>1 DEF Joined
      <4>2. start \in DOMAIN merged /\ to \in DOMAIN merged
        BY <3>3
      <4>3. Iovec(at, l).iov_base = merged[start].bufptr /\ Iovec(at, l).iov_len = l
        BY DEF Iovec
      <4> HIDE DEF l, at
      <4> QED BY <3>6, <4>1, <4>2, <4>3 DEF IsRun
    <3> HIDE DEF p, at, off, l
    <3> SUFFICES ASSUME NEW k \in DOMAIN listiopool', NEW n \in DOMAIN listiopool'[k].iov
                 PROVE  IsRun(listiopool'[k].iov[n])
      BY <3>2 DEF BlocksAreRuns, IsRun
    <3>8. \/ /\ k \in DOMAIN listiopool /\ n \in DOMAIN listiopool[k].iov
             /\ listiopool'[k].iov[n] = listiopool[k].iov[n]
          \/ listiopool'[k].iov[n] = Iovec(at, l)
      <4>1. WorkManagerTypeOK
        BY <3>3
      <4> QED BY <3>4, <3>5, <4>1, PieceAdded
    <3> HIDE DEF IsRun
    <3> QED BY <1>0, <3>7, <3>8
  <2>5. ASSUME NEW t \in Active, Work(t) PROVE BlocksAreRuns'
    <3>1. PICK k \in DOMAIN listiopool : Transfer(t, k, BytesOf(listiopool[k]))
      BY <2>5 DEF Work
    <3>2. merged' = merged
      BY <2>5 DEF Work, heapVars
    <3>3. /\ DOMAIN listiopool' = DOMAIN listiopool
          /\ \A j \in DOMAIN listiopool : listiopool'[j].iov = listiopool[j].iov
      BY <3>1, Taken DEF Exact, TypeOK
    <3> QED BY <3>2, <3>3 DEF BlocksAreRuns
  <2>6. CASE Return
    BY <2>6, <2>e DEF Return, FreePool
  <2>7. CASE UNCHANGED vars
    BY <2>7 DEF vars, wmVars, heapVars, BlocksAreRuns
  <2> QED BY <2>1, <2>2, <2>3, <2>4, <2>5, <2>6, <2>7 DEF Next, Terminating
<1> QED BY <1>1, <1>2, CallsAreExact, CallsAreArranged, PTL DEF Spec

=============================================================================
