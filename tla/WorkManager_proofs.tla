------------------------- MODULE WorkManager_proofs -------------------------
(***************************************************************************)
(* What work_manager and the transfer of a block keep, for any number of   *)
(* active threads and any signal: the lemmas that the proofs about both    *)
(* planners of a call (DivideTasks, Contiguity) rest on.                   *)
(***************************************************************************)
EXTENDS WorkManager, FiniteSetTheorems, TLAPS

IovecType == [iov_base : Nat, iov_len : Nat]

BlockType == [assigned_to : Active \cup {Nobody}, offset : Nat, iov : Seq(IovecType)]

-----------------------------------------------------------------------------
(* Types *)

\* An element of a sequence over S is in S.
LEMMA ElementOf ==
  ASSUME NEW S, NEW s \in Seq(S), NEW n \in 1..Len(s)
  PROVE  s[n] \in S
OBVIOUS

\* The constants and the threads.
LEMMA ThreadFacts ==
  ASSUME WorkManagerAssumption
  PROVE  /\ ActiveThreads \in Nat \ {0} /\ MASTER \in Active /\ FirstSlave \in Active
         /\ Nobody \notin Active
         /\ \A t \in Active : t # ActiveThreads - 1 => t + 1 \in Active
BY DEF WorkManagerAssumption, MASTER, Active, FirstSlave, Nobody

\* The initial state of FS.
LEMMA InitialTypes ==
  ASSUME WorkManagerAssumption, WorkManagerInit
  PROVE  WorkManagerTypeOK
<1>1. position \in Nat /\ nxt_slave \in Active
  BY ThreadFacts DEF WorkManagerAssumption, WorkManagerInit
<1>2. listlen \in [Active -> Nat] /\ completed \in [Active -> Nat]
  BY DEF WorkManagerInit
<1>3. listiopool = <<>> /\ transferred = {} /\ internal_offset = -1 /\ all_quit_flag \in BOOLEAN
  BY DEF WorkManagerInit
<1>4. listiopool \in Seq([assigned_to : Active \cup {Nobody}, offset : Nat,
                          iov : Seq([iov_base : Nat, iov_len : Nat])])
  BY <1>3
<1> QED BY <1>1, <1>2, <1>3, <1>4 DEF WorkManagerTypeOK

\* Every block of the pool is a block.
LEMMA PoolType ==
  ASSUME WorkManagerTypeOK
  PROVE  /\ listiopool \in Seq(BlockType)
         /\ DOMAIN listiopool = 1..Len(listiopool) /\ Len(listiopool) \in Nat
         /\ \A k \in DOMAIN listiopool : listiopool[k] \in BlockType
<1>1. listiopool \in Seq(BlockType)
  BY DEF WorkManagerTypeOK, BlockType, IovecType
<1>2. DOMAIN listiopool = 1..Len(listiopool) /\ Len(listiopool) \in Nat
  BY <1>1
<1> QED BY <1>1, <1>2, ElementOf

\* An implicit offset is a position in the file.
LEMMA StartType ==
  ASSUME WorkManagerTypeOK, NEW p
  PROVE  Start(p) \in Nat
BY DEF WorkManagerTypeOK, Start

\* A block made of one buffer.
LEMMA FileBlockType ==
  ASSUME NEW to \in Active \cup {Nobody}, NEW at \in Nat, NEW len \in Nat, NEW off \in Nat
  PROVE  FileBlock(to, at, len, off) \in BlockType
<1>1. Iovec(at, len) \in IovecType
  BY DEF Iovec, IovecType
<1>2. <<Iovec(at, len)>> \in Seq(IovecType)
  BY <1>1
<1> QED BY <1>2 DEF FileBlock, BlockType

\* The pool after one buffer has been handed over: one block more, or one buffer
\* more in an unassigned last block.
LEMMA AddedType ==
  ASSUME WorkManagerAssumption, WorkManagerTypeOK,
         NEW at \in Nat, NEW len \in Nat, NEW off \in Nat, NEW signal
  PROVE  AddToListiopool(at, len, off, signal) \in Seq(BlockType)
<1>1. /\ listiopool \in Seq(BlockType) /\ nxt_slave \in Active
      /\ DOMAIN listiopool = 1..Len(listiopool) /\ Len(listiopool) \in Nat
  BY PoolType DEF WorkManagerTypeOK
<1>2. CASE signal # "CONTIG_FILE_BLOCK"
  <2>1. FileBlock(nxt_slave, at, len, off) \in BlockType
    BY <1>1, FileBlockType
  <2> QED BY <1>1, <1>2, <2>1 DEF AddToListiopool
<1>3. CASE signal = "CONTIG_FILE_BLOCK"
            /\ Len(listiopool) > 0 /\ listiopool[Len(listiopool)].assigned_to = Nobody
  <2> DEFINE last == Len(listiopool)
  <2>1. last \in DOMAIN listiopool /\ listiopool[last] \in BlockType
    BY <1>1, <1>3, PoolType
  <2>2. Iovec(at, len) \in IovecType
    BY DEF Iovec, IovecType
  <2> DEFINE b == [listiopool[last] EXCEPT !.iov = Append(@, Iovec(at, len))]
  <2>3. Append(listiopool[last].iov, Iovec(at, len)) \in Seq(IovecType)
    BY <2>1, <2>2 DEF BlockType
  <2>4. b \in BlockType
    BY <2>1, <2>3 DEF BlockType
  <2>5. AddToListiopool(at, len, off, signal) = [listiopool EXCEPT ![last] = b]
    BY <1>3 DEF AddToListiopool
  <2> HIDE DEF last, b
  <2> QED BY <1>1, <2>1, <2>4, <2>5
<1>4. CASE signal = "CONTIG_FILE_BLOCK"
            /\ ~(Len(listiopool) > 0 /\ listiopool[Len(listiopool)].assigned_to = Nobody)
  <2>1. FileBlock(Nobody, at, len, off) \in BlockType
    BY FileBlockType
  <2> QED BY <1>1, <1>4, <2>1 DEF AddToListiopool
<1> QED BY <1>2, <1>3, <1>4

\* Handing over a buffer keeps the types of work_manager.c.
LEMMA PlannedType ==
  ASSUME WorkManagerAssumption, WorkManagerTypeOK, NEW p, NEW at \in Nat, NEW len \in Nat,
         NEW off \in Nat, NEW signal, WorkManager(p, at, len, off, signal)
  PROVE  WorkManagerTypeOK'
<1>1. listiopool' \in Seq(BlockType)
  <2>1. (IF p.merge_type = "MEM" THEN Start(p) ELSE off) \in Nat
    BY StartType
  <2> QED BY <2>1, AddedType DEF WorkManager
<1>2. internal_offset' \in Nat \cup {-1}
  BY StartType DEF WorkManagerTypeOK, WorkManager, OffsetAfter
<1>3. nxt_slave' \in Active
  BY ThreadFacts DEF WorkManagerTypeOK, WorkManager, NextAfter
<1>4. listlen' \in [Active -> Nat]
  BY DEF WorkManagerTypeOK, WorkManager, Counts
<1>5. all_quit_flag' \in BOOLEAN
  BY DEF WorkManagerTypeOK, WorkManager
<1> QED BY <1>1, <1>2, <1>3, <1>4, <1>5
        DEF WorkManagerTypeOK, WorkManager, BlockType, IovecType

\* A transfer marks one block as done and changes no other.
LEMMA Taken ==
  ASSUME WorkManagerTypeOK, NEW t, NEW k \in DOMAIN listiopool, NEW bytes,
         Transfer(t, k, bytes)
  PROVE  /\ listiopool[k].assigned_to = t
         /\ DOMAIN listiopool' = DOMAIN listiopool
         /\ listiopool'[k].assigned_to = Nobody
         /\ \A j \in DOMAIN listiopool : j # k => listiopool'[j] = listiopool[j]
         /\ \A j \in DOMAIN listiopool :
              listiopool'[j].iov = listiopool[j].iov /\ listiopool'[j].offset = listiopool[j].offset
         /\ listiopool' \in Seq(BlockType)
<1>1. listiopool \in Seq(BlockType) /\ listiopool[k] \in BlockType
  BY PoolType
<1> DEFINE b == [listiopool[k] EXCEPT !.assigned_to = Nobody]
<1>2. b \in BlockType /\ b.assigned_to = Nobody
      /\ b.iov = listiopool[k].iov /\ b.offset = listiopool[k].offset
  BY <1>1 DEF BlockType
<1>3. listiopool' = [listiopool EXCEPT ![k] = b] /\ listiopool[k].assigned_to = t
  BY DEF Transfer
<1> HIDE DEF b
<1>4. /\ DOMAIN listiopool' = DOMAIN listiopool
      /\ listiopool'[k] = b
      /\ \A j \in DOMAIN listiopool : j # k => listiopool'[j] = listiopool[j]
      /\ listiopool' \in Seq(BlockType)
  BY <1>1, <1>2, <1>3
<1> QED BY <1>2, <1>3, <1>4

\* A transfer of bytes keeps the types.
LEMMA TransferType ==
  ASSUME WorkManagerTypeOK, NEW t \in Active, NEW k \in DOMAIN listiopool,
         NEW bytes \in SUBSET (Nat \X Nat), Transfer(t, k, bytes), position' \in Nat
  PROVE  WorkManagerTypeOK'
<1>1. listiopool' \in Seq(BlockType)
  BY Taken
<1>2. completed \in [Active -> Nat] /\ completed' = [completed EXCEPT ![t] = completed[t] + 1]
  BY DEF WorkManagerTypeOK, Transfer
<1>3. completed' \in [Active -> Nat]
  BY <1>2
<1> QED BY <1>1, <1>3 DEF WorkManagerTypeOK, Transfer, BlockType, IovecType

\* So does freeing the pool.
LEMMA FreedType ==
  ASSUME WorkManagerTypeOK, FreePool PROVE WorkManagerTypeOK'
<1>1. listiopool' = <<>> /\ listlen' = [t \in Active |-> 0] /\ completed' = [t \in Active |-> 0]
  BY DEF FreePool
<1>2. listiopool' \in Seq([assigned_to : Active \cup {Nobody}, offset : Nat,
                           iov : Seq([iov_base : Nat, iov_len : Nat])])
  BY <1>1
<1>3. listlen' \in [Active -> Nat] /\ completed' \in [Active -> Nat]
  BY <1>1
<1> QED BY <1>2, <1>3 DEF WorkManagerTypeOK, FreePool

\* No block is without a buffer.
HasBuffer == \A k \in DOMAIN listiopool : listiopool[k].iov # <<>>

\* Every new block gets its buffer.
LEMMA PlannedHasBuffer ==
  ASSUME WorkManagerAssumption, WorkManagerTypeOK, HasBuffer, NEW p, NEW at, NEW len,
         NEW off, NEW signal, WorkManager(p, at, len, off, signal)
  PROVE  HasBuffer'
<1> DEFINE n == Len(listiopool)
           o == IF p.merge_type = "MEM" THEN Start(p) ELSE off
<1>1. /\ DOMAIN listiopool = 1..n /\ n \in Nat /\ listiopool \in Seq(BlockType)
  BY PoolType
<1>2. listiopool' = AddToListiopool(at, len, o, signal)
  BY DEF WorkManager
<1> HIDE DEF o
<1>a. ASSUME NEW to, listiopool' = Append(listiopool, FileBlock(to, at, len, o))
      PROVE  HasBuffer'
  <2>1. /\ DOMAIN listiopool' = 1..(n + 1)
        /\ \A k \in 1..n : listiopool'[k] = listiopool[k]
        /\ listiopool'[n + 1] = FileBlock(to, at, len, o)
    BY <1>1, <1>a
  <2>2. FileBlock(to, at, len, o).iov # <<>>
    BY DEF FileBlock
  <2> HIDE DEF n
  <2> QED BY <1>1, <2>1, <2>2 DEF HasBuffer
<1>3. CASE signal = "CONTIG_FILE_BLOCK" /\ n > 0 /\ listiopool[n].assigned_to = Nobody
  <2>1. listiopool' = [listiopool EXCEPT ![n].iov = Append(@, Iovec(at, len))]
    BY <1>2, <1>3 DEF AddToListiopool
  <2>2. n \in DOMAIN listiopool /\ listiopool[n] \in BlockType
    BY <1>1, <1>3, PoolType
  <2>3. Append(listiopool[n].iov, Iovec(at, len)) # <<>>
    <3> DEFINE q == listiopool[n].iov
               v == Iovec(at, len)
    <3>1. q \in Seq(IovecType)
      BY <2>2 DEF BlockType
    <3> HIDE DEF q, v
    <3>2. Len(Append(q, v)) = Len(q) + 1 /\ Len(q) \in Nat
      BY <3>1
    <3>3. Len(<<>>) = 0
      OBVIOUS
    <3>4. Append(q, v) # <<>>
      BY <3>2, <3>3
    <3> QED BY <3>4 DEF q, v
  <2>4. /\ DOMAIN listiopool' = DOMAIN listiopool
        /\ listiopool'[n].iov = Append(listiopool[n].iov, Iovec(at, len))
        /\ \A k \in DOMAIN listiopool : k # n => listiopool'[k] = listiopool[k]
    BY <2>1, <2>2 DEF BlockType
  <2> HIDE DEF n
  <2> QED BY <2>3, <2>4 DEF HasBuffer
<1>4. CASE ~(signal = "CONTIG_FILE_BLOCK" /\ n > 0 /\ listiopool[n].assigned_to = Nobody)
  BY <1>2, <1>4, <1>a DEF AddToListiopool
<1> QED BY <1>3, <1>4

\* A transfer leaves the buffers of all blocks alone.
LEMMA TransferHasBuffer ==
  ASSUME WorkManagerTypeOK, HasBuffer, NEW t, NEW k \in DOMAIN listiopool, NEW bytes,
         Transfer(t, k, bytes)
  PROVE  HasBuffer'
BY Taken DEF HasBuffer

-----------------------------------------------------------------------------
(* What is counted is in the pool *)

\* The blocks a thread still has to do.
Mine(t) == {k \in DOMAIN listiopool : listiopool[k].assigned_to = t}

\* They are finitely many.
LEMMA MineFinite ==
  ASSUME WorkManagerTypeOK, NEW t
  PROVE  IsFiniteSet(Mine(t)) /\ Cardinality(Mine(t)) \in Nat
<1>1. IsFiniteSet(DOMAIN listiopool)
  BY PoolType, FS_Interval
<1>2. IsFiniteSet(Mine(t))
  BY <1>1, FS_Subset DEF Mine
<1> QED BY <1>2, FS_CardinalityType

\* A buffer that is handed over is one block more for the thread it is counted
\* for, and changes the blocks of no other thread.
LEMMA MineAdded ==
  ASSUME WorkManagerAssumption, WorkManagerTypeOK, NEW p, NEW at \in Nat, NEW len \in Nat,
         NEW off \in Nat, NEW signal, WorkManager(p, at, len, off, signal), NEW t \in Active
  PROVE  Cardinality(Mine(t)') =
           Cardinality(Mine(t)) + (IF Counts(signal) /\ t = nxt_slave THEN 1 ELSE 0)
<1> DEFINE n == Len(listiopool)
           o == IF p.merge_type = "MEM" THEN Start(p) ELSE off
<1>1. /\ DOMAIN listiopool = 1..n /\ n \in Nat /\ listiopool \in Seq(BlockType)
      /\ nxt_slave \in Active
  BY PoolType DEF WorkManagerTypeOK
<1>2. o \in Nat
  BY StartType
<1>3. listiopool' = AddToListiopool(at, len, o, signal)
  BY DEF WorkManager
<1>4. IsFiniteSet(Mine(t)) /\ Cardinality(Mine(t)) \in Nat
  BY MineFinite
<1>5. t # Nobody
  BY ThreadFacts
<1> HIDE DEF n, o
<1>a. ASSUME NEW to \in Active \cup {Nobody},
             listiopool' = Append(listiopool, FileBlock(to, at, len, o))
      PROVE  Mine(t)' = IF t = to THEN Mine(t) \cup {n + 1} ELSE Mine(t)
  <2>1. FileBlock(to, at, len, o) \in BlockType
    BY <1>2, FileBlockType
  <2>2. /\ DOMAIN listiopool' = 1..(n + 1)
        /\ \A k \in 1..n : listiopool'[k] = listiopool[k]
        /\ listiopool'[n + 1] = FileBlock(to, at, len, o)
    BY <1>1, <1>a, <2>1 DEF n
  <2>3. listiopool'[n + 1].assigned_to = to
    BY <2>2 DEF FileBlock
  <2> QED BY <1>1, <2>2, <2>3 DEF Mine
<1>6. CASE signal # "CONTIG_FILE_BLOCK"
  <2>1. listiopool' = Append(listiopool, FileBlock(nxt_slave, at, len, o))
    BY <1>3, <1>6 DEF AddToListiopool
  <2>2. Mine(t)' = IF t = nxt_slave THEN Mine(t) \cup {n + 1} ELSE Mine(t)
    BY <1>1, <1>a, <2>1
  <2>3. n + 1 \notin Mine(t)
    BY <1>1 DEF Mine
  <2>4. Cardinality(Mine(t) \cup {n + 1}) = Cardinality(Mine(t)) + 1
    BY <1>4, <2>3, FS_AddElement
  <2> QED BY <1>4, <1>6, <2>2, <2>4 DEF Counts
<1>7. CASE signal = "CONTIG_FILE_BLOCK" /\ n > 0 /\ listiopool[n].assigned_to = Nobody
  <2>1. listiopool' = [listiopool EXCEPT ![n].iov = Append(@, Iovec(at, len))]
    BY <1>3, <1>7 DEF AddToListiopool, n
  <2>2. n \in DOMAIN listiopool /\ listiopool[n] \in BlockType
    BY <1>1, <1>7, PoolType
  <2>3. /\ DOMAIN listiopool' = DOMAIN listiopool
        /\ \A k \in DOMAIN listiopool : listiopool'[k].assigned_to = listiopool[k].assigned_to
    BY <2>1, <2>2 DEF BlockType
  <2>4. Mine(t)' = Mine(t)
    BY <2>3 DEF Mine
  <2> QED BY <1>4, <1>7, <2>4 DEF Counts
<1>8. CASE signal = "CONTIG_FILE_BLOCK" /\ ~(n > 0 /\ listiopool[n].assigned_to = Nobody)
  <2>1. listiopool' = Append(listiopool, FileBlock(Nobody, at, len, o))
    BY <1>3, <1>8 DEF AddToListiopool, n
  <2>2. Mine(t)' = Mine(t)
    BY <1>5, <1>a, <2>1
  <2> QED BY <1>4, <1>8, <2>2 DEF Counts
<1> QED BY <1>6, <1>7, <1>8

\* A transferred block is one fewer for its owner, and the others keep theirs.
LEMMA MineTaken ==
  ASSUME WorkManagerAssumption, WorkManagerTypeOK, NEW t \in Active,
         NEW k \in DOMAIN listiopool, NEW bytes, Transfer(t, k, bytes)
  PROVE  /\ Cardinality(Mine(t)') = Cardinality(Mine(t)) - 1
         /\ \A u \in Active \ {t} : Mine(u)' = Mine(u)
<1>1. /\ listiopool[k].assigned_to = t /\ listiopool'[k].assigned_to = Nobody
      /\ DOMAIN listiopool' = DOMAIN listiopool
      /\ \A j \in DOMAIN listiopool : j # k => listiopool'[j] = listiopool[j]
  BY Taken
<1>2. Mine(t)' = Mine(t) \ {k} /\ k \in Mine(t)
  BY <1>1, ThreadFacts DEF Mine
<1>3. \A u \in Active \ {t} : Mine(u)' = Mine(u)
  BY <1>1, ThreadFacts DEF Mine
<1>4. Cardinality(Mine(t) \ {k}) = Cardinality(Mine(t)) - 1
  BY <1>2, MineFinite, FS_RemoveElement
<1> QED BY <1>2, <1>3, <1>4

\* Nothing is counted and nothing assigned at the start ...
LEMMA InitialCounted ==
  ASSUME WorkManagerInit PROVE CountedAreAssigned
<1> SUFFICES ASSUME NEW t \in Active PROVE Cardinality(Mine(t)) = listlen[t] - completed[t]
  BY DEF CountedAreAssigned, Mine
<1>1. Mine(t) = {} /\ listlen[t] = 0 /\ completed[t] = 0
  BY DEF WorkManagerInit, Mine
<1> QED BY <1>1, FS_EmptySet

\* ... a buffer that is handed over is counted for the thread it is assigned to ...
LEMMA PlannedCounted ==
  ASSUME WorkManagerAssumption, WorkManagerTypeOK, CountedAreAssigned, NEW p,
         NEW at \in Nat, NEW len \in Nat, NEW off \in Nat, NEW signal,
         WorkManager(p, at, len, off, signal)
  PROVE  CountedAreAssigned'
<1> SUFFICES ASSUME NEW t \in Active
             PROVE  Cardinality(Mine(t)') = listlen'[t] - completed'[t]
  BY DEF CountedAreAssigned, Mine
<1>1. Cardinality(Mine(t)') =
        Cardinality(Mine(t)) + (IF Counts(signal) /\ t = nxt_slave THEN 1 ELSE 0)
  BY MineAdded
<1>2. Cardinality(Mine(t)) = listlen[t] - completed[t]
  BY DEF CountedAreAssigned, Mine
<1>3. listlen[t] \in Nat /\ completed[t] \in Nat /\ listlen \in [Active -> Nat]
  BY DEF WorkManagerTypeOK
<1>4. completed' = completed
      /\ listlen' = IF Counts(signal) THEN [listlen EXCEPT ![nxt_slave] = @ + 1] ELSE listlen
  BY DEF WorkManager
<1>5. CASE Counts(signal) /\ t = nxt_slave
  BY <1>1, <1>2, <1>3, <1>4, <1>5
<1>6. CASE ~(Counts(signal) /\ t = nxt_slave)
  <2>1. listlen'[t] = listlen[t]
    BY <1>3, <1>4, <1>6
  <2> QED BY <1>1, <1>2, <1>3, <1>4, <1>6, <2>1
<1> QED BY <1>5, <1>6

\* ... a transferred one is completed by that thread ...
LEMMA TransferCounted ==
  ASSUME WorkManagerAssumption, WorkManagerTypeOK, CountedAreAssigned, NEW u \in Active,
         NEW k \in DOMAIN listiopool, NEW bytes, Transfer(u, k, bytes)
  PROVE  CountedAreAssigned'
<1> SUFFICES ASSUME NEW t \in Active
             PROVE  Cardinality(Mine(t)') = listlen'[t] - completed'[t]
  BY DEF CountedAreAssigned, Mine
<1>1. /\ Cardinality(Mine(u)') = Cardinality(Mine(u)) - 1
      /\ \A v \in Active \ {u} : Mine(v)' = Mine(v)
  BY MineTaken
<1>2. Cardinality(Mine(t)) = listlen[t] - completed[t]
  BY DEF CountedAreAssigned, Mine
<1>3. /\ listlen \in [Active -> Nat] /\ completed \in [Active -> Nat]
      /\ listlen[t] \in Nat /\ completed[t] \in Nat
  BY DEF WorkManagerTypeOK
<1>4. listlen' = listlen /\ completed' = [completed EXCEPT ![u] = @ + 1]
  BY DEF Transfer
<1>5. CASE t = u
  BY <1>1, <1>2, <1>3, <1>4, <1>5
<1>6. CASE t # u
  <2>1. Mine(t)' = Mine(t) /\ completed'[t] = completed[t]
    BY <1>1, <1>3, <1>4, <1>6
  <2> QED BY <1>2, <1>4, <2>1
<1> QED BY <1>5, <1>6

\* ... and the pool is freed with the counters.
LEMMA FreedCounted ==
  ASSUME FreePool PROVE CountedAreAssigned'
<1> SUFFICES ASSUME NEW t \in Active
             PROVE  Cardinality(Mine(t)') = listlen'[t] - completed'[t]
  BY DEF CountedAreAssigned, Mine
<1>1. Mine(t)' = {} /\ listlen'[t] = 0 /\ completed'[t] = 0
  BY DEF FreePool, Mine
<1> QED BY <1>1, FS_EmptySet

-----------------------------------------------------------------------------
(* The round robin *)

\* The slaves before nxt_slave are one block ahead of the MASTER, whose turn
\* comes when all of them are.
RoundRobin ==
  \A t \in Active \ {MASTER} :
    listlen[t] = listlen[MASTER] + (IF nxt_slave = MASTER \/ t < nxt_slave THEN 1 ELSE 0)

\* With empty lists it is the first slave's turn.
LEMMA RoundRobinStarts ==
  ASSUME WorkManagerAssumption, nxt_slave = FirstSlave, \A t \in Active : listlen[t] = 0
  PROVE  RoundRobin /\ Balanced
<1>1. MASTER \in Active /\ ActiveThreads \in Nat \ {0}
  BY ThreadFacts
<1> QED BY <1>1 DEF RoundRobin, Balanced, FirstSlave, MASTER, Active

\* One buffer more keeps the shares balanced; the signals that finish the call
\* set nxt_slave back, the others keep the order.
LEMMA RoundRobinMoves ==
  ASSUME WorkManagerAssumption, WorkManagerTypeOK, RoundRobin, NEW p, NEW at, NEW len,
         NEW off, NEW signal, WorkManager(p, at, len, off, signal)
  PROVE  /\ Balanced'
         /\ Finishes(signal) => nxt_slave' = FirstSlave
         /\ ~Finishes(signal) => RoundRobin'
<1>1. /\ listlen \in [Active -> Nat] /\ nxt_slave \in Active
      /\ ActiveThreads \in Nat \ {0} /\ MASTER \in Active
  BY ThreadFacts DEF WorkManagerTypeOK
<1>2. /\ listlen' = IF Counts(signal) THEN [listlen EXCEPT ![nxt_slave] = @ + 1] ELSE listlen
      /\ nxt_slave' = NextAfter(signal)
  BY DEF WorkManager
<1>3. Balanced'
  <2>1. CASE Counts(signal)
    BY <1>1, <1>2, <2>1 DEF RoundRobin, Balanced, MASTER, Active
  <2>2. CASE ~Counts(signal)
    BY <1>1, <1>2, <2>2 DEF RoundRobin, Balanced, MASTER, Active
  <2> QED BY <2>1, <2>2
<1>4. Finishes(signal) => nxt_slave' = FirstSlave
  BY <1>2 DEF NextAfter
<1>5. ASSUME ~Finishes(signal) PROVE RoundRobin'
  <2>1. CASE Counts(signal)
    <3>1. nxt_slave' = IF nxt_slave = ActiveThreads - 1 THEN MASTER ELSE nxt_slave + 1
      BY <1>2, <1>5, <2>1 DEF NextAfter
    <3> QED BY <1>1, <1>2, <2>1, <3>1 DEF RoundRobin, MASTER, Active
  <2>2. CASE ~Counts(signal)
    <3>1. nxt_slave' = nxt_slave /\ listlen' = listlen
      BY <1>2, <1>5, <2>2 DEF NextAfter
    <3> QED BY <3>1 DEF RoundRobin
  <2> QED BY <2>1, <2>2
<1> QED BY <1>3, <1>4, <1>5

=============================================================================
