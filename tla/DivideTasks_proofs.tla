------------------------- MODULE DivideTasks_proofs -------------------------
(***************************************************************************)
(* Proofs about DivideTasks for every number of active threads, block size *)
(* and buffer length: the chunks cut the buffer exactly, FINISH comes with *)
(* the last one, and a call returns with the whole buffer moved.           *)
(***************************************************************************)
EXTENDS DivideTasks, WorkManager_proofs

-----------------------------------------------------------------------------
(* Layers of the inductive invariant *)

\* A block of a BUF interface holds one buffer.
OneBuffer == \A k \in DOMAIN listiopool : Len(listiopool[k].iov) = 1

\* What the loop of divide_tasks_sameprms keeps: the rest is always enough for
\* the iterations to come.
LoopInv ==
  /\ step # "idle" => bytes_done + bytes_remaining = buflen
  /\ step = "base" => bytes_done = 0
  /\ step = "divide" => /\ chunk > 0
                        /\ bytes_remaining >= (boundary - i) * chunk
  /\ step = "work" => bytes_remaining = 0
  /\ step = "idle" => listiopool = <<>>
  /\ step = "base" => listiopool = <<>> /\ transferred = {}

\* FINISH has been sent when nothing remains, and only then.
QuitInv ==
  /\ step = "base" => ~all_quit_flag
  /\ step \in {"divide", "work"} => (all_quit_flag <=> bytes_remaining = 0)

\* Everything that has been proved about the loop.
Exact == TypeOK /\ OneBuffer /\ LoopInv /\ QuitInv

\* Where the next byte goes: explicit offsets do not move, implicit ones keep
\* up with what has been handed over.
OffsetInv ==
  /\ step # "idle" /\ prms.merge_type = "ALL" => base = offset
  /\ step # "idle" /\ prms.merge_type = "MEM" => Start(prms) = base + bytes_done
  /\ step = "work" /\ prms.merge_type = "MEM" => internal_offset = base + bytes_done
  /\ step = "divide" => /\ buflen > 0
                        /\ bytes_done > 0 /\ prms.merge_type = "MEM"
                             => internal_offset = base + bytes_done

-----------------------------------------------------------------------------
(* Arithmetic *)

\* Integer division leaves a remainder smaller than the divisor.
LEMMA Division ==
  ASSUME NEW a \in Nat, NEW b \in Nat \ {0}
  PROVE  a \div b \in Nat /\ b * (a \div b) <= a /\ a < b * (a \div b) + b
BY SMTT(30)

\* One chunk of a product.
LEMMA OneLess ==
  ASSUME NEW n \in Nat, NEW k \in Nat, NEW c \in Nat, k < n
  PROVE  (n - (k + 1)) * c = (n - k) * c - c /\ (n - k) * c >= c
BY SMTT(30)

\* The loop never cuts more than there is.
LEMMA EnoughForTheLoop ==
  ASSUME DivideTasksAssumption, WorkManagerAssumption, buflen \in Nat,
         buflen > MaxWriteBlockSize
  PROVE  /\ Chunk \in Nat /\ Chunk > 0 /\ Boundary \in Nat
         /\ Boundary * Chunk <= buflen
<1>1. MaxWriteBlockSize \in Nat \ {0} /\ ActiveThreads \in Nat \ {0}
  BY DEF DivideTasksAssumption, WorkManagerAssumption
<1>2. CASE EqualParts
  <2> DEFINE c == buflen \div ActiveThreads
  <2>1. c \in Nat /\ ActiveThreads * c <= buflen /\ c > MaxWriteBlockSize
    BY <1>1, <1>2, Division DEF EqualParts
  <2>2. Chunk = c /\ Boundary = ActiveThreads - 1
    BY <1>2 DEF Chunk, Boundary
  <2> HIDE DEF c
  <2>3. (ActiveThreads - 1) * c <= ActiveThreads * c
    BY <1>1, <2>1, SMTT(30)
  <2>4. (ActiveThreads - 1) * c \in Nat /\ ActiveThreads * c \in Nat
    BY <1>1, <2>1, SMTT(30)
  <2> QED BY <1>1, <2>1, <2>2, <2>3, <2>4
<1>3. CASE ~EqualParts
  <2> DEFINE n == buflen \div MaxWriteBlockSize
  <2>1. n \in Nat /\ MaxWriteBlockSize * n <= buflen
    BY <1>1, Division
  <2>2. Chunk = MaxWriteBlockSize /\ Boundary = n
    BY <1>3 DEF Chunk, Boundary
  <2> HIDE DEF n
  <2>3. MaxWriteBlockSize * n = n * MaxWriteBlockSize
    BY <1>1, <2>1, SMTT(30)
  <2> QED BY <1>1, <2>1, <2>2, <2>3
<1> QED BY <1>2, <1>3

-----------------------------------------------------------------------------
(* work_manager and the transfer of a block *)

\* The block made of the next len bytes.
NewBlock(len) ==
  FileBlock(nxt_slave, bytes_done, len,
            IF prms.merge_type = "MEM" THEN Start(prms) ELSE offset + bytes_done)

\* Handing over appends one block, for the next slave.
LEMMA Appended ==
  ASSUME WorkManagerAssumption, TypeOK, OneBuffer, NEW len \in Nat,
         NEW signal \in {"CONTINUE", "FINISH"}, HandOver(len, signal)
  PROVE  /\ NewBlock(len) \in BlockType
         /\ listiopool' = Append(listiopool, NewBlock(len))
         /\ DOMAIN listiopool = 1..Len(listiopool) /\ Len(listiopool) \in Nat
         /\ DOMAIN listiopool' = 1..(Len(listiopool) + 1)
         /\ \A k \in DOMAIN listiopool : listiopool'[k] = listiopool[k]
         /\ listiopool'[Len(listiopool) + 1] = NewBlock(len)
         /\ OneBuffer'
<1>1. /\ listiopool \in Seq(BlockType) /\ nxt_slave \in Active
      /\ bytes_done \in Nat /\ offset \in Nat /\ Start(prms) \in Nat
  BY StartType DEF TypeOK, WorkManagerTypeOK, BlockType, IovecType
<1>2. NewBlock(len) \in BlockType
  <2>1. (IF prms.merge_type = "MEM" THEN Start(prms) ELSE offset + bytes_done) \in Nat
    BY <1>1
  <2> QED BY <1>1, <2>1, FileBlockType DEF NewBlock
<1>3. listiopool' = Append(listiopool, NewBlock(len))
  BY DEF HandOver, WorkManager, AddToListiopool, NewBlock
<1>4. /\ DOMAIN listiopool = 1..Len(listiopool) /\ Len(listiopool) \in Nat
      /\ DOMAIN listiopool' = 1..(Len(listiopool) + 1)
      /\ \A k \in DOMAIN listiopool : listiopool'[k] = listiopool[k]
      /\ listiopool'[Len(listiopool) + 1] = NewBlock(len)
  BY <1>1, <1>2, <1>3
<1>5. Len(NewBlock(len).iov) = 1
  BY DEF NewBlock, FileBlock, Iovec
<1>6. OneBuffer'
  BY <1>4, <1>5 DEF OneBuffer
<1> QED BY <1>2, <1>3, <1>4, <1>6

\* Handing over keeps the types of work_manager.c.
LEMMA HandOverType ==
  ASSUME WorkManagerAssumption, TypeOK, NEW len \in Nat, NEW signal, HandOver(len, signal)
  PROVE  WorkManagerTypeOK'
BY PlannedType DEF TypeOK, HandOver

\* A transfer leaves the buffer of every block alone.
LEMMA OneBufferTaken ==
  ASSUME TypeOK, OneBuffer, NEW t, NEW k \in DOMAIN listiopool, NEW bytes, Transfer(t, k, bytes)
  PROVE  OneBuffer'
BY Taken DEF TypeOK, OneBuffer

\* What a block moves is a set of bytes in file and memory.
LEMMA BytesType ==
  ASSUME TypeOK, OneBuffer, NEW k \in DOMAIN listiopool
  PROVE  BufBytes(listiopool[k]) \subseteq Nat \X Nat
<1>1. /\ listiopool[k].offset \in Nat
      /\ listiopool[k].iov \in Seq([iov_base : Nat, iov_len : Nat])
      /\ Len(listiopool[k].iov) = 1
  BY PoolType DEF TypeOK, BlockType, IovecType, OneBuffer
<1>2. listiopool[k].iov[1] \in [iov_base : Nat, iov_len : Nat]
  <2>1. 1 \in 1..Len(listiopool[k].iov)
    BY <1>1
  <2> QED BY <1>1, <2>1, ElementOf, Zenon
<1>3. listiopool[k].iov[1].iov_base \in Nat /\ listiopool[k].iov[1].iov_len \in Nat
  BY <1>2
<1> QED BY <1>1, <1>3 DEF BufBytes

-----------------------------------------------------------------------------
(* Types, the loop and the quit flag *)

\* The values the initial state gives every variable have their types.
LEMMA InitType ==
  ASSUME WorkManagerAssumption, DivideTasksAssumption, Init
  PROVE  TypeOK /\ OneBuffer /\ LoopInv /\ QuitInv
<1>1. WorkManagerTypeOK
  BY InitialTypes DEF Init
<1>2. TypeOK
  BY <1>1 DEF Init, TypeOK, DivideTasksAssumption, ComInterfaces
<1> QED BY <1>2 DEF Init, WorkManagerInit, OneBuffer, LoopInv, QuitInv

\* Handing over len bytes moves the loop forward by len.
LEMMA LoopMoves ==
  ASSUME TypeOK, LoopInv, step \in {"base", "divide"}, NEW len \in Nat,
         NEW signal \in {"CONTINUE", "FINISH"},
         HandOver(len, signal), len <= bytes_remaining
  PROVE  /\ bytes_done' \in Nat /\ bytes_remaining' \in Nat
         /\ bytes_done' + bytes_remaining' = buflen /\ buflen' = buflen
         /\ all_quit_flag' = (all_quit_flag \/ signal = "FINISH")
BY DEF TypeOK, LoopInv, HandOver, args, WorkManager, Finishes

\* The state has its types, the loop always has enough left for the iterations
\* to come, and FINISH is sent exactly when nothing remains.
THEOREM LoopIsExact == Spec => [](TypeOK /\ OneBuffer /\ LoopInv /\ QuitInv)
<1> USE WorkManagerAssumption, DivideTasksAssumption
<1>1. Init => TypeOK /\ OneBuffer /\ LoopInv /\ QuitInv
  BY InitType
<1>2. TypeOK /\ OneBuffer /\ LoopInv /\ QuitInv /\ [Next]_vars
      => (TypeOK /\ OneBuffer /\ LoopInv /\ QuitInv)'
  <2> SUFFICES ASSUME TypeOK, OneBuffer, LoopInv, QuitInv, [Next]_vars
               PROVE  (TypeOK /\ OneBuffer /\ LoopInv /\ QuitInv)'
    OBVIOUS
  <2>t. /\ bytes_remaining \in Nat /\ bytes_done \in Nat /\ buflen \in Nat
        /\ i \in 0..boundary /\ chunk \in Nat /\ boundary \in Nat
        /\ step \in {"idle", "base", "divide", "work"}
    BY DEF TypeOK
  <2>1. ASSUME NEW p \in ComInterfaces, NEW len \in BufLens, NEW off \in Offsets,
               Call(p, len, off)
        PROVE  (TypeOK /\ OneBuffer /\ LoopInv /\ QuitInv)'
    <3>1. len \in Nat /\ off \in Nat /\ Start(p) \in Nat
      BY StartType DEF DivideTasksAssumption, TypeOK
    <3>2. WorkManagerTypeOK'
      BY <2>1 DEF Call, TypeOK, WorkManagerTypeOK
    <3>3. TypeOK'
      BY <2>1, <3>1, <3>2 DEF Call, TypeOK, loop, DivideTasksAssumption
    <3>4. listiopool = <<>> /\ listiopool' = <<>>
      BY <2>1 DEF Call, LoopInv
    <3> QED BY <2>1, <3>1, <3>3, <3>4 DEF Call, LoopInv, QuitInv, OneBuffer
  <2>2. CASE OneBlock
    <3>1. HandOver(buflen, "FINISH") /\ bytes_remaining = buflen /\ step = "base"
      BY <2>2 DEF OneBlock, LoopInv, TypeOK
    <3>2. WorkManagerTypeOK' /\ OneBuffer'
      BY <2>t, <3>1, HandOverType, Appended
    <3>3. bytes_done' \in Nat /\ bytes_remaining' = 0 /\ all_quit_flag'
          /\ bytes_done' + bytes_remaining' = buflen'
      <4>1. bytes_remaining' = bytes_remaining - buflen
        BY <3>1 DEF HandOver
      <4>2. bytes_done' \in Nat /\ all_quit_flag' = (all_quit_flag \/ "FINISH" = "FINISH")
            /\ bytes_done' + bytes_remaining' = buflen /\ buflen' = buflen
        BY <2>t, <3>1, LoopMoves
      <4>3. bytes_remaining' = 0
        BY <2>t, <3>1, <4>1
      <4>4. all_quit_flag'
        BY <4>2, Zenon
      <4> QED BY <4>2, <4>3, <4>4, Zenon
    <3>4. TypeOK'
      BY <2>2, <3>2, <3>3 DEF OneBlock, HandOver, args, loop, TypeOK
    <3> QED BY <2>2, <3>2, <3>3, <3>4 DEF OneBlock, LoopInv, QuitInv
  <2>3. CASE Divide
    <3>1. /\ Chunk \in Nat /\ Chunk > 0 /\ Boundary \in Nat
          /\ Boundary * Chunk <= buflen
      BY <2>3, <2>t, EnoughForTheLoop DEF Divide
    <3>2. WorkManagerTypeOK' /\ OneBuffer'
      BY <2>3 DEF Divide, wmVars, TypeOK, WorkManagerTypeOK, OneBuffer
    <3>3. TypeOK'
      BY <2>3, <3>1, <3>2 DEF Divide, args, TypeOK
    <3>4. bytes_remaining' = buflen /\ (boundary' - i') * chunk' = Boundary * Chunk
      BY <2>3, <3>1, <2>t DEF Divide, LoopInv
    <3>5. LoopInv'
      BY <2>3, <2>t, <3>1, <3>4 DEF Divide, args, LoopInv
    <3>6. bytes_remaining # 0
      BY <2>3, <2>t DEF Divide, LoopInv, DivideTasksAssumption
    <3> QED BY <2>3, <3>2, <3>3, <3>5, <3>6 DEF Divide, wmVars, QuitInv
  <2>4. CASE NextChunk
    <3>1. step = "divide" /\ i < boundary /\ HandOver(chunk, Signal)
          /\ Signal \in {"CONTINUE", "FINISH"} /\ chunk > 0
      BY <2>4 DEF NextChunk, Signal, LoopInv
    <3>2. (boundary - (i + 1)) * chunk = (boundary - i) * chunk - chunk
          /\ (boundary - i) * chunk >= chunk
      BY <2>t, <3>1, OneLess
    <3>a. (boundary - i) * chunk \in Int
      BY <2>t, SMTT(30)
    <3>3. chunk <= bytes_remaining
      BY <2>t, <3>1, <3>2, <3>a DEF LoopInv
    <3>4. WorkManagerTypeOK' /\ OneBuffer'
      BY <2>t, <3>1, HandOverType, Appended
    <3>5. /\ bytes_done' \in Nat /\ bytes_remaining' \in Nat
          /\ bytes_done' + bytes_remaining' = buflen /\ buflen' = buflen
          /\ all_quit_flag' = (all_quit_flag \/ Signal = "FINISH")
      BY <2>t, <3>1, <3>3, LoopMoves
    <3>6. TypeOK'
      BY <2>4, <2>t, <3>1, <3>4, <3>5 DEF NextChunk, HandOver, args, TypeOK
    <3>7. bytes_remaining' = bytes_remaining - chunk
          /\ bytes_remaining' >= (boundary - (i + 1)) * chunk
      <4>1. bytes_remaining' = bytes_remaining - chunk
        BY <3>1 DEF HandOver
      <4> QED BY <2>t, <3>1, <3>2, <3>a, <4>1 DEF LoopInv
    <3>8. LoopInv'
      BY <2>4, <3>1, <3>5, <3>7 DEF NextChunk, LoopInv
    <3>9. bytes_remaining # 0
      BY <2>t, <3>1, <3>3
    <3>10. QuitInv'
      <4>1. ~all_quit_flag /\ step' = "divide"
        BY <2>4, <3>1, <3>9 DEF NextChunk, QuitInv
      <4>2. Signal = "FINISH" <=> bytes_remaining = chunk
        BY DEF Signal
      <4>3. bytes_remaining' = 0 <=> bytes_remaining = chunk
        BY <2>t, <3>7
      <4> QED BY <3>5, <4>1, <4>2, <4>3 DEF QuitInv
    <3> QED BY <3>4, <3>6, <3>8, <3>10
  <2>5. CASE LastChunk
    <3>1. step = "divide" /\ step' = "work"
      BY <2>5 DEF LastChunk
    <3>2. CASE RestIsLeft /\ HandOver(bytes_remaining, "FINISH")
      <4>1. WorkManagerTypeOK' /\ OneBuffer'
        BY <2>t, <3>1, <3>2, HandOverType, Appended
      <4>2. bytes_done' \in Nat /\ bytes_remaining' = 0 /\ all_quit_flag'
            /\ bytes_done' + bytes_remaining' = buflen'
        <5>1. bytes_remaining' = bytes_remaining - bytes_remaining
          BY <3>2 DEF HandOver
        <5>2. bytes_done' \in Nat /\ all_quit_flag' = (all_quit_flag \/ "FINISH" = "FINISH")
              /\ bytes_done' + bytes_remaining' = buflen /\ buflen' = buflen
          BY <2>t, <3>1, <3>2, LoopMoves
        <5>3. bytes_remaining' = 0
          BY <2>t, <5>1
        <5>4. all_quit_flag'
          BY <5>2, Zenon
        <5> QED BY <5>2, <5>3, <5>4, Zenon
      <4>3. TypeOK'
        BY <2>5, <3>1, <3>2, <4>1, <4>2 DEF LastChunk, HandOver, args, loop, TypeOK
      <4> QED BY <3>1, <4>1, <4>2, <4>3 DEF LoopInv, QuitInv
    <3>3. CASE ~RestIsLeft /\ UNCHANGED <<wmVars, args, bytes_remaining, bytes_done>>
      <4>1. WorkManagerTypeOK' /\ OneBuffer'
        BY <3>3 DEF wmVars, TypeOK, WorkManagerTypeOK, OneBuffer
      <4>2. TypeOK'
        BY <2>5, <3>1, <3>3, <4>1 DEF LastChunk, args, loop, TypeOK
      <4> QED BY <3>1, <3>3, <4>1, <4>2
              DEF RestIsLeft, wmVars, args, LoopInv, QuitInv
    <3> QED BY <2>5, <3>2, <3>3 DEF LastChunk
  <2>6. ASSUME NEW t \in Active, Work(t)
        PROVE  (TypeOK /\ OneBuffer /\ LoopInv /\ QuitInv)'
    <3>1. PICK k \in DOMAIN listiopool : Transfer(t, k, BufBytes(listiopool[k]))
      BY <2>6 DEF Work
    <3>2. OneBuffer'
      BY <3>1, OneBufferTaken
    <3>3. BufBytes(listiopool[k]) \in SUBSET (Nat \X Nat)
      BY BytesType
    <3>4. position' \in Nat
      BY <2>6 DEF Work, TypeOK, WorkManagerTypeOK
    <3>5. WorkManagerTypeOK'
      BY <3>1, <3>3, <3>4, TransferType DEF TypeOK
    <3>6. TypeOK'
      BY <2>6, <3>5 DEF Work, args, loop, TypeOK
    <3>7. listiopool # <<>>
      BY <3>1
    <3>8. LoopInv'
      BY <2>6, <3>7 DEF Work, args, loop, LoopInv
    <3>9. QuitInv'
      BY <2>6, <3>1 DEF Work, Transfer, QuitInv
    <3> QED BY <3>2, <3>6, <3>8, <3>9
  <2>7. CASE Return
    <3>1. WorkManagerTypeOK'
      BY <2>7, ThreadFacts DEF Return, FreePool, TypeOK, WorkManagerTypeOK
    <3>2. TypeOK'
      BY <2>7, <3>1 DEF Return, args, loop, TypeOK
    <3> QED BY <2>7, <3>2 DEF Return, FreePool, OneBuffer, LoopInv, QuitInv
  <2>8. CASE UNCHANGED vars
    <3>1. WorkManagerTypeOK' /\ OneBuffer'
      BY <2>8 DEF vars, wmVars, TypeOK, WorkManagerTypeOK, OneBuffer
    <3> QED BY <2>8, <3>1 DEF vars, wmVars, args, loop, TypeOK, LoopInv, QuitInv
  <2> QED BY <2>1, <2>2, <2>3, <2>4, <2>5, <2>6, <2>7, <2>8 DEF Next, Terminating
<1> QED BY <1>1, <1>2, PTL DEF Spec

\* The state of work_manager.c and of the loop has its types.
THEOREM TypeCorrect == Spec => []TypeOK
BY LoopIsExact, PTL

\* The MASTER waits for the others only when everything is handed over and the
\* quit flag is up.
THEOREM QuitWhenHandedOverHolds == Spec => []QuitWhenHandedOver
<1>1. TypeOK /\ OneBuffer /\ LoopInv /\ QuitInv => QuitWhenHandedOver
  <2> SUFFICES ASSUME TypeOK, LoopInv, QuitInv, step = "work"
               PROVE  all_quit_flag /\ bytes_done = buflen
    BY DEF QuitWhenHandedOver
  <2>1. bytes_remaining = 0 /\ bytes_done + bytes_remaining = buflen
    BY DEF LoopInv
  <2>2. bytes_done = buflen
    BY <2>1 DEF TypeOK
  <2>3. all_quit_flag
    BY <2>1, Zenon DEF QuitInv
  <2> QED BY <2>2, <2>3
<1> QED BY <1>1, LoopIsExact, PTL

\* No block is added once the quit flag is up.
THEOREM NothingAfterQuitHolds == Spec => NothingAfterQuit
<1> USE WorkManagerAssumption, DivideTasksAssumption
<1> DEFINE Quiet == all_quit_flag /\ step # "idle" => Len(listiopool') <= Len(listiopool)
<1>1. TypeOK /\ OneBuffer /\ LoopInv /\ QuitInv /\ [Next]_vars => [Quiet]_vars
  <2> SUFFICES ASSUME TypeOK, OneBuffer, LoopInv, QuitInv, [Next]_vars,
                      all_quit_flag, step # "idle"
               PROVE  Len(listiopool') <= Len(listiopool)
    OBVIOUS
  <2>l. Len(listiopool) \in Nat
    BY PoolType DEF TypeOK
  <2>1. ASSUME NEW p \in ComInterfaces, NEW len \in BufLens, NEW off \in Offsets,
               Call(p, len, off)
        PROVE  FALSE
    BY <2>1 DEF Call
  <2>2. ~OneBlock /\ ~Divide
    BY DEF OneBlock, Divide, QuitInv
  <2>3. ~NextChunk
    <3> SUFFICES ASSUME NextChunk PROVE FALSE
      OBVIOUS
    <3>1. /\ step = "divide" /\ i < boundary /\ chunk > 0
          /\ i \in Nat /\ boundary \in Nat /\ chunk \in Nat /\ bytes_remaining \in Nat
          /\ bytes_remaining >= (boundary - i) * chunk
      BY DEF NextChunk, LoopInv, TypeOK
    <3>2. (boundary - i) * chunk >= chunk /\ (boundary - i) * chunk \in Int
      BY <3>1, OneLess, SMTT(30)
    <3>3. bytes_remaining # 0
      BY <3>1, <3>2
    <3> QED BY <3>1, <3>3, Zenon DEF QuitInv
  <2>4. CASE LastChunk
    <3>1. ~RestIsLeft
      BY <2>4, Zenon DEF LastChunk, RestIsLeft, QuitInv
    <3>2. listiopool' = listiopool
      BY <2>4, <3>1 DEF LastChunk, wmVars
    <3> QED BY <2>l, <3>2
  <2>5. ASSUME NEW t \in Active, Work(t)
        PROVE  Len(listiopool') <= Len(listiopool)
    <3>1. PICK k \in DOMAIN listiopool : Transfer(t, k, BufBytes(listiopool[k]))
      BY <2>5 DEF Work
    <3>2. listiopool' \in Seq(BlockType) /\ DOMAIN listiopool' = DOMAIN listiopool
      BY <3>1, Taken DEF TypeOK
    <3>3. listiopool \in Seq(BlockType)
      BY PoolType DEF TypeOK
    <3>4. Len(listiopool') = Len(listiopool)
      BY <3>2, <3>3
    <3> QED BY <2>l, <3>4
  <2>6. CASE Return
    BY <2>6, <2>l DEF Return, FreePool
  <2>7. CASE UNCHANGED vars
    BY <2>7, <2>l DEF vars, wmVars
  <2> QED BY <2>1, <2>2, <2>3, <2>4, <2>5, <2>6, <2>7 DEF Next, Terminating
<1> QED BY <1>1, LoopIsExact, PTL DEF Spec, NothingAfterQuit

-----------------------------------------------------------------------------
(* Every byte at its place *)

\* An interface either keeps implicit offsets or takes explicit ones.
LEMMA MergeTypes == \A p \in ComInterfaces : p.merge_type \in {"MEM", "ALL"}
BY DEF ComInterfaces, ReadComAll, ReadComAtAll, WriteComAll, WriteComAtAll,
       ReadAll, WriteAll

\* An implicit offset, once it has been set, is where the next byte goes.
LEMMA StartSet ==
  ASSUME internal_offset # -1, NEW p
  PROVE  Start(p) = internal_offset
BY DEF Start

\* Handing over puts the bytes where the buffer's next bytes belong, and moves
\* the implicit offset behind them.
LEMMA OffsetMoves ==
  ASSUME Exact, OffsetInv, step # "idle", NEW len \in Nat,
         NEW signal \in {"CONTINUE", "FINISH"}, HandOver(len, signal)
  PROVE  /\ (IF prms.merge_type = "MEM" THEN Start(prms) ELSE offset + bytes_done)
              = base + bytes_done
         /\ prms.merge_type = "MEM" => /\ internal_offset' = base + bytes_done'
                                       /\ Start(prms)' = base' + bytes_done'
         /\ prms' = prms /\ offset' = offset /\ base' = base /\ buflen' = buflen
<1>1. prms' = prms /\ offset' = offset /\ base' = base /\ buflen' = buflen
  BY DEF HandOver, args
<1>2. /\ base \in Nat /\ bytes_done \in Nat /\ offset \in Nat /\ Start(prms) \in Nat
      /\ prms.merge_type \in {"MEM", "ALL"} /\ bytes_done' = bytes_done + len
  BY MergeTypes, StartType DEF Exact, TypeOK, HandOver
<1>3. (IF prms.merge_type = "MEM" THEN Start(prms) ELSE offset + bytes_done)
        = base + bytes_done
  BY <1>2 DEF OffsetInv
<1>4. ASSUME prms.merge_type = "MEM"
      PROVE  internal_offset' = base + bytes_done' /\ Start(prms)' = base' + bytes_done'
  <2>1. internal_offset' = Start(prms) + len
    BY <1>4 DEF HandOver, WorkManager, OffsetAfter
  <2>2. Start(prms) = base + bytes_done
    BY <1>4 DEF OffsetInv
  <2>3. internal_offset' = base + bytes_done' /\ internal_offset' # -1
    BY <1>2, <2>1, <2>2
  <2>4. Start(prms)' = internal_offset'
    BY <2>3 DEF Start
  <2> QED BY <1>1, <2>3, <2>4
<1> QED BY <1>1, <1>3, <1>4

\* Explicit offsets stay, implicit ones keep up with the bytes handed over.
THEOREM OffsetsKeepUp == Spec => []OffsetInv
<1> USE WorkManagerAssumption, DivideTasksAssumption
<1>1. Init => OffsetInv
  BY DEF Init, OffsetInv
<1>2. Exact /\ OffsetInv /\ [Next]_vars => OffsetInv'
  <2> SUFFICES ASSUME Exact, OffsetInv, [Next]_vars
               PROVE  OffsetInv'
    OBVIOUS
  <2>t. /\ bytes_remaining \in Nat /\ bytes_done \in Nat /\ buflen \in Nat /\ chunk \in Nat
        /\ base \in Nat /\ offset \in Nat
    BY DEF Exact, TypeOK
  <2>1. ASSUME NEW p \in ComInterfaces, NEW len \in BufLens, NEW off \in Offsets,
               Call(p, len, off)
        PROVE  OffsetInv'
    <3>1. Start(p)' = Start(p) /\ Start(p) \in Nat
      BY <2>1, StartType DEF Call, Start, Exact, TypeOK
    <3>2. prms' = p /\ step' = "base" /\ bytes_done' = 0 /\ offset' = off
          /\ base' = IF p.merge_type = "MEM" THEN Start(p) ELSE off
      BY <2>1 DEF Call
    <3>3. Start(prms)' = Start(p)
      BY <2>1, <3>2 DEF Call, Start
    <3> QED BY <3>1, <3>2, <3>3 DEF OffsetInv
  <2>2. CASE OneBlock
    <3>1. step = "base" /\ step' = "work" /\ HandOver(buflen, "FINISH")
      BY <2>2 DEF OneBlock
    <3>2. /\ prms.merge_type = "MEM" => /\ internal_offset' = base + bytes_done'
                                        /\ Start(prms)' = base' + bytes_done'
          /\ prms' = prms /\ offset' = offset /\ base' = base
      BY <2>t, <3>1, OffsetMoves
    <3> QED BY <3>1, <3>2 DEF OffsetInv
  <2>3. CASE Divide
    <3>1. /\ prms' = prms /\ offset' = offset /\ base' = base /\ buflen' = buflen
          /\ internal_offset' = internal_offset /\ position' = position
          /\ bytes_done' = bytes_done /\ step' = "divide" /\ step = "base"
          /\ buflen > MaxWriteBlockSize
      BY <2>3 DEF Divide, args, wmVars
    <3>2. Start(prms)' = Start(prms)
      BY <3>1 DEF Start
    <3>3. bytes_done = 0
      BY <3>1 DEF Exact, LoopInv
    <3> QED BY <2>t, <3>1, <3>2, <3>3 DEF OffsetInv, DivideTasksAssumption
  <2>4. CASE NextChunk
    <3>1. /\ step = "divide" /\ step' = "divide" /\ HandOver(chunk, Signal)
          /\ Signal \in {"CONTINUE", "FINISH"}
      BY <2>4 DEF NextChunk, Signal
    <3>2. /\ prms.merge_type = "MEM" => /\ internal_offset' = base + bytes_done'
                                        /\ Start(prms)' = base' + bytes_done'
          /\ prms' = prms /\ offset' = offset /\ base' = base /\ buflen' = buflen
      BY <2>t, <3>1, OffsetMoves
    <3> QED BY <3>1, <3>2 DEF OffsetInv
  <2>5. CASE LastChunk
    <3>1. step = "divide" /\ step' = "work"
      BY <2>5 DEF LastChunk
    <3>2. CASE HandOver(bytes_remaining, "FINISH")
      <4>1. /\ prms.merge_type = "MEM" => /\ internal_offset' = base + bytes_done'
                                          /\ Start(prms)' = base' + bytes_done'
            /\ prms' = prms /\ offset' = offset /\ base' = base
        BY <2>t, <3>1, <3>2, OffsetMoves
      <4> QED BY <3>1, <4>1 DEF OffsetInv
    <3>3. CASE ~RestIsLeft /\ UNCHANGED <<wmVars, args, bytes_remaining, bytes_done>>
      <4>1. /\ prms' = prms /\ offset' = offset /\ base' = base
            /\ internal_offset' = internal_offset /\ position' = position
            /\ bytes_done' = bytes_done
        BY <3>3 DEF args, wmVars
      <4>2. Start(prms)' = Start(prms)
        BY <4>1 DEF Start
      <4>3. bytes_done = buflen /\ buflen > 0
        BY <2>t, <3>1, <3>3 DEF RestIsLeft, Exact, LoopInv, OffsetInv
      <4> QED BY <2>t, <3>1, <4>1, <4>2, <4>3 DEF OffsetInv
    <3> QED BY <2>5, <3>2, <3>3 DEF LastChunk
  <2>6. ASSUME NEW t \in Active, Work(t)
        PROVE  OffsetInv'
    <3>1. PICK k \in DOMAIN listiopool : Transfer(t, k, BufBytes(listiopool[k]))
      BY <2>6 DEF Work
    <3>2. /\ prms' = prms /\ offset' = offset /\ base' = base /\ buflen' = buflen
          /\ internal_offset' = internal_offset /\ position' = position
          /\ bytes_done' = bytes_done /\ step' = step
      BY <2>6, <3>1 DEF Work, Transfer, args
    <3>3. Start(prms)' = Start(prms)
      BY <3>2 DEF Start
    <3> QED BY <3>2, <3>3 DEF OffsetInv
  <2>7. CASE Return
    BY <2>7 DEF Return, OffsetInv
  <2>8. CASE UNCHANGED vars
    BY <2>8 DEF vars, wmVars, args, OffsetInv, Start
  <2> QED BY <2>1, <2>2, <2>3, <2>4, <2>5, <2>6, <2>7, <2>8 DEF Next, Terminating
<1> QED BY <1>1, <1>2, LoopIsExact, PTL DEF Spec, Exact

-----------------------------------------------------------------------------
(* What is counted is in the pool *)

\* A thread that has done all that is counted for it has nothing in the pool.
THEOREM CountedAreAssignedHolds == Spec => []CountedAreAssigned
<1> USE WorkManagerAssumption, DivideTasksAssumption
<1>1. Init => CountedAreAssigned
  BY InitialCounted DEF Init
<1>2. Exact /\ CountedAreAssigned /\ [Next]_vars => CountedAreAssigned'
  <2> SUFFICES ASSUME Exact, CountedAreAssigned, [Next]_vars PROVE CountedAreAssigned'
    OBVIOUS
  <2>t. /\ WorkManagerTypeOK /\ buflen \in Nat /\ chunk \in Nat /\ bytes_remaining \in Nat
        /\ bytes_done \in Nat /\ offset \in Nat /\ offset + bytes_done \in Nat
    BY DEF Exact, TypeOK
  <2>h. ASSUME NEW len \in Nat, NEW signal, HandOver(len, signal) PROVE CountedAreAssigned'
    BY <2>t, <2>h, PlannedCounted DEF HandOver
  <2>s. ASSUME UNCHANGED <<listiopool, listlen, completed>> PROVE CountedAreAssigned'
    BY <2>s DEF CountedAreAssigned
  <2>1. ASSUME NEW p \in ComInterfaces, NEW len \in BufLens, NEW off \in Offsets,
               Call(p, len, off)
        PROVE  CountedAreAssigned'
    BY <2>1, <2>s DEF Call
  <2>2. CASE OneBlock
    BY <2>2, <2>t, <2>h DEF OneBlock
  <2>3. CASE Divide
    BY <2>3, <2>s DEF Divide, wmVars
  <2>4. CASE NextChunk
    BY <2>4, <2>t, <2>h DEF NextChunk
  <2>5. CASE LastChunk
    BY <2>5, <2>t, <2>h, <2>s DEF LastChunk, wmVars
  <2>6. ASSUME NEW u \in Active, Work(u) PROVE CountedAreAssigned'
    BY <2>t, <2>6, TransferCounted DEF Work
  <2>7. CASE Return
    BY <2>7, FreedCounted DEF Return
  <2>8. CASE UNCHANGED vars
    BY <2>8, <2>s DEF vars, wmVars
  <2> QED BY <2>1, <2>2, <2>3, <2>4, <2>5, <2>6, <2>7, <2>8 DEF Next, Terminating
<1> QED BY <1>1, <1>2, LoopIsExact, PTL DEF Spec, Exact

-----------------------------------------------------------------------------
(* The bytes of the buffer *)

\* What waits in the pool.
Pending == UNION {BufBytes(listiopool[k]) : k \in Waiting}

\* The next len bytes go on where the first n end.
LEMMA PrefixGrows ==
  ASSUME base \in Nat, NEW n \in Nat, NEW len \in Nat
  PROVE  Prefix(n + len) = Prefix(n) \cup {<<base + n + d, n + d>> : d \in 0..(len - 1)}
<1> DEFINE More == {<<base + n + d, n + d>> : d \in 0..(len - 1)}
<1>1. ASSUME NEW d \in 0..(n + len - 1)
      PROVE  <<base + d, d>> \in Prefix(n) \cup More
  <2>1. CASE d < n
    BY <2>1 DEF Prefix
  <2>2. CASE d >= n
    <3>1. d - n \in 0..(len - 1) /\ base + n + (d - n) = base + d /\ n + (d - n) = d
      BY <2>2
    <3> QED BY <3>1
  <2> QED BY <2>1, <2>2
<1>2. ASSUME NEW d \in 0..(n - 1)
      PROVE  <<base + d, d>> \in Prefix(n + len)
  BY <1>2 DEF Prefix
<1>3. ASSUME NEW d \in 0..(len - 1)
      PROVE  <<base + n + d, n + d>> \in Prefix(n + len)
  <2>1. n + d \in 0..(n + len - 1) /\ base + (n + d) = base + n + d
    OBVIOUS
  <2> QED BY <2>1 DEF Prefix
<1> QED BY <1>1, <1>2, <1>3 DEF Prefix

\* Handing over adds the next bytes of the buffer to what waits.
LEMMA PendingGrows ==
  ASSUME WorkManagerAssumption, Exact, OffsetInv, step # "idle", NEW len \in Nat,
         NEW signal \in {"CONTINUE", "FINISH"}, HandOver(len, signal)
  PROVE  Pending' = Pending \cup {<<base + bytes_done + d, bytes_done + d>> : d \in 0..(len - 1)}
<1> DEFINE last == Len(listiopool) + 1
<1>1. /\ DOMAIN listiopool = 1..Len(listiopool) /\ Len(listiopool) \in Nat
      /\ DOMAIN listiopool' = 1..last
      /\ \A k \in DOMAIN listiopool : listiopool'[k] = listiopool[k]
      /\ listiopool'[last] = NewBlock(len)
  BY Appended DEF Exact
<1>2. (IF prms.merge_type = "MEM" THEN Start(prms) ELSE offset + bytes_done)
        = base + bytes_done
  BY OffsetMoves
<1>3. NewBlock(len) = FileBlock(nxt_slave, bytes_done, len, base + bytes_done)
  BY <1>2 DEF NewBlock
<1>4. NewBlock(len).assigned_to # Nobody
  <2>1. nxt_slave \in Active
    BY DEF Exact, TypeOK, WorkManagerTypeOK
  <2> QED BY <2>1, <1>3, ThreadFacts DEF FileBlock
<1>5. BufBytes(NewBlock(len))
        = {<<base + bytes_done + d, bytes_done + d>> : d \in 0..(len - 1)}
  BY <1>3 DEF BufBytes, FileBlock, Iovec
<1>6. Waiting' = Waiting \cup {last}
  BY <1>1, <1>4 DEF Waiting
<1>7. \A k \in Waiting : BufBytes(listiopool'[k]) = BufBytes(listiopool[k])
  BY <1>1 DEF Waiting
<1>8. Pending' = UNION {BufBytes(listiopool'[k]) : k \in Waiting \cup {last}}
  BY <1>6 DEF Pending, BufBytes
<1> HIDE DEF last
<1>9. Pending' = (UNION {BufBytes(listiopool'[k]) : k \in Waiting}) \cup BufBytes(listiopool'[last])
  BY <1>8
<1>10. (UNION {BufBytes(listiopool'[k]) : k \in Waiting}) = Pending
  BY <1>7 DEF Pending
<1> QED BY <1>1, <1>5, <1>9, <1>10

\* A transfer takes from what waits exactly what it moves.
LEMMA PendingMoved ==
  ASSUME WorkManagerAssumption, Exact, NEW t \in Active,
         NEW k \in DOMAIN listiopool, Transfer(t, k, BufBytes(listiopool[k]))
  PROVE  transferred' \cup Pending' = transferred \cup Pending
<1>1. /\ listiopool[k].assigned_to = t /\ listiopool'[k].assigned_to = Nobody
      /\ DOMAIN listiopool' = DOMAIN listiopool
      /\ \A j \in DOMAIN listiopool : j # k => listiopool'[j] = listiopool[j]
  BY Taken DEF Exact, TypeOK
<1>2. Waiting' = Waiting \ {k} /\ k \in Waiting
  BY <1>1, ThreadFacts DEF Waiting
<1>3. \A j \in Waiting \ {k} : BufBytes(listiopool'[j]) = BufBytes(listiopool[j])
  BY <1>1 DEF Waiting
<1>4. Pending' = UNION {BufBytes(listiopool'[j]) : j \in Waiting \ {k}}
  BY <1>2 DEF Pending, BufBytes
<1>5. Pending' = UNION {BufBytes(listiopool[j]) : j \in Waiting \ {k}}
  BY <1>3, <1>4
<1>6. Pending = Pending' \cup BufBytes(listiopool[k])
  BY <1>2, <1>5 DEF Pending
<1>7. transferred' = transferred \cup BufBytes(listiopool[k])
  BY DEF Transfer
<1> QED BY <1>6, <1>7

\* Nothing waits when every thread has done what is counted for it.
LEMMA NothingWaits ==
  ASSUME TypeOK, CountedAreAssigned, AllDone
  PROVE  Waiting = {}
<1> SUFFICES ASSUME NEW k \in Waiting PROVE FALSE
  OBVIOUS
<1> DEFINE t == listiopool[k].assigned_to
<1>1. k \in DOMAIN listiopool /\ t # Nobody /\ t \in Active \cup {Nobody}
  BY PoolType DEF TypeOK, Waiting, BlockType
<1>2. t \in Active /\ k \in Mine(t)
  BY <1>1 DEF Mine
<1> HIDE DEF t
<1>3. Cardinality(Mine(t)) = listlen[t] - completed[t]
  BY <1>2 DEF CountedAreAssigned, Mine
<1>4. listlen[t] \in Nat /\ completed[t] = listlen[t]
  BY <1>2 DEF AllDone, TypeOK, WorkManagerTypeOK
<1>5. Cardinality(Mine(t)) = 0
  BY <1>3, <1>4
<1>6. Mine(t) = {}
  BY <1>5, MineFinite, FS_EmptySet DEF TypeOK
<1> QED BY <1>2, <1>6

\* At any time the part of the buffer that has been handed over has been moved
\* or waits in the pool, and when the call returns all of it has been moved.
THEOREM BufferIsTiled == Spec => [](Tiled /\ WholeBufferMoved)
<1> USE WorkManagerAssumption, DivideTasksAssumption
<1> DEFINE Covered == step # "idle" => transferred \cup Pending = Prefix(bytes_done)
           Inv == Exact /\ OffsetInv /\ CountedAreAssigned
<1>1. Init => Covered /\ WholeBufferMoved
  BY DEF Init, WholeBufferMoved
<1>2. Inv /\ Covered /\ WholeBufferMoved /\ [Next]_vars => Covered' /\ WholeBufferMoved'
  <2> SUFFICES ASSUME Inv, Covered, WholeBufferMoved, [Next]_vars
               PROVE  Covered' /\ WholeBufferMoved'
    OBVIOUS
  <2>t. /\ TypeOK /\ bytes_remaining \in Nat /\ bytes_done \in Nat /\ buflen \in Nat
        /\ chunk \in Nat /\ base \in Nat /\ Exact /\ OffsetInv /\ CountedAreAssigned
    BY DEF Exact, TypeOK
  <2>h. ASSUME step # "idle", step' # "idle", NEW len \in Nat,
               NEW signal \in {"CONTINUE", "FINISH"}, HandOver(len, signal)
        PROVE  Covered' /\ WholeBufferMoved'
    <3> DEFINE More == {<<base + bytes_done + d, bytes_done + d>> : d \in 0..(len - 1)}
    <3>1. transferred' = transferred /\ base' = base /\ bytes_done' = bytes_done + len
      BY <2>h DEF HandOver, WorkManager, args
    <3>2. Pending' = Pending \cup More
      BY <2>t, <2>h, PendingGrows
    <3>3. Prefix(bytes_done + len) = Prefix(bytes_done) \cup More
      BY <2>t, PrefixGrows
    <3>4. Prefix(bytes_done)' = Prefix(bytes_done + len)
      BY <3>1 DEF Prefix
    <3> HIDE DEF More
    <3>5. transferred' \cup Pending' = Prefix(bytes_done)'
      BY <2>h, <3>1, <3>2, <3>3, <3>4
    <3> QED BY <2>h, <3>5 DEF WholeBufferMoved
  <2>1. ASSUME NEW p \in ComInterfaces, NEW len \in BufLens, NEW off \in Offsets,
               Call(p, len, off)
        PROVE  Covered' /\ WholeBufferMoved'
    <3>1. transferred' = {} /\ bytes_done' = 0 /\ step' = "base" /\ listiopool' = <<>>
      BY <2>1, <2>t DEF Call, Exact, LoopInv
    <3>2. Pending' = {} /\ Prefix(bytes_done)' = {}
      BY <3>1 DEF Pending, Waiting, Prefix
    <3> QED BY <3>1, <3>2 DEF WholeBufferMoved
  <2>2. CASE OneBlock
    BY <2>2, <2>t, <2>h DEF OneBlock
  <2>3. CASE Divide
    <3>1. step = "base" /\ step' = "divide" /\ UNCHANGED <<listiopool, transferred, base, bytes_done>>
      BY <2>3 DEF Divide, wmVars, args
    <3> QED BY <3>1 DEF Pending, Waiting, BufBytes, Prefix, WholeBufferMoved
  <2>4. CASE NextChunk
    <3>1. step = "divide" /\ step' = "divide" /\ HandOver(chunk, Signal)
          /\ Signal \in {"CONTINUE", "FINISH"}
      BY <2>4 DEF NextChunk, Signal
    <3> QED BY <3>1, <2>t, <2>h
  <2>5. CASE LastChunk
    <3>1. step = "divide" /\ step' = "work"
      BY <2>5 DEF LastChunk
    <3>2. CASE HandOver(bytes_remaining, "FINISH")
      BY <3>1, <3>2, <2>t, <2>h
    <3>3. CASE UNCHANGED <<wmVars, args, bytes_remaining, bytes_done>>
      BY <3>1, <3>3 DEF wmVars, args, Pending, Waiting, BufBytes, Prefix, WholeBufferMoved
    <3> QED BY <2>5, <3>2, <3>3 DEF LastChunk
  <2>6. ASSUME NEW t \in Active, Work(t)
        PROVE  Covered' /\ WholeBufferMoved'
    <3>1. PICK k \in DOMAIN listiopool : Transfer(t, k, BufBytes(listiopool[k]))
      BY <2>6 DEF Work
    <3>2. transferred' \cup Pending' = transferred \cup Pending
      BY <2>t, <3>1, PendingMoved
    <3>3. step' = step /\ base' = base /\ bytes_done' = bytes_done
      BY <2>6 DEF Work, args
    <3>4. step # "idle"
      BY <2>t, <3>1 DEF Exact, LoopInv
    <3> QED BY <3>2, <3>3, <3>4 DEF Prefix, WholeBufferMoved
  <2>7. CASE Return
    <3>1. /\ step = "work" /\ step' = "idle" /\ AllDone
          /\ UNCHANGED <<transferred, internal_offset, prms, buflen, base>>
      BY <2>7 DEF Return, FreePool, args
    <3>2. Waiting = {}
      BY <2>t, <3>1, NothingWaits
    <3>3. transferred = Prefix(bytes_done)
      BY <3>1, <3>2 DEF Pending
    <3>4. bytes_done = buflen
      BY <2>t, <3>1 DEF Exact, LoopInv
    <3>5. prms.merge_type = "MEM" => internal_offset = base + buflen
      BY <2>t, <3>1, <3>4 DEF OffsetInv
    <3> QED BY <3>1, <3>3, <3>4, <3>5 DEF Prefix, WholeBufferMoved
  <2>8. CASE UNCHANGED vars
    BY <2>8 DEF vars, wmVars, args, Pending, Waiting, BufBytes, Prefix, WholeBufferMoved
  <2> QED BY <2>1, <2>2, <2>3, <2>4, <2>5, <2>6, <2>7, <2>8 DEF Next, Terminating
<1>3. Covered => Tiled
  BY DEF Tiled, Pending
<1> HIDE DEF Covered
<1>4. Spec => [](Exact /\ OffsetInv /\ CountedAreAssigned)
  BY LoopIsExact, OffsetsKeepUp, CountedAreAssignedHolds, PTL DEF Exact
<1> QED BY <1>1, <1>2, <1>3, <1>4, PTL DEF Spec

\* A common call returns with exactly the whole buffer moved.
THEOREM WholeBufferIsMoved == Spec => []WholeBufferMoved
<1>1. Tiled /\ WholeBufferMoved => WholeBufferMoved
  OBVIOUS
<1> QED BY <1>1, BufferIsTiled, PTL

-----------------------------------------------------------------------------
(* The round robin *)

\* Until FINISH sets nxt_slave back for the next call the slaves before it are one
\* block ahead of the MASTER.
RoundRobinInv ==
  /\ Balanced
  /\ step # "idle" /\ ~all_quit_flag => RoundRobin
  /\ step = "idle" => \A t \in Active : listlen[t] = 0
  /\ step = "idle" \/ all_quit_flag => nxt_slave = FirstSlave

\* A block that is handed over keeps the shares balanced.
LEMMA RoundRobinKept ==
  ASSUME WorkManagerAssumption, TypeOK, step # "idle", step' # "idle", ~all_quit_flag,
         RoundRobin, NEW len, NEW signal, HandOver(len, signal)
  PROVE  RoundRobinInv'
<1>1. /\ Balanced'
      /\ Finishes(signal) => nxt_slave' = FirstSlave
      /\ ~Finishes(signal) => RoundRobin'
  BY RoundRobinMoves DEF TypeOK, HandOver
<1>2. all_quit_flag' = (all_quit_flag \/ Finishes(signal))
  BY DEF HandOver, WorkManager
<1>3. FirstSlave' = FirstSlave
  BY DEF FirstSlave
<1>4. all_quit_flag' <=> Finishes(signal)
  BY <1>2, Zenon
<1> QED BY <1>1, <1>3, <1>4, Zenon DEF RoundRobinInv

\* No thread gets two blocks more than another, and none fewer than the MASTER.
THEOREM BalancedHolds == Spec => []Balanced
<1> USE WorkManagerAssumption, DivideTasksAssumption
<1>1. Init => RoundRobinInv
  BY ThreadFacts DEF Init, WorkManagerInit, RoundRobinInv, Balanced
<1>2. Exact /\ RoundRobinInv /\ [Next]_vars => RoundRobinInv'
  <2> SUFFICES ASSUME Exact, RoundRobinInv, [Next]_vars
               PROVE  RoundRobinInv'
    OBVIOUS
  <2>t. /\ TypeOK /\ bytes_remaining \in Nat /\ buflen \in Nat /\ chunk \in Nat
        /\ i \in 0..boundary /\ boundary \in Nat
        /\ listlen \in [Active -> Nat] /\ nxt_slave \in Active
        /\ MASTER \in Active /\ FirstSlave' = FirstSlave
    BY ThreadFacts DEF Exact, TypeOK, WorkManagerTypeOK, FirstSlave
  <2>s. ASSUME step # "idle", step' # "idle",
               UNCHANGED <<listlen, nxt_slave, all_quit_flag>>
        PROVE  RoundRobinInv'
    BY <2>s DEF RoundRobinInv, RoundRobin, Balanced, FirstSlave
  <2>1. ASSUME NEW p \in ComInterfaces, NEW len \in BufLens, NEW off \in Offsets,
               Call(p, len, off)
        PROVE  RoundRobinInv'
    <3>1. /\ step = "idle" /\ step' = "base" /\ ~all_quit_flag'
          /\ listlen' = listlen /\ nxt_slave' = nxt_slave
      BY <2>1 DEF Call
    <3>2. (\A t \in Active : listlen[t] = 0) /\ nxt_slave = FirstSlave
      BY <3>1 DEF RoundRobinInv
    <3>3. RoundRobin'
      BY <2>t, <3>1, <3>2 DEF RoundRobin, FirstSlave, MASTER, Active
    <3>4. Balanced'
      BY <2>t, <3>1, <3>2 DEF Balanced
    <3> QED BY <3>1, <3>3, <3>4, Zenon DEF RoundRobinInv
  <2>2. CASE OneBlock
    <3>1. step = "base" /\ step' = "work" /\ HandOver(buflen, "FINISH") /\ ~all_quit_flag
      BY <2>2 DEF OneBlock, Exact, QuitInv
    <3> QED BY <2>t, <3>1, RoundRobinKept DEF RoundRobinInv
  <2>3. CASE Divide
    BY <2>3, <2>s DEF Divide, wmVars
  <2>4. CASE NextChunk
    <3>1. /\ step = "divide" /\ step' = "divide" /\ HandOver(chunk, Signal)
          /\ Signal \in {"CONTINUE", "FINISH"} /\ i < boundary /\ chunk > 0
          /\ bytes_remaining >= (boundary - i) * chunk
      BY <2>4 DEF NextChunk, Signal, Exact, LoopInv
    <3>2. (boundary - i) * chunk >= chunk /\ (boundary - i) * chunk \in Int
      BY <2>t, <3>1, OneLess, SMTT(30)
    <3>3. bytes_remaining # 0
      BY <2>t, <3>1, <3>2
    <3>4. ~all_quit_flag
      BY <3>1, <3>3, Zenon DEF Exact, QuitInv
    <3> QED BY <2>t, <3>1, <3>4, RoundRobinKept DEF RoundRobinInv
  <2>5. CASE LastChunk
    <3>1. step = "divide" /\ step' = "work"
      BY <2>5 DEF LastChunk
    <3>2. CASE RestIsLeft /\ HandOver(bytes_remaining, "FINISH")
      <4>1. ~all_quit_flag
        BY <3>1, <3>2, Zenon DEF RestIsLeft, Exact, QuitInv
      <4> QED BY <2>t, <3>1, <3>2, <4>1, RoundRobinKept DEF RoundRobinInv
    <3>3. CASE UNCHANGED <<wmVars, args, bytes_remaining, bytes_done>>
      BY <3>1, <3>3, <2>s DEF wmVars
    <3> QED BY <2>5, <3>2, <3>3 DEF LastChunk
  <2>6. ASSUME NEW t \in Active, Work(t)
        PROVE  RoundRobinInv'
    <3>1. PICK k \in DOMAIN listiopool : Transfer(t, k, BufBytes(listiopool[k]))
      BY <2>6 DEF Work
    <3>2. step # "idle"
      BY <3>1 DEF Exact, LoopInv
    <3> QED BY <2>6, <2>s, <3>1, <3>2 DEF Work, Transfer
  <2>7. CASE Return
    <3>1. /\ step' = "idle" /\ nxt_slave' = nxt_slave /\ all_quit_flag
          /\ listlen' = [t \in Active |-> 0]
      BY <2>7 DEF Return, FreePool, AllDone
    <3>2. nxt_slave = FirstSlave
      BY <3>1 DEF RoundRobinInv
    <3> QED BY <2>t, <3>1, <3>2 DEF RoundRobinInv, Balanced
  <2>8. CASE UNCHANGED vars
    BY <2>8, <2>t DEF vars, wmVars, RoundRobinInv, RoundRobin, Balanced
  <2> QED BY <2>1, <2>2, <2>3, <2>4, <2>5, <2>6, <2>7, <2>8 DEF Next, Terminating
<1>3. RoundRobinInv => Balanced
  BY DEF RoundRobinInv
<1> QED BY <1>1, <1>2, <1>3, LoopIsExact, PTL DEF Spec, Exact

=============================================================================
