-------------------------- MODULE Transfers_proofs --------------------------
(***************************************************************************)
(* Proofs about the low-level transfers, for every set of threads and all  *)
(* lengths and offsets.                                                    *)
(***************************************************************************)
EXTENDS Transfers, TLAPS

\* What belongs to a thread alone: one step of another thread changes none of it.
Mine(t) ==
  <<pc[t], op[t], buflen[t], from[t], offset[t], bytes_written[t],
    bytes_remaining[t], result[t], moved[t], short[t]>>

\* The system call a thread is about to make belongs to the function it is in.
CallInv(t) ==
  /\ pc[t] = "pwrite" => op[t] = "_pwrite"
  /\ pc[t] = "pread" => op[t] = "_pread"
  /\ pc[t] \in {"lseek", "vector"} => op[t] \in {"_writev", "_readv"}

\* The single-shot functions have moved nothing before their transfer, and have
\* set the position to the offset; afterwards, a prefix.
SingleInv(t) ==
  op[t] # "_pwrite" =>
    /\ pc[t] # "idle" =>
         /\ moved[t] = {}
         /\ offset[t] = from[t] /\ bytes_remaining[t] = buflen[t]
    /\ pc[t] = "vector" => position[t] = offset[t]
    /\ pc[t] = "idle" => \E n \in 0..buflen[t] : moved[t] = First(t, n)

\* The loop of _pwrite: the offset and the rest add up; the range before the
\* offset is written; another pwrite of all the rest stays within the buffer.
LoopInv(t) ==
  op[t] = "_pwrite" =>
    /\ from[t] <= offset[t]
    /\ offset[t] + bytes_remaining[t] = from[t] + buflen[t]
    /\ FilePositions(moved[t]) = from[t]..(offset[t] - 1)
    /\ \A p \in moved[t] : p[2] \in 0..(buflen[t] - 1)
    /\ bytes_written[t] + bytes_remaining[t] <= buflen[t]
    /\ result[t] = "SUCCESS" => bytes_remaining[t] = 0

\* Until the second short write, bytes_written is the number of all bytes written
\* when anything is left to write.
RetryInv(t) ==
  op[t] = "_pwrite" /\ short[t] <= 1 =>
    \/ /\ bytes_remaining[t] = 0
       /\ moved[t] = First(t, buflen[t])
    \/ /\ offset[t] = from[t] + bytes_written[t]
       /\ moved[t] = First(t, bytes_written[t])
       /\ short[t] = 0 => bytes_written[t] = 0

ThreadInv(t) == CallInv(t) /\ SingleInv(t) /\ LoopInv(t) /\ RetryInv(t)

Inv == TypeOK /\ \A t \in Threads : ThreadInv(t)

-----------------------------------------------------------------------------
(* Extending a prefix that lies in place by the bytes that follow. *)
LEMMA PrefixExtends ==
  ASSUME NEW f \in Nat, NEW n \in Nat, NEW m \in Nat
  PROVE  Placed(f, 0, n) \cup Placed(f + n, n, m) = Placed(f, 0, n + m)
<1> USE DEF Placed
<1>1. ASSUME NEW p \in Placed(f, 0, n + m)
      PROVE  p \in Placed(f, 0, n) \cup Placed(f + n, n, m)
  <2>1. PICK i \in 0..(n + m - 1) : p = <<f + i, 0 + i>>
    OBVIOUS
  <2>2. CASE i < n
    <3>1. i \in 0..(n - 1)
      BY <2>2
    <3> QED BY <2>1, <3>1
  <2>3. CASE i >= n
    <3>1. i - n \in 0..(m - 1) /\ f + n + (i - n) = f + i /\ n + (i - n) = 0 + i
      BY <2>3
    <3> QED BY <2>1, <3>1
  <2> QED BY <2>2, <2>3
<1>2. Placed(f, 0, n) \subseteq Placed(f, 0, n + m)
  <2>1. \A i \in 0..(n - 1) : i \in 0..(n + m - 1)
    OBVIOUS
  <2> QED BY <2>1
<1>3. ASSUME NEW p \in Placed(f + n, n, m) PROVE p \in Placed(f, 0, n + m)
  <2>1. PICK i \in 0..(m - 1) : p = <<f + n + i, n + i>>
    OBVIOUS
  <2>2. n + i \in 0..(n + m - 1) /\ f + (n + i) = f + n + i /\ 0 + (n + i) = n + i
    OBVIOUS
  <2> QED BY <2>1, <2>2
<1> QED BY <1>1, <1>2, <1>3

(* The pairs of a transfer, and their file positions. *)
LEMMA Positions ==
  ASSUME NEW pos \in Nat, NEW first \in Nat, NEW n \in Nat
  PROVE  /\ Placed(pos, first, n) \subseteq Nat \X Nat
         /\ FilePositions(Placed(pos, first, n)) = pos..(pos + n - 1)
         /\ \A p \in Placed(pos, first, n) : p[2] \in first..(first + n - 1)
         /\ Placed(pos, first, 0) = {}
<1> DEFINE M == Placed(pos, first, n)
<1>1. ASSUME NEW q \in pos..(pos + n - 1) PROVE \E p \in M : p[1] = q
  <2>1. q - pos \in 0..(n - 1) /\ pos + (q - pos) = q
    OBVIOUS
  <2>2. <<q, first + (q - pos)>> \in M
    BY <2>1 DEF Placed
  <2>3. <<q, first + (q - pos)>>[1] = q
    OBVIOUS
  <2> HIDE DEF M
  <2> QED BY <2>2, <2>3
<1>2. /\ M \subseteq Nat \X Nat
      /\ \A p \in M : p[1] \in pos..(pos + n - 1) /\ p[2] \in first..(first + n - 1)
  BY DEF Placed
<1>3. Placed(pos, first, 0) = {}
  BY DEF Placed
<1> HIDE DEF M
<1>4. FilePositions(M) = pos..(pos + n - 1)
  BY <1>1, <1>2 DEF FilePositions
<1> QED BY <1>2, <1>3, <1>4 DEF M

LEMMA PositionsOfUnion ==
  ASSUME NEW S, NEW T
  PROVE  FilePositions(S \cup T) = FilePositions(S) \cup FilePositions(T)
BY DEF FilePositions

-----------------------------------------------------------------------------
(* Types *)

LEMMA InitType == TransfersAssumption /\ Init => TypeOK
BY DEF TransfersAssumption, Init, TypeOK, Ops

LEMMA MoveType ==
  ASSUME TypeOK, NEW t \in Threads, NEW n \in Nat, NEW pos \in Nat, NEW first \in Nat,
         Move(t, n, pos, first)
  PROVE  moved' \in [Threads -> SUBSET (Nat \X Nat)] /\ short' \in [Threads -> Nat]
<1>1. Placed(pos, first, n) \subseteq Nat \X Nat
  BY Positions
<1> QED BY <1>1 DEF TypeOK, Move

\* What each of the steps keeps of the types.
LEMMA StepType ==
  ASSUME TransfersAssumption, TypeOK, [Next]_vars
  PROVE  TypeOK'
<1> USE DEF TypeOK
<1>1. ASSUME NEW t \in Threads, NEW o \in Ops, NEW len \in Lengths, NEW off \in Offsets,
             Begin(t, o, len, off)
      PROVE  TypeOK'
  <2>1. len \in Nat /\ off \in Nat
    BY DEF TransfersAssumption
  <2>2. FirstCall(o) \in {"pwrite", "pread", "lseek"}
    BY DEF FirstCall, Ops
  <2> QED BY <1>1, <2>1, <2>2 DEF Begin
<1>2. ASSUME NEW t \in Threads, Fail(t) PROVE TypeOK'
  BY <1>2 DEF Fail, Return, asked, local, ghost
<1>3. ASSUME NEW t \in Threads, Pwrite(t) PROVE TypeOK'
  <2>1. PICK n \in 1..bytes_remaining[t] :
          /\ Move(t, n, offset[t], bytes_written[t])
          /\ bytes_written' = [bytes_written EXCEPT ![t] = n]
          /\ bytes_remaining' = [bytes_remaining EXCEPT ![t] = bytes_remaining[t] - n]
          /\ offset' = [offset EXCEPT ![t] = offset[t] + n]
    BY <1>3 DEF Pwrite, BytesWritten, RemainingAfterWrite, OffsetAfterWrite
  <2>2. n \in Nat /\ bytes_remaining[t] - n \in Nat /\ offset[t] + n \in Nat
    OBVIOUS
  <2>3. moved' \in [Threads -> SUBSET (Nat \X Nat)] /\ short' \in [Threads -> Nat]
    BY <2>1, <2>2, MoveType
  <2> QED BY <1>3, <2>1, <2>2, <2>3 DEF Pwrite, asked
<1>4. ASSUME NEW t \in Threads, Pwritten(t) PROVE TypeOK'
  BY <1>4 DEF Pwritten, Return, asked, local, ghost
<1>5. ASSUME NEW t \in Threads, Pread(t) PROVE TypeOK'
  <2>1. PICK n \in 0..bytes_remaining[t] :
          /\ Move(t, n, offset[t], 0)
          /\ offset' = [offset EXCEPT ![t] = offset[t] + n]
          /\ bytes_remaining' = [bytes_remaining EXCEPT ![t] = bytes_remaining[t] - n]
    BY <1>5 DEF Pread
  <2>2. n \in Nat /\ bytes_remaining[t] - n \in Nat /\ offset[t] + n \in Nat
    OBVIOUS
  <2>3. moved' \in [Threads -> SUBSET (Nat \X Nat)] /\ short' \in [Threads -> Nat]
    BY <2>1, <2>2, MoveType
  <2> QED BY <1>5, <2>1, <2>2, <2>3 DEF Pread, Return, asked
<1>6. ASSUME NEW t \in Threads, Lseek(t) PROVE TypeOK'
  BY <1>6 DEF Lseek, Descriptor, asked, local, ghost
<1>7. ASSUME NEW t \in Threads, Vector(t) PROVE TypeOK'
  <2>1. PICK n \in 0..bytes_remaining[t] :
          /\ Move(t, n, position[t], 0)
          /\ position' = [position EXCEPT ![t] = position[t] + n]
    BY <1>7 DEF Vector, Descriptor
  <2>2. n \in Nat /\ position[t] + n \in Nat
    OBVIOUS
  <2>3. moved' \in [Threads -> SUBSET (Nat \X Nat)] /\ short' \in [Threads -> Nat]
    BY <2>1, <2>2, MoveType
  <2> QED BY <1>7, <2>1, <2>2, <2>3 DEF Vector, Return, asked, local
<1>8. CASE UNCHANGED vars
  BY <1>8 DEF vars, asked, local, ghost
<1> QED BY <1>1, <1>2, <1>3, <1>4, <1>5, <1>6, <1>7, <1>8 DEF Next, Continue

\* Every reachable state of the transfers has its types: what remains to be
\* written never gets negative, in particular.
THEOREM TypeCorrect == Spec => []TypeOK
<1>1. Init => TypeOK
  BY InitType, TransfersAssumption
<1>2. TypeOK /\ [Next]_vars => TypeOK'
  BY StepType, TransfersAssumption
<1> QED BY <1>1, <1>2, PTL DEF Spec

-----------------------------------------------------------------------------
(* The invariant, thread by thread *)

LEMMA InitInv == TransfersAssumption /\ Init => Inv
<1> SUFFICES ASSUME TransfersAssumption, Init, NEW t \in Threads PROVE ThreadInv(t)
  BY InitType DEF Inv
<1>1. from[t] = 0 /\ First(t, 0) = {}
  BY Positions DEF First, Init
<1>2. 0..(0 - 1) = {} /\ FilePositions({}) = {}
  BY DEF FilePositions
<1> QED BY <1>1, <1>2 DEF Init, ThreadInv, CallInv, SingleInv, LoopInv, RetryInv

\* A step in which nothing of thread t changes.
LEMMA OthersKeep ==
  ASSUME NEW t \in Threads, ThreadInv(t), UNCHANGED Mine(t), UNCHANGED position[t]
  PROVE  ThreadInv(t)'
<1>1. \A n : First(t, n)' = First(t, n)
  BY DEF First, Mine
<1> QED BY <1>1 DEF Mine, ThreadInv, CallInv, SingleInv, LoopInv, RetryInv

LEMMA BeginInv ==
  ASSUME TransfersAssumption, Inv, NEW t \in Threads, NEW o \in Ops,
         NEW len \in Lengths, NEW off \in Offsets, Begin(t, o, len, off)
  PROVE  ThreadInv(t)'
<1>1. len \in Nat /\ off \in Nat
  BY DEF TransfersAssumption
<1>2. /\ pc'[t] = FirstCall(o) /\ op'[t] = o /\ buflen'[t] = len /\ from'[t] = off
      /\ offset'[t] = off /\ bytes_written'[t] = 0 /\ bytes_remaining'[t] = len
      /\ result'[t] = "unset" /\ moved'[t] = {} /\ short'[t] = 0
  BY DEF Begin, Inv, TypeOK
<1>3. First(t, 0)' = {}
  BY <1>1, <1>2, Positions DEF First
<1>4. off..(off - 1) = {} /\ FilePositions({}) = {}
  BY <1>1 DEF FilePositions
<1>5. CallInv(t)' /\ SingleInv(t)'
  BY <1>2 DEF CallInv, SingleInv, FirstCall, Ops
<1>6. LoopInv(t)'
  <2>1. FilePositions(moved[t])' = from'[t]..(offset'[t] - 1)
    BY <1>2, <1>4
  <2>2. off <= off /\ off + len = off + len /\ 0 + len <= len
    BY <1>1
  <2> QED BY <1>2, <2>1, <2>2 DEF LoopInv
<1>7. RetryInv(t)'
  BY <1>1, <1>2, <1>3 DEF RetryInv
<1> QED BY <1>5, <1>6, <1>7 DEF ThreadInv

LEMMA FailInv ==
  ASSUME Inv, NEW t \in Threads, Fail(t) PROVE ThreadInv(t)'
<1>1. /\ pc'[t] = "idle" /\ result'[t] = "ERROR"
      /\ UNCHANGED <<op, buflen, from, offset, bytes_written, bytes_remaining, position,
                     moved, short>>
  BY DEF Fail, Return, Inv, TypeOK, asked, local, ghost
<1>2. \A n : First(t, n)' = First(t, n)
  BY <1>1 DEF First
<1>3. First(t, 0) = {} /\ 0 \in 0..buflen[t]
  BY Positions DEF First, Inv, TypeOK
<1> QED BY <1>1, <1>2, <1>3
        DEF Fail, Inv, ThreadInv, CallInv, SingleInv, LoopInv, RetryInv

\* One pwrite, interrupted or not.
LEMMA PwriteInv ==
  ASSUME Inv, NEW t \in Threads, Pwrite(t) PROVE ThreadInv(t)'
<1>0. /\ offset[t] \in Nat /\ bytes_written[t] \in Nat /\ bytes_remaining[t] \in Nat
      /\ from[t] \in Nat /\ buflen[t] \in Nat /\ short[t] \in Nat
  BY DEF Inv, TypeOK
<1>1. op[t] = "_pwrite" /\ pc[t] = "pwrite"
  BY DEF Pwrite, Inv, ThreadInv, CallInv
<1>2. PICK n \in 1..bytes_remaining[t] :
        /\ Move(t, n, offset[t], bytes_written[t])
        /\ bytes_written'[t] = n
        /\ bytes_remaining'[t] = bytes_remaining[t] - n
        /\ offset'[t] = offset[t] + n
  BY DEF Pwrite, BytesWritten, RemainingAfterWrite, OffsetAfterWrite, Inv, TypeOK
<1> DEFINE new == Placed(offset[t], bytes_written[t], n)
<1>3. /\ moved'[t] = moved[t] \cup new
      /\ short'[t] = IF n < bytes_remaining[t] THEN short[t] + 1 ELSE short[t]
      /\ UNCHANGED <<pc, op, buflen, from, result>>
  BY <1>2 DEF Pwrite, Move, asked, Inv, TypeOK
<1>4. n \in Nat /\ n >= 1 /\ n <= bytes_remaining[t]
  BY <1>0, <1>2
<1>5. LoopInv(t) /\ RetryInv(t)
  BY DEF Inv, ThreadInv
<1>6. FilePositions(new) = offset[t]..(offset[t] + n - 1)
  BY <1>0, <1>4, Positions
<1>7. CallInv(t)' /\ SingleInv(t)'
  BY <1>1, <1>3 DEF CallInv, SingleInv
<1>8. \A m : First(t, m)' = First(t, m)
  BY <1>3 DEF First
<1>9. LoopInv(t)'
  <2>1. FilePositions(moved'[t]) = from[t]..(offset[t] + n - 1)
    <3>1. FilePositions(moved'[t]) = FilePositions(moved[t]) \cup FilePositions(new)
      BY <1>3, PositionsOfUnion
    <3>2. FilePositions(moved[t]) = from[t]..(offset[t] - 1) /\ from[t] <= offset[t]
      BY <1>1, <1>5 DEF LoopInv
    <3>3. from[t]..(offset[t] + n - 1)
            = (from[t]..(offset[t] - 1)) \cup (offset[t]..(offset[t] + n - 1))
      BY <1>0, <1>4, <3>2
    <3> HIDE DEF new
    <3> QED BY <1>6, <3>1, <3>2, <3>3
  <2>2. \A p \in moved'[t] : p[2] \in 0..(buflen[t] - 1)
    <3>1. \A p \in moved[t] : p[2] \in 0..(buflen[t] - 1)
      BY <1>1, <1>5 DEF LoopInv
    <3>2. \A p \in new : p[2] \in 0..(buflen[t] - 1)
      <4>1. bytes_written[t] + bytes_remaining[t] <= buflen[t]
        BY <1>1, <1>5 DEF LoopInv
      <4>2. \A p \in new : p[2] \in bytes_written[t]..(bytes_written[t] + n - 1)
        BY <1>0, <1>4, Positions
      <4> HIDE DEF new
      <4> QED BY <1>0, <1>4, <4>1, <4>2
    <3> QED BY <1>3, <3>1, <3>2
  <2>3. /\ from[t] <= offset[t] + n
        /\ offset[t] + n + (bytes_remaining[t] - n) = from[t] + buflen[t]
        /\ n + (bytes_remaining[t] - n) <= buflen[t]
    BY <1>0, <1>1, <1>4, <1>5 DEF LoopInv
  <2>4. result[t] = "SUCCESS" => bytes_remaining[t] - n = 0
    BY <1>0, <1>1, <1>4, <1>5 DEF LoopInv
  <2>5. from'[t] = from[t] /\ offset'[t] = offset[t] + n
    BY <1>2, <1>3
  <2>6. FilePositions(moved'[t]) = from'[t]..(offset'[t] - 1)
    BY <1>0, <1>4, <2>1, <2>5
  <2> QED BY <1>2, <1>3, <2>2, <2>3, <2>4, <2>5, <2>6 DEF LoopInv
<1>10. RetryInv(t)'
  <2> SUFFICES ASSUME short'[t] <= 1
               PROVE  \/ bytes_remaining[t] = n /\ moved'[t] = First(t, buflen[t])
                      \/ /\ offset[t] + n = from[t] + n
                         /\ moved'[t] = First(t, n)
                         /\ short'[t] = 0 => n = 0
    BY <1>2, <1>3, <1>4, <1>8 DEF RetryInv
  <2>1. /\ offset[t] = from[t] + bytes_written[t]
        /\ moved[t] = First(t, bytes_written[t])
        /\ short[t] = 0 => bytes_written[t] = 0
    BY <1>0, <1>1, <1>3, <1>4, <1>5 DEF RetryInv
  <2>2. moved'[t] = First(t, bytes_written[t] + n)
    <3>1. new = Placed(from[t] + bytes_written[t], bytes_written[t], n)
      BY <2>1
    <3>2. First(t, bytes_written[t]) \cup new = First(t, bytes_written[t] + n)
      BY <1>0, <1>4, <3>1, PrefixExtends DEF First
    <3> QED BY <1>3, <2>1, <3>2
  <2>3. CASE n = bytes_remaining[t]
    <3>1. bytes_written[t] + n = buflen[t]
      <4>1. offset[t] + bytes_remaining[t] = from[t] + buflen[t]
        BY <1>1, <1>5 DEF LoopInv
      <4> QED BY <1>0, <1>4, <2>1, <2>3, <4>1
    <3> QED BY <2>2, <2>3, <3>1
  <2>4. CASE n < bytes_remaining[t]
    <3>1. short[t] = 0 /\ short'[t] = 1
      BY <1>0, <1>3, <2>4
    <3>2. bytes_written[t] = 0 /\ 0 + n = n
      BY <1>4, <2>1, <3>1
    <3> QED BY <1>0, <2>1, <2>2, <3>1, <3>2
  <2> QED BY <1>0, <1>4, <2>3, <2>4
<1> QED BY <1>7, <1>9, <1>10 DEF ThreadInv

LEMMA PwrittenInv ==
  ASSUME Inv, NEW t \in Threads, Pwritten(t) PROVE ThreadInv(t)'
<1>1. op[t] = "_pwrite"
  BY DEF Pwritten, Inv, ThreadInv, CallInv
<1>2. /\ pc'[t] = "idle" /\ result'[t] = "SUCCESS" /\ bytes_remaining[t] = 0
      /\ UNCHANGED <<op, buflen, from, offset, bytes_written, bytes_remaining, moved, short>>
  BY DEF Pwritten, AllWritten, Return, Inv, TypeOK, asked, local, ghost
<1>3. \A n : First(t, n)' = First(t, n)
  BY <1>2 DEF First
<1> QED BY <1>1, <1>2, <1>3 DEF Inv, ThreadInv, CallInv, SingleInv, LoopInv, RetryInv

\* The one transfer of pread, writev or readv: a prefix of the block.
LEMMA SingleShot ==
  ASSUME Inv, NEW t \in Threads, op[t] # "_pwrite", NEW n \in 0..bytes_remaining[t],
         moved[t] = {}, bytes_remaining[t] = buflen[t], Move(t, n, from[t], 0),
         UNCHANGED <<op, buflen, from>>, pc'[t] = "idle"
  PROVE  ThreadInv(t)'
<1>1. moved'[t] = Placed(from[t], 0, n)
  BY DEF Move, Inv, TypeOK
<1>3. moved'[t] = First(t, n)'
  BY <1>1 DEF First
<1>4. n \in 0..buflen'[t]
  OBVIOUS
<1> QED BY <1>3, <1>4 DEF ThreadInv, CallInv, SingleInv, LoopInv, RetryInv

LEMMA PreadInv ==
  ASSUME Inv, NEW t \in Threads, Pread(t) PROVE ThreadInv(t)'
<1>1. op[t] = "_pread" /\ pc[t] # "idle"
  BY DEF Pread, Inv, ThreadInv, CallInv
<1>2. moved[t] = {} /\ offset[t] = from[t] /\ bytes_remaining[t] = buflen[t]
  BY <1>1 DEF Inv, ThreadInv, SingleInv
<1>3. PICK n \in 0..bytes_remaining[t] : Move(t, n, from[t], 0)
  BY <1>2 DEF Pread
<1>4. UNCHANGED <<op, buflen, from>> /\ pc'[t] = "idle"
  BY DEF Pread, Return, asked, Inv, TypeOK
<1> QED BY <1>1, <1>2, <1>3, <1>4, SingleShot

LEMMA LseekInv ==
  ASSUME Inv, NEW t \in Threads, Lseek(t) PROVE ThreadInv(t)'
<1>1. op[t] \in {"_writev", "_readv"} /\ pc[t] = "lseek"
  BY DEF Lseek, Inv, ThreadInv, CallInv
<1>2. /\ pc'[t] = "vector" /\ position'[t] = offset[t]
      /\ UNCHANGED <<op, buflen, from, offset, bytes_written, bytes_remaining, result,
                     moved, short>>
  BY DEF Lseek, Descriptor, Inv, TypeOK, asked, local, ghost
<1> QED BY <1>1, <1>2 DEF Inv, ThreadInv, CallInv, SingleInv, LoopInv, RetryInv

LEMMA VectorInv ==
  ASSUME Inv, NEW t \in Threads, Vector(t) PROVE ThreadInv(t)'
<1>1. op[t] # "_pwrite" /\ pc[t] = "vector"
  BY DEF Vector, Inv, ThreadInv, CallInv
<1>2. moved[t] = {} /\ position[t] = from[t] /\ bytes_remaining[t] = buflen[t]
  BY <1>1 DEF Inv, ThreadInv, SingleInv
<1>3. PICK n \in 0..bytes_remaining[t] : Move(t, n, from[t], 0)
  BY <1>2 DEF Vector, Descriptor
<1>4. UNCHANGED <<op, buflen, from>> /\ pc'[t] = "idle"
  BY DEF Vector, Return, asked, Inv, TypeOK
<1> QED BY <1>1, <1>2, <1>3, <1>4, SingleShot

\* A step of u leaves t alone: its variables are its own, and so is the position
\* of its descriptor.
LEMMA OneThreadAtATime ==
  ASSUME Inv, NEW t \in Threads, NEW u \in Threads, t # u,
         \/ \E o \in Ops, len \in Lengths, off \in Offsets : Begin(u, o, len, off)
         \/ Fail(u)
         \/ Continue(u)
  PROVE  UNCHANGED Mine(t) /\ UNCHANGED position[t]
<1> USE DEF Inv, TypeOK, Mine
<1>1. ASSUME NEW o \in Ops, NEW len \in Lengths, NEW off \in Offsets, Begin(u, o, len, off)
      PROVE  UNCHANGED Mine(t) /\ UNCHANGED position[t]
  BY <1>1 DEF Begin
<1>2. CASE Fail(u)
  BY <1>2 DEF Fail, Return, asked, local, ghost
<1>3. CASE Pwrite(u)
  BY <1>3 DEF Pwrite, Move, asked
<1>4. CASE Pwritten(u)
  BY <1>4 DEF Pwritten, Return, asked, local, ghost
<1>5. CASE Pread(u)
  BY <1>5 DEF Pread, Return, Move, asked
<1>6. CASE Lseek(u)
  BY <1>6 DEF Lseek, Descriptor, asked, local, ghost
<1>7. CASE Vector(u)
  BY <1>7 DEF Vector, Return, Move, Descriptor, asked, local
<1> QED BY <1>1, <1>2, <1>3, <1>4, <1>5, <1>6, <1>7 DEF Continue

LEMMA StepInv ==
  ASSUME TransfersAssumption, Inv, [Next]_vars
  PROVE  Inv'
<1>1. TypeOK'
  BY StepType DEF Inv
<1>2. ASSUME NEW t \in Threads PROVE ThreadInv(t)'
  <2>1. CASE UNCHANGED vars
    <3>1. UNCHANGED Mine(t) /\ UNCHANGED position[t]
      BY <2>1 DEF vars, asked, local, ghost, Mine
    <3> QED BY <3>1, OthersKeep DEF Inv
  <2>2. ASSUME NEW u \in Threads,
               \/ \E o \in Ops, len \in Lengths, off \in Offsets : Begin(u, o, len, off)
               \/ Fail(u)
               \/ Continue(u)
        PROVE  ThreadInv(t)'
    <3>1. CASE t # u
      <4>1. UNCHANGED Mine(t) /\ UNCHANGED position[t]
        BY <2>2, <3>1, OneThreadAtATime
      <4> QED BY <4>1, OthersKeep DEF Inv
    <3>2. CASE t = u
      BY <2>2, <3>2, BeginInv, FailInv, PwriteInv, PwrittenInv, PreadInv, LseekInv,
         VectorInv DEF Continue
    <3> QED BY <3>1, <3>2
  <2> QED BY <2>1, <2>2 DEF Next
<1> QED BY <1>1, <1>2 DEF Inv

\* The invariant of all threads holds.
THEOREM Invariant == Spec => []Inv
<1>1. Init => Inv
  BY InitInv, TransfersAssumption
<1>2. Inv /\ [Next]_vars => Inv'
  BY StepInv, TransfersAssumption
<1> QED BY <1>1, <1>2, PTL DEF Spec

-----------------------------------------------------------------------------
(* The properties *)

LEMMA FirstInBuffer ==
  ASSUME Inv, NEW t \in Threads, NEW n \in 0..buflen[t]
  PROVE  \A p \in First(t, n) : p[2] \in 0..(buflen[t] - 1)
<1>1. from[t] \in Nat /\ buflen[t] \in Nat
  BY DEF Inv, TypeOK
<1>2. \A p \in First(t, n) : p[2] \in 0..(0 + n - 1)
  <2>1. n \in Nat
    BY <1>1
  <2> QED BY <1>1, <2>1, Positions DEF First
<1> QED BY <1>1, <1>2

\* io_functions.c never reads or writes outside the buffer it was given, however
\* often and wherever the kernel interrupts its system calls.
THEOREM StaysInBufferHolds == Spec => []StaysInBuffer
<1>1. Inv => StaysInBuffer
  <2> SUFFICES ASSUME Inv, NEW t \in Threads, NEW p \in moved[t]
               PROVE  p[2] \in 0..(buflen[t] - 1)
    BY DEF StaysInBuffer
  <2>1. CASE op[t] = "_pwrite"
    BY <2>1 DEF Inv, ThreadInv, LoopInv
  <2>2. CASE op[t] # "_pwrite" /\ pc[t] # "idle"
    BY <2>2 DEF Inv, ThreadInv, SingleInv
  <2>3. CASE op[t] # "_pwrite" /\ pc[t] = "idle"
    <3>1. PICK n \in 0..buflen[t] : moved[t] = First(t, n)
      BY <2>3 DEF Inv, ThreadInv, SingleInv
    <3> QED BY <3>1, FirstInBuffer
  <2> QED BY <2>1, <2>2, <2>3
<1> QED BY <1>1, Invariant, PTL

\* A _pwrite that returns SUCCESS has written all of its range of the file and
\* nothing else, for every pattern of short writes.
THEOREM WritesItsRangeHolds == Spec => []WritesItsRange
<1>1. Inv => WritesItsRange
  <2> SUFFICES ASSUME Inv, NEW t \in Threads, op[t] = "_pwrite", result[t] = "SUCCESS"
               PROVE  FilePositions(moved[t]) = from[t]..(from[t] + buflen[t] - 1)
    BY DEF WritesItsRange
  <2>1. /\ FilePositions(moved[t]) = from[t]..(offset[t] - 1)
        /\ offset[t] + bytes_remaining[t] = from[t] + buflen[t] /\ bytes_remaining[t] = 0
    BY DEF Inv, ThreadInv, LoopInv
  <2> QED BY <2>1 DEF Inv, TypeOK
<1> QED BY <1>1, Invariant, PTL

\* One interruption does no harm: bytes_written is then the number of all bytes
\* written.
THEOREM OneRetryIsRightHolds == Spec => []OneRetryIsRight
<1>1. Inv => OneRetryIsRight
  <2> SUFFICES ASSUME Inv, NEW t \in Threads, op[t] = "_pwrite", result[t] = "SUCCESS",
                      short[t] <= 1
               PROVE  moved[t] = First(t, buflen[t])
    BY DEF OneRetryIsRight
  <2>1. /\ offset[t] + bytes_remaining[t] = from[t] + buflen[t] /\ bytes_remaining[t] = 0
    BY DEF Inv, ThreadInv, LoopInv
  <2>2. \/ moved[t] = First(t, buflen[t])
        \/ offset[t] = from[t] + bytes_written[t] /\ moved[t] = First(t, bytes_written[t])
    BY DEF Inv, ThreadInv, RetryInv
  <2> QED BY <2>1, <2>2 DEF Inv, TypeOK
<1> QED BY <1>1, Invariant, PTL

\* The position a thread has set with lseek is its own until its writev or readv:
\* the single-shot functions move a prefix of the block to (or from) its place.
THEOREM PrefixInPlaceHolds == Spec => []PrefixInPlace
<1>1. Inv => PrefixInPlace
  <2> SUFFICES ASSUME Inv, NEW t \in Threads, op[t] # "_pwrite"
               PROVE  \E n \in 0..buflen[t] : moved[t] = First(t, n)
    BY DEF PrefixInPlace
  <2>1. First(t, 0) = {} /\ 0 \in 0..buflen[t]
    BY Positions DEF First, Inv, TypeOK
  <2> QED BY <2>1 DEF Inv, ThreadInv, SingleInv
<1> QED BY <1>1, Invariant, PTL

=============================================================================
