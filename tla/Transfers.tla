----------------------------- MODULE Transfers ------------------------------
(***************************************************************************)
(* The low-level transfers of io_functions.c, at the grain of system calls *)
(* that may move less than they were asked to: _pwrite tries again with    *)
(* what is left, _pread, _writev and _readv do not, and the vectored ones  *)
(* go through the position of a descriptor, which a second system call     *)
(* sets.  All threads of a team transfer at once, each through the         *)
(* descriptor that omp_file_open_all gave it.                              *)
(*                                                                         *)
(* The bytes of a buffer are numbered from 0; so are those of a vector of  *)
(* buffers, one buffer after the other.                                    *)
(***************************************************************************)
EXTENDS Integers

CONSTANTS
  Threads,  \* the active threads; each is also the name of its descriptor
  MASTER,
  Lengths,  \* how long a block may be
  Offsets   \* where in the file it may begin

ASSUME TransfersAssumption ==
  /\ MASTER \in Threads
  /\ Lengths \subseteq Nat /\ Offsets \subseteq Nat

Ops == {"_pwrite", "_pread", "_writev", "_readv"}

VARIABLES
  pc,               \* idle, or the next system call: pwrite, pread, lseek, vector
  op, buflen, from, \* what was asked: the function, the length, the offset
  offset,           \* the offset of the next pwrite or pread
  bytes_written,    \* what the last pwrite moved
  bytes_remaining,
  position,         \* position[d]: the file position of descriptor d
  result,           \* unset, SUCCESS or ERROR
  moved,            \* ghost: moved[t]: pairs of file position and byte moved
  short             \* ghost: short[t]: system calls that moved less than asked

asked == <<op, buflen, from>>
local == <<offset, bytes_written, bytes_remaining>>
ghost == <<moved, short>>
vars  == <<pc, asked, local, position, result, ghost>>

Init ==
  /\ pc = [t \in Threads |-> "idle"]
  /\ op = [t \in Threads |-> "_pwrite"]
  /\ buflen = [t \in Threads |-> 0]
  /\ from = [t \in Threads |-> 0]
  /\ offset = [t \in Threads |-> 0]
  /\ bytes_written = [t \in Threads |-> 0]
  /\ bytes_remaining = [t \in Threads |-> 0]
  /\ position = [d \in Threads |-> 0]
  /\ result = [t \in Threads |-> "unset"]
  /\ moved = [t \in Threads |-> {}]
  /\ short = [t \in Threads |-> 0]

FirstCall(o) ==
  CASE o = "_pwrite" -> "pwrite"
    [] o = "_pread" -> "pread"
    [] o \in {"_writev", "_readv"} -> "lseek"

\* t is given a block.
Begin(t, o, len, off) ==
  /\ pc[t] = "idle"
  /\ pc' = [pc EXCEPT ![t] = FirstCall(o)]
  /\ op' = [op EXCEPT ![t] = o]
  /\ buflen' = [buflen EXCEPT ![t] = len]
  /\ from' = [from EXCEPT ![t] = off]
  /\ offset' = [offset EXCEPT ![t] = off]
  /\ bytes_written' = [bytes_written EXCEPT ![t] = 0]
  /\ bytes_remaining' = [bytes_remaining EXCEPT ![t] = len]
  /\ result' = [result EXCEPT ![t] = "unset"]
  /\ moved' = [moved EXCEPT ![t] = {}]
  /\ short' = [short EXCEPT ![t] = 0]
  /\ UNCHANGED position

Return(t, code) ==
  /\ pc' = [pc EXCEPT ![t] = "idle"]
  /\ result' = [result EXCEPT ![t] = code]

\* n bytes of memory from byte `first` on, at file position pos and after.
Placed(pos, first, n) == {<<pos + i, first + i>> : i \in 0..(n - 1)}

\* n bytes from byte `first` on go to (or come from) file position pos on.
Move(t, n, pos, first) ==
  /\ moved' = [moved EXCEPT ![t] = @ \cup Placed(pos, first, n)]
  /\ short' = [short EXCEPT ![t] = IF n < bytes_remaining[t] THEN @ + 1 ELSE @]

\* Any system call that transfers may fail.
Fail(t) ==
  /\ \/ pc[t] = "pwrite" /\ bytes_remaining[t] > 0
     \/ pc[t] \in {"pread", "vector"}
  /\ Return(t, "ERROR")
  /\ UNCHANGED <<asked, local, position, ghost>>

-----------------------------------------------------------------------------
(* _pwrite *)

\* Seeded bugs: the buffer pointer advances twice; the offset does not advance.
BytesWrittenTwice(t, n) == bytes_written[t] + n + n
OffsetKept(t, n) == offset[t]

\* The loop keeps the number of bytes of the last pwrite only, and adds that to
\* bufptr ...
BytesWritten(t, n) == n

\* ... while the offset adds them up.
OffsetAfterWrite(t, n) == offset[t] + n

\* Seeded bug: one byte too many is counted.
RemainingOffByOne(t, n) == bytes_remaining[t] - n - 1

RemainingAfterWrite(t, n) == bytes_remaining[t] - n

Pwrite(t) ==
  /\ pc[t] = "pwrite" /\ bytes_remaining[t] > 0
  /\ \E n \in 1..bytes_remaining[t] :
       /\ Move(t, n, offset[t], bytes_written[t])
       /\ bytes_written' = [bytes_written EXCEPT ![t] = BytesWritten(t, n)]
       /\ bytes_remaining' = [bytes_remaining EXCEPT ![t] = RemainingAfterWrite(t, n)]
       /\ offset' = [offset EXCEPT ![t] = OffsetAfterWrite(t, n)]
  /\ UNCHANGED <<pc, asked, position, result>>

\* Seeded bug: the loop goes on until a pwrite has moved nothing.
AllWrittenAtEnd(t) == bytes_remaining[t] = 0 /\ bytes_written[t] = 0

AllWritten(t) == bytes_remaining[t] = 0

Pwritten(t) ==
  /\ pc[t] = "pwrite" /\ AllWritten(t)
  /\ Return(t, "SUCCESS")
  /\ UNCHANGED <<asked, local, position, ghost>>

-----------------------------------------------------------------------------
(* _pread, _writev, _readv *)

\* Whatever pread moves is a success; bytes_read is 0 when it begins.
Pread(t) ==
  /\ pc[t] = "pread"
  /\ \E n \in 0..bytes_remaining[t] :
       /\ Move(t, n, offset[t], 0)
       /\ offset' = [offset EXCEPT ![t] = @ + n]
       /\ bytes_remaining' = [bytes_remaining EXCEPT ![t] = @ - n]
  /\ Return(t, "SUCCESS")
  /\ UNCHANGED <<asked, bytes_written, position>>

\* Seeded bug: all threads use the MASTER's descriptor.
DescriptorOfMaster(t) == MASTER

\* fs->fd[omp_get_thread_num()]
Descriptor(t) == t

Lseek(t) ==
  /\ pc[t] = "lseek"
  /\ position' = [position EXCEPT ![Descriptor(t)] = offset[t]]
  /\ pc' = [pc EXCEPT ![t] = "vector"]
  /\ UNCHANGED <<asked, local, result, ghost>>

\* writev and readv begin at the descriptor's position and move it.
Vector(t) ==
  /\ pc[t] = "vector"
  /\ \E n \in 0..bytes_remaining[t] :
       /\ Move(t, n, position[Descriptor(t)], 0)
       /\ position' = [position EXCEPT ![Descriptor(t)] = @ + n]
  /\ Return(t, "SUCCESS")
  /\ UNCHANGED <<asked, local>>

-----------------------------------------------------------------------------
Continue(t) == Pwrite(t) \/ Pwritten(t) \/ Pread(t) \/ Lseek(t) \/ Vector(t)

Next ==
  \E t \in Threads :
    \/ \E o \in Ops, len \in Lengths, off \in Offsets : Begin(t, o, len, off)
    \/ Fail(t)
    \/ Continue(t)

Spec == Init /\ [][Next]_vars

FairSpec == Spec /\ \A t \in Threads : WF_vars(Continue(t))

-----------------------------------------------------------------------------
(* Properties *)

\* Types of the local variables of the transfer functions.
TypeOK ==
  /\ pc \in [Threads -> {"idle", "pwrite", "pread", "lseek", "vector"}]
  /\ op \in [Threads -> Ops]
  /\ buflen \in [Threads -> Nat] /\ from \in [Threads -> Nat]
  /\ offset \in [Threads -> Nat]
  /\ bytes_written \in [Threads -> Nat]
  /\ bytes_remaining \in [Threads -> Nat]
  /\ position \in [Threads -> Nat]
  /\ result \in [Threads -> {"unset", "SUCCESS", "ERROR"}]
  /\ moved \in [Threads -> SUBSET (Nat \X Nat)]
  /\ short \in [Threads -> Nat]

\* The first n bytes of what t was asked to transfer, each at its place.
First(t, n) == Placed(from[t], 0, n)

FilePositions(S) == {p[1] : p \in S}

\* Although _pwrite takes its data from the wrong place after two short writes,
\* it never reaches outside the buffer; nor does any other function.
StaysInBuffer ==
  \A t \in Threads : \A p \in moved[t] : p[2] \in 0..(buflen[t] - 1)

\* When _pwrite returns SUCCESS it has written its range of the file, all of it
\* and nothing else, however often the kernel interrupted it.
WritesItsRange ==
  \A t \in Threads : op[t] = "_pwrite" /\ result[t] = "SUCCESS" =>
    FilePositions(moved[t]) = from[t]..(from[t] + buflen[t] - 1)

\* The retry of _pwrite works: interrupted at most once, it has written the right
\* bytes when it returns SUCCESS.
OneRetryIsRight ==
  \A t \in Threads :
    op[t] = "_pwrite" /\ result[t] = "SUCCESS" /\ short[t] <= 1 =>
      moved[t] = First(t, buflen[t])

\* lseek and writev (readv) are two system calls, but other threads' seeks do not
\* come between: what the single-shot functions move is a prefix of the block,
\* at its place.
PrefixInPlace ==
  \A t \in Threads : op[t] # "_pwrite" =>
    \E n \in 0..buflen[t] : moved[t] = First(t, n)

\* Every transfer comes to its end.
EveryTransferEnds == \A t \in Threads : pc[t] # "idle" ~> pc[t] = "idle"

\* access_work_assignment.c:90: "io_bytes is actually an error code
\* ERROR/SUCCESS".  When _pwrite returns SUCCESS it has written the buffer.
SuccessMeansWritten ==
  \A t \in Threads : op[t] = "_pwrite" /\ result[t] = "SUCCESS" =>
    moved[t] = First(t, buflen[t])

=============================================================================
