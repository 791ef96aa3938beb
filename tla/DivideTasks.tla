---------------------------- MODULE DivideTasks -----------------------------
(***************************************************************************)
(* The common BUF interfaces (omp_file_write_com_all, ...): every thread  *)
(* passes the same buffer, and divide_tasks_sameprms cuts it up for the    *)
(* active threads.  Calls follow each other on one open file, with the     *)
(* threads transferring blocks while the MASTER is still dividing.         *)
(* Addresses are relative to the common buffer.                            *)
(***************************************************************************)
EXTENDS WorkManager, Interfaces

CONSTANTS
  MaxWriteBlockSize,  \* fs->max_write_block_size
  BufLens,            \* the lengths a caller may pass
  Offsets,            \* the offsets a caller of an _at_ interface may pass
  Calls               \* bound: collective calls on the file

\* With max_write_block_size 0 a buffer shorter than active_threads is divided
\* by zero.
ASSUME DivideTasksAssumption ==
  /\ MaxWriteBlockSize \in Nat \ {0}
  /\ BufLens \subseteq Nat
  /\ Offsets \subseteq Nat
  /\ Calls \in Nat

VARIABLES
  step,             \* idle, base, divide or work (all handed over)
  prms,             \* fs->ioprms
  buflen, offset,   \* what the MASTER passed
  i, chunk, boundary, bytes_remaining,
  bytes_done,       \* bytes handed over, the last block included
  base,             \* ghost: file position of the first byte of the buffer
  calls             \* calls made

loop == <<i, chunk, boundary>>
args == <<prms, buflen, offset, base, calls>>
vars == <<wmVars, step, args, loop, bytes_remaining, bytes_done>>

Init ==
  /\ WorkManagerInit
  /\ step = "idle" /\ prms = WriteComAll /\ calls = 0
  /\ buflen = 0 /\ offset = 0 /\ base = 0
  /\ i = 0 /\ chunk = 0 /\ boundary = 0
  /\ bytes_remaining = 0 /\ bytes_done = 0

\* The interface stores its arguments, _base lowers the quit flag.
Call(p, len, off) ==
  /\ step = "idle" /\ calls < Calls
  /\ step' = "base" /\ calls' = calls + 1
  /\ prms' = p /\ buflen' = len /\ offset' = off
  /\ base' = IF p.merge_type = "MEM" THEN Start(p) ELSE off
  /\ all_quit_flag' = FALSE
  /\ transferred' = {}
  /\ bytes_remaining' = len /\ bytes_done' = 0
  /\ UNCHANGED <<internal_offset, position, listiopool, nxt_slave, listlen, completed, loop>>

\* work_manager(fs, bufptr + bytes_done, len, offset + bytes_done, signal)
HandOver(len, signal) ==
  /\ WorkManager(prms, bytes_done, len, offset + bytes_done, signal)
  /\ bytes_done' = bytes_done + len
  /\ bytes_remaining' = bytes_remaining - len
  /\ UNCHANGED args

\* A buffer of at most one block goes to one thread.
OneBlock ==
  /\ step = "base" /\ buflen <= MaxWriteBlockSize
  /\ HandOver(buflen, "FINISH")
  /\ step' = "work"
  /\ UNCHANGED loop

\* Equal parts when they are larger than a block, else whole blocks.
EqualParts == buflen \div ActiveThreads > MaxWriteBlockSize

Chunk == IF EqualParts THEN buflen \div ActiveThreads ELSE MaxWriteBlockSize

\* Seeded bug: the last, shorter block is counted in the loop.
BoundaryRoundedUp ==
  IF EqualParts THEN ActiveThreads - 1
  ELSE (buflen + MaxWriteBlockSize - 1) \div MaxWriteBlockSize

Boundary ==
  IF EqualParts THEN ActiveThreads - 1 ELSE buflen \div MaxWriteBlockSize

Divide ==
  /\ step = "base" /\ buflen > MaxWriteBlockSize
  /\ step' = "divide"
  /\ chunk' = Chunk /\ boundary' = Boundary /\ i' = 0
  /\ UNCHANGED <<wmVars, args, bytes_remaining, bytes_done>>

\* Seeded bug: every block of the loop says CONTINUE.
SignalForgotten == "CONTINUE"

\* The block that leaves nothing is the last one.
Signal == IF bytes_remaining = chunk THEN "FINISH" ELSE "CONTINUE"

NextChunk ==
  /\ step = "divide" /\ i < boundary
  /\ HandOver(chunk, Signal)
  /\ i' = i + 1
  /\ UNCHANGED <<step, chunk, boundary>>

\* Seeded bug: the last block is handed over even if nothing is left.
RestIsLeftAlways == TRUE

RestIsLeft == bytes_remaining # 0

LastChunk ==
  /\ step = "divide" /\ i = boundary
  /\ step' = "work"
  /\ \/ RestIsLeft /\ HandOver(bytes_remaining, "FINISH")
     \/ ~RestIsLeft /\ UNCHANGED <<wmVars, args, bytes_remaining, bytes_done>>
  /\ UNCHANGED loop

\* access_work_assignment, in any active thread, while the MASTER goes on.
Work(t) ==
  /\ \E k \in DOMAIN listiopool : Transfer(t, k, BufBytes(listiopool[k]))
  /\ UNCHANGED <<position, step, args, loop, bytes_remaining, bytes_done>>

\* The end of _base.
Return ==
  /\ step = "work"
  /\ FreePool
  /\ step' = "idle"
  /\ UNCHANGED <<args, loop, bytes_remaining, bytes_done>>

Terminating == step = "idle" /\ calls = Calls /\ UNCHANGED vars

Next ==
  \/ \E p \in ComInterfaces, len \in BufLens, off \in Offsets : Call(p, len, off)
  \/ OneBlock \/ Divide \/ NextChunk \/ LastChunk
  \/ \E t \in Active : Work(t)
  \/ Return
  \/ Terminating

Spec == Init /\ [][Next]_vars

-----------------------------------------------------------------------------
(* Properties *)

\* Types of the state of work_manager.c and of divide_tasks_sameprms.
TypeOK ==
  /\ WorkManagerTypeOK
  /\ step \in {"idle", "base", "divide", "work"}
  /\ prms \in ComInterfaces
  /\ buflen \in Nat /\ offset \in Nat /\ base \in Nat
  /\ i \in 0..boundary /\ chunk \in Nat /\ boundary \in Nat
  /\ bytes_remaining \in Nat /\ bytes_done \in Nat
  /\ calls \in 0..Calls

\* The first n bytes of the buffer, each at its place in the file.
Prefix(n) == {<<base + d, d>> : d \in 0..(n - 1)}

Waiting == {k \in DOMAIN listiopool : listiopool[k].assigned_to # Nobody}

\* The blocks of divide_tasks_sameprms cut the buffer without gap: what has been
\* moved and what waits in the pool is at any time the part handed over, every
\* byte at its own place in the file.
Tiled ==
  step # "idle" =>
    transferred \cup UNION {BufBytes(listiopool[k]) : k \in Waiting} = Prefix(bytes_done)

\* A call returns with all of the buffer moved, and nothing else, and the next
\* implicit offset follows on it.
WholeBufferMoved ==
  step = "idle" /\ calls > 0 =>
    /\ transferred = Prefix(buflen)
    /\ prms.merge_type = "MEM" => internal_offset = base + buflen

\* A slave that sees the quit flag finishes what it has and leaves: FINISH must
\* come with the last block, and no block after it.
NothingAfterQuit ==
  [][all_quit_flag /\ step # "idle" => Len(listiopool') <= Len(listiopool)]_vars

\* ... and the MASTER never goes on to wait for the others without having sent it.
QuitWhenHandedOver == step = "work" => all_quit_flag /\ bytes_done = buflen

=============================================================================
