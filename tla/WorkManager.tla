---------------------------- MODULE WorkManager -----------------------------
(***************************************************************************)
(* work_manager.c with the thread side of access_work_assignment: the      *)
(* state of FS that a plan is written to, the hand-over of one buffer, and *)
(* the transfer of one block.  The modules that plan a call (DivideTasks,  *)
(* Contiguity) extend this one.  The signals, locks and barriers under     *)
(* which this state is shared are the subject of CollectiveIO; here a      *)
(* thread may take its next block whenever one is counted for it.          *)
(*                                                                         *)
(* Memory and file are addressed in bytes, a transfer is a set of pairs    *)
(* <<file position, memory address>>.                                      *)
(***************************************************************************)
EXTENDS Integers, Sequences, FiniteSets

CONSTANTS
  ActiveThreads,   \* fs->active_threads
  MasterPosition   \* where the program left the descriptor it got from open

ASSUME WorkManagerAssumption ==
  /\ ActiveThreads \in Nat \ {0}
  /\ MasterPosition \in Nat

MASTER == 0
Nobody == -1
Active == 0..(ActiveThreads - 1)

VARIABLES
  internal_offset,  \* fs->internal_offset, -1 until the first implicit offset
  position,         \* lseek(fs->fd[MASTER], 0, SEEK_CUR)
  listiopool,       \* fs->listiopool
  nxt_slave,        \* fs->nxt_slave
  listlen,          \* fs->ioassignments[t].listlen
  completed,        \* fs->ioassignments[t].completed
  all_quit_flag,    \* fs->all_quit_flag
  transferred       \* ghost: what this call has moved

wmVars == <<internal_offset, position, listiopool, nxt_slave, listlen, completed,
            all_quit_flag, transferred>>

FirstSlave == IF ActiveThreads > 1 THEN 1 ELSE MASTER

WorkManagerInit ==
  /\ internal_offset = -1
  /\ position = MasterPosition
  /\ listiopool = <<>>
  /\ nxt_slave = FirstSlave
  /\ listlen = [t \in Active |-> 0]
  /\ completed = [t \in Active |-> 0]
  /\ all_quit_flag = FALSE
  /\ transferred = {}

-----------------------------------------------------------------------------
(* Handing over one buffer *)

\* Where the next implicit offset lies; a READ starts at the head of the file,
\* a WRITE where the MASTER's descriptor stands.
Start(prms) ==
  IF internal_offset # -1 THEN internal_offset
  ELSE IF prms.io_type = "READ" THEN 0 ELSE position

Iovec(bufptr, buflen) == [iov_base |-> bufptr, iov_len |-> buflen]

FileBlock(to, bufptr, buflen, offset) ==
  [assigned_to |-> to, offset |-> offset, iov |-> <<Iovec(bufptr, buflen)>>]

\* Only CONTIG_FILE_BLOCK looks for an open block, only the other signals
\* assign one, and these always make a new block.
AddToListiopool(bufptr, buflen, offset, signal) ==
  LET last == Len(listiopool) IN
  IF signal # "CONTIG_FILE_BLOCK"
  THEN Append(listiopool, FileBlock(nxt_slave, bufptr, buflen, offset))
  ELSE IF last > 0 /\ listiopool[last].assigned_to = Nobody
  THEN [listiopool EXCEPT ![last].iov = Append(@, Iovec(bufptr, buflen))]
  ELSE Append(listiopool, FileBlock(Nobody, bufptr, buflen, offset))

\* Seeded bug: every signal counts, whether it assigned a block or not.
CountsAlways(signal) == TRUE

\* A BUF interface never sends CONTIG_FILE_BLOCK, a LIST interface counts the
\* block and wakes its thread with any other signal.
Counts(signal) == signal # "CONTIG_FILE_BLOCK"

Finishes(signal) == signal \in {"FINISH", "CONTIG_AND_FINISH"}

\* Seeded bugs: the round robin never wraps around; it goes on from call to
\* call instead of starting again with the first slave.
NextAfterNoWrap(signal) ==
  IF Finishes(signal) THEN FirstSlave
  ELSE IF Counts(signal) THEN nxt_slave + 1 ELSE nxt_slave

NextAfterForgotten(signal) ==
  IF Counts(signal) THEN (nxt_slave + 1) % ActiveThreads ELSE nxt_slave

\* incr_slave, and reset_nxt_slave after invoke_all.
NextAfter(signal) ==
  IF Finishes(signal) THEN FirstSlave
  ELSE IF ~Counts(signal) THEN nxt_slave
  ELSE IF nxt_slave = ActiveThreads - 1 THEN MASTER ELSE nxt_slave + 1

\* Seeded bug: the implicit offset stays where it is.
OffsetAfterKept(prms, buflen) == Start(prms)

OffsetAfter(prms, buflen) == Start(prms) + buflen

WorkManager(prms, bufptr, buflen, offset, signal) ==
  /\ listiopool' = AddToListiopool(bufptr, buflen,
                     IF prms.merge_type = "MEM" THEN Start(prms) ELSE offset, signal)
  /\ internal_offset' = IF prms.merge_type = "MEM" THEN OffsetAfter(prms, buflen)
                        ELSE internal_offset
  /\ listlen' = IF Counts(signal) THEN [listlen EXCEPT ![nxt_slave] = @ + 1]
                ELSE listlen
  /\ nxt_slave' = NextAfter(signal)
  /\ all_quit_flag' = (all_quit_flag \/ Finishes(signal))
  /\ UNCHANGED <<position, completed, transferred>>

-----------------------------------------------------------------------------
(* Transferring one block *)

\* _pwrite and _pread get the first buffer of the block.
BufBytes(block) ==
  {<<block.offset + d, block.iov[1].iov_base + d>> : d \in 0..(block.iov[1].iov_len - 1)}

\* One block of thread t, from the scan of the pool; `bytes` is what it moves.
\* The caller says what becomes of the descriptor's position.
Transfer(t, i, bytes) ==
  /\ completed[t] < listlen[t]
  /\ i \in DOMAIN listiopool /\ listiopool[i].assigned_to = t
  /\ \A j \in 1..(i - 1) : listiopool[j].assigned_to # t
  /\ listiopool' = [listiopool EXCEPT ![i].assigned_to = Nobody]
  /\ completed' = [completed EXCEPT ![t] = @ + 1]
  /\ transferred' = transferred \cup bytes
  /\ UNCHANGED <<internal_offset, nxt_slave, listlen, all_quit_flag>>

\* Everyone has left its loop: the counters are reset and the pool is freed.
AllDone == all_quit_flag /\ \A t \in Active : completed[t] = listlen[t]

FreePool ==
  /\ AllDone
  /\ listiopool' = <<>>
  /\ listlen' = [t \in Active |-> 0]
  /\ completed' = [t \in Active |-> 0]
  /\ UNCHANGED <<internal_offset, position, nxt_slave, all_quit_flag, transferred>>

-----------------------------------------------------------------------------
\* Types of the state of FS that work_manager.c keeps.
WorkManagerTypeOK ==
  /\ internal_offset \in Nat \cup {-1} /\ position \in Nat
  /\ listiopool \in Seq([assigned_to : Active \cup {Nobody}, offset : Nat,
                         iov : Seq([iov_base : Nat, iov_len : Nat])])
  /\ nxt_slave \in Active
  /\ listlen \in [Active -> Nat] /\ completed \in [Active -> Nat]
  /\ all_quit_flag \in BOOLEAN
  /\ transferred \subseteq Nat \X Nat

-----------------------------------------------------------------------------
(* What the scan of access_work_assignment relies on *)

\* A thread leaves its scan when completed reaches listlen, and for no other
\* reason: it must have exactly as many blocks in the pool as are counted.
CountedAreAssigned ==
  \A t \in Active :
    Cardinality({i \in DOMAIN listiopool : listiopool[i].assigned_to = t})
      = listlen[t] - completed[t]

\* Blocks go round the active threads and come to the MASTER, who is still
\* planning, last: shares differ by at most one block, and no thread has fewer
\* blocks of a call than the MASTER.
Balanced ==
  \A t \in Active : listlen[t] - listlen[MASTER] \in 0..1

=============================================================================
