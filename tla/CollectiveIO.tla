---------------------------- MODULE CollectiveIO ----------------------------
(***************************************************************************)
(* One open file and the team of threads that calls a collective BUF       *)
(* interface with implicit offsets on it (omp_file_write_all,              *)
(* omp_file_read_all), call after call.  Every thread stores its arguments *)
(* and meets the others at the OpenMP barrier; threads above               *)
(* active_threads return at once; of the rest, the MASTER merges the       *)
(* arguments into contiguous runs, hands each run to a thread and wakes    *)
(* it, while the slaves sleep on a condition variable and do their share.  *)
(*                                                                         *)
(* A pc label names the next shared access of a thread:                    *)
(*   idle     outside the library                                          *)
(*   ompc     waiting at __ompc_barrier                                    *)
(*   base     in _base, before the first wait on fs->barr                  *)
(*   b1 b2 b3 waiting at fs->barr for the 1st, 2nd and 3rd time            *)
(*   lock relock test check wait inner   enter_wait_state of a slave       *)
(*   scan step    access_work_assignment from the slave's waiting loop     *)
(*   fscan fstep  access_work_assignment after the quit flag (and MASTER)  *)
(*   merge count invoke quit invokeall   the MASTER distributing work      *)
(*   free     between the second and the third barrier                     *)
(***************************************************************************)
EXTENDS Integers, Sequences, FiniteSets

CONSTANTS
  NumThreads,     \* omp_get_num_threads()
  ActiveThreads,  \* fs->active_threads, already clamped by omp_file_open_all
  Calls,          \* bound: collective calls each thread makes
  Outcomes        \* what a pwrite or pread may return

ASSUME SizesAssumption ==
  /\ NumThreads \in Nat \ {0}
  /\ ActiveThreads \in 1..NumThreads
  /\ Calls \in Nat \ {0}

ASSUME OutcomesAssumption ==
  Outcomes # {} /\ Outcomes \subseteq {"SUCCESS", "ERROR"}

MASTER  == 0
Nobody  == -1
Threads == 0..(NumThreads - 1)
Active  == 0..(ActiveThreads - 1)
Slaves  == Active \ {MASTER}
Args    == Threads \X (1..Calls)     \* <<t, k>>: what t passed to call k

VARIABLES
  pc,            \* see above
  calls,         \* calls[t]: collective calls thread t has entered
  targs,         \* fs->targs: the call whose arguments slot t holds
  cursor,        \* the MASTER's index into the merged arguments
  run,           \* arguments of the contiguous run being gathered
  pool,          \* fs->listiopool: blocks with assigned_to and their data
  nxt_slave,     \* fs->nxt_slave
  listlen,       \* fs->ioassignments[t].listlen
  completed,     \* fs->ioassignments[t].completed
  all_quit_flag, \* fs->all_quit_flag
  wake,          \* loop index of invoke_all
  iterator,      \* iterator[t]: position of t in the pool
  result,        \* io_bytes, the value thread t will return
  moved,         \* ghost: how often each argument's data was transferred
  failed         \* ghost: threads with a failed transfer in this call

master == <<cursor, run, nxt_slave, wake>>
work   == <<pool, listlen, completed, iterator>>
data   == <<result, moved, failed>>
vars   == <<pc, calls, targs, all_quit_flag, master, work, data>>

-----------------------------------------------------------------------------
(* Synchronisation primitives *)

\* pthread_barrier_wait: t waits under label `at`, and the last of the group
\* to arrive releases all of it, each thread to the label next[u].
Arrive(t, group, at, next) ==
  pc' = IF \A u \in group \ {t} : pc[u] = at
        THEN [u \in Threads |-> IF u \in group THEN next[u] ELSE pc[u]]
        ELSE [pc EXCEPT ![t] = at]

\* Bug seeded for model checking: signalling without the mutex.
MutexIgnored(s) == TRUE

\* Thread s owns sync_objs[s].mutex exactly at these labels; the MASTER's own
\* critical sections hold nothing but one pthread_cond_signal.
MutexFree(s) == pc[s] \notin {"test", "check", "inner"}

\* One step of the MASTER that signals cond_var of s and goes to label next.
Signalled(s, next) ==
  [pc EXCEPT ![MASTER] = next, ![s] = IF @ = "wait" THEN "relock" ELSE @]

-----------------------------------------------------------------------------
Init ==
  /\ pc = [t \in Threads |-> "idle"]
  /\ calls = [t \in Threads |-> 0]
  /\ targs = [t \in Threads |-> 0]
  /\ cursor = 0 /\ run = {} /\ wake = 0
  /\ pool = <<>>
  /\ nxt_slave = IF ActiveThreads > 1 THEN 1 ELSE MASTER
  /\ listlen = [t \in Threads |-> 0]
  /\ completed = [t \in Threads |-> 0]
  /\ all_quit_flag = FALSE
  /\ iterator = [t \in Threads |-> 1]
  /\ result = [t \in Threads |-> "unset"]
  /\ moved = [a \in Args |-> 0]
  /\ failed = {}

(* The interface and pthread_coll_io_base *)

AfterOmpBarrier == [t \in Threads |-> IF t \in Active THEN "base" ELSE "idle"]

\* omp_file_write_all: store the arguments, meet the team; a thread that is
\* not active returns SUCCESS as soon as everyone has arrived.
Call(t) ==
  /\ pc[t] = "idle" /\ calls[t] < Calls
  /\ calls' = [calls EXCEPT ![t] = @ + 1]
  /\ targs' = [targs EXCEPT ![t] = calls[t] + 1]
  /\ result' = [result EXCEPT ![t] = IF t \in Active THEN "unset" ELSE "SUCCESS"]
  /\ failed' = failed \ {t}
  /\ Arrive(t, Threads, "ompc", AfterOmpBarrier)
  /\ UNCHANGED <<all_quit_flag, master, work, moved>>

AfterFirstBarrier == [t \in Threads |-> IF t = MASTER THEN "merge" ELSE "lock"]

\* _base up to its first barrier: the MASTER clears the quit flag.
EnterBase(t) ==
  /\ pc[t] = "base"
  /\ all_quit_flag' = IF t = MASTER THEN FALSE ELSE all_quit_flag
  /\ Arrive(t, Active, "b1", AfterFirstBarrier)
  /\ UNCHANGED <<calls, targs, master, work, data>>

-----------------------------------------------------------------------------
(* Reading the pool: access_work_assignment *)

\* Seeded bug: the iterator is left where the last scan ended.
FromLastPosition(t) == iterator

\* access_work_assignment begins at the head of the pool.
FromHead(t) == [iterator EXCEPT ![t] = 1]

\* Seeded bug: the last assigned block is not counted.
MoreWorkOffByOne(t) == completed[t] + 1 < listlen[t]

MoreWork(t) == completed[t] < listlen[t]

\* Seeded bugs: the test for the tail is dropped; the iterator is not moved.
AdvancedUnchecked(t) == iterator[t] + 1
AdvancedNever(t) == iterator[t]

\* if (iterator->next != NULL) iterator = iterator->next
Advanced(t) == IF iterator[t] < Len(pool) THEN iterator[t] + 1 ELSE iterator[t]

-----------------------------------------------------------------------------
(* The MASTER: buffer_contiguity_analyzer, work_manager, invoke_* *)

\* Seeded bug: the round robin never wraps around.
NextSlaveNoWrap == nxt_slave + 1

NextSlave == IF nxt_slave = ActiveThreads - 1 THEN MASTER ELSE nxt_slave + 1

AddToPool(args) == Append(pool, [assigned_to |-> nxt_slave, args |-> args])

\* Seeded bug: only the last buffer of a run is handed on.
GatheredLast == {<<cursor, targs[cursor]>>}

Gathered == run \cup {<<cursor, targs[cursor]>>}

\* Read the next slot of fs->targs.  Either its buffer continues in the next
\* one, or the run ends here and goes to the pool for nxt_slave.
Merge ==
  /\ pc[MASTER] = "merge"
  /\ cursor' = cursor + 1
  /\ \/ /\ cursor < NumThreads - 1
        /\ run' = Gathered
        /\ UNCHANGED <<pc, pool>>
     \/ /\ run' = {}
        /\ pool' = AddToPool(Gathered)
        /\ pc' = [pc EXCEPT ![MASTER] = "count"]
  /\ UNCHANGED <<calls, targs, nxt_slave, wake, listlen, completed,
                 all_quit_flag, iterator, data>>

\* work_manager publishes the block: ioassignments[nxt_slave].listlen++.
CountWork ==
  /\ pc[MASTER] = "count"
  /\ listlen' = [listlen EXCEPT ![nxt_slave] = @ + 1]
  /\ pc' = [pc EXCEPT ![MASTER] = "invoke"]
  /\ UNCHANGED <<calls, targs, master, pool, completed, all_quit_flag, iterator, data>>

\* invoke_thread and incr_slave; the last block came with FINISH.
InvokeThread ==
  /\ pc[MASTER] = "invoke"
  /\ MutexFree(nxt_slave)
  /\ pc' = Signalled(nxt_slave, IF cursor = NumThreads THEN "quit" ELSE "merge")
  /\ nxt_slave' = NextSlave
  /\ UNCHANGED <<calls, targs, cursor, run, wake, work, all_quit_flag, data>>

\* invoke_all raises the quit flag without holding any mutex ...
SetQuit ==
  /\ pc[MASTER] = "quit"
  /\ all_quit_flag' = TRUE
  /\ wake' = 0
  /\ pc' = [pc EXCEPT ![MASTER] = "invokeall"]
  /\ UNCHANGED <<calls, targs, cursor, run, nxt_slave, work, data>>

\* ... and then signals every thread of the team; reset_nxt_slave follows.
InvokeAll ==
  LET lastone == wake = NumThreads - 1 IN
  /\ pc[MASTER] = "invokeall"
  /\ MutexFree(wake)
  /\ pc' = Signalled(wake, IF lastone THEN "fscan" ELSE "invokeall")
  /\ wake' = IF lastone THEN 0 ELSE wake + 1
  /\ cursor' = IF lastone THEN 0 ELSE cursor
  /\ nxt_slave' = IF ~lastone THEN nxt_slave
                  ELSE IF ActiveThreads > 1 THEN 1 ELSE MASTER
  /\ iterator' = IF lastone THEN FromHead(MASTER) ELSE iterator
  /\ UNCHANGED <<calls, targs, run, pool, listlen, completed, all_quit_flag, data>>

-----------------------------------------------------------------------------
(* A slave: enter_wait_state *)

Goto(t, from, to) == pc[t] = from /\ pc' = [pc EXCEPT ![t] = to]

LockMutex(s) ==
  /\ \/ Goto(s, "lock", "test")
     \/ Goto(s, "relock", "inner")
  /\ UNCHANGED <<calls, targs, all_quit_flag, master, work, data>>

\* while (all_quit_flag != 1); once it is set the mutex is given up and what
\* is still assigned is done without it.
TestQuit(s) ==
  /\ \/ /\ all_quit_flag
        /\ Goto(s, "test", "fscan")
        /\ iterator' = FromHead(s)
     \/ /\ ~all_quit_flag
        /\ Goto(s, "test", "check")
        /\ UNCHANGED iterator
  /\ UNCHANGED <<calls, targs, all_quit_flag, master, pool, listlen, completed, data>>

\* pthread_cond_wait gives the mutex up in the step that starts the wait.
CheckWork(s) ==
  /\ Goto(s, "check", IF completed[s] = listlen[s] THEN "wait" ELSE "inner")
  /\ UNCHANGED <<calls, targs, all_quit_flag, master, work, data>>

\* POSIX allows pthread_cond_wait to return without a signal.
SpuriousWakeup(s) ==
  /\ Goto(s, "wait", "relock")
  /\ UNCHANGED <<calls, targs, all_quit_flag, master, work, data>>

\* while (completed < listlen) { unlock; access_work_assignment; lock }
TestWork(s) ==
  /\ \/ /\ MoreWork(s)
        /\ Goto(s, "inner", "scan")
        /\ iterator' = FromHead(s)
     \/ /\ ~MoreWork(s)
        /\ Goto(s, "inner", "test")
        /\ UNCHANGED iterator
  /\ UNCHANGED <<calls, targs, all_quit_flag, master, pool, listlen, completed, data>>

-----------------------------------------------------------------------------
(* Any active thread: access_work_assignment and the end of _base *)

\* The block at the iterator is transferred if it is assigned to t.
Perform(t) ==
  LET i == iterator[t] IN
  \/ /\ pool[i].assigned_to = t
     /\ pool' = [pool EXCEPT ![i].assigned_to = Nobody]
     /\ completed' = [completed EXCEPT ![t] = @ + 1]
     /\ moved' = [a \in Args |-> IF a \in pool[i].args THEN moved[a] + 1 ELSE moved[a]]
     /\ \E outcome \in Outcomes :
          /\ result' = [result EXCEPT ![t] = outcome]
          /\ failed' = IF outcome = "ERROR" THEN failed \cup {t} ELSE failed
  \/ /\ pool[i].assigned_to # t
     /\ UNCHANGED <<pool, completed, data>>

\* One round of the loop up to the advance of the iterator.
Scan(t) ==
  /\ MoreWork(t)
  /\ \/ Goto(t, "scan", "step")
     \/ Goto(t, "fscan", "fstep")
  /\ Perform(t)
  /\ UNCHANGED <<calls, targs, all_quit_flag, master, listlen, iterator>>

Advance(t) ==
  /\ \/ Goto(t, "step", "scan")
     \/ Goto(t, "fstep", "fscan")
  /\ iterator' = [iterator EXCEPT ![t] = Advanced(t)]
  /\ UNCHANGED <<calls, targs, all_quit_flag, master, pool, listlen, completed, data>>

\* The loop is over: a slave takes its mutex again.
ScanOver(s) ==
  /\ ~MoreWork(s)
  /\ Goto(s, "scan", "relock")
  /\ UNCHANGED <<calls, targs, all_quit_flag, master, work, data>>

\* Reset of the thread's ioassignment, then the second barrier.
Finish(t) ==
  /\ pc[t] = "fscan" /\ ~MoreWork(t)
  /\ listlen' = [listlen EXCEPT ![t] = 0]
  /\ completed' = [completed EXCEPT ![t] = 0]
  /\ Arrive(t, Active, "b2", [u \in Threads |-> "free"])
  /\ UNCHANGED <<calls, targs, all_quit_flag, master, pool, iterator, data>>

\* The MASTER frees the pool; the third barrier lets everybody return.
Leave(t) ==
  /\ pc[t] = "free"
  /\ pool' = IF t = MASTER THEN <<>> ELSE pool
  /\ Arrive(t, Active, "b3", [u \in Threads |-> "idle"])
  /\ UNCHANGED <<calls, targs, all_quit_flag, master, listlen, completed,
                 iterator, data>>

-----------------------------------------------------------------------------
MasterStep == Merge \/ CountWork \/ InvokeThread \/ SetQuit \/ InvokeAll

SlaveStep(s) ==
  LockMutex(s) \/ TestQuit(s) \/ CheckWork(s) \/ TestWork(s) \/ ScanOver(s)

ThreadStep(t) ==
  Call(t) \/ EnterBase(t) \/ Scan(t) \/ Advance(t) \/ Finish(t) \/ Leave(t)

\* Every thread has made its calls.
Terminating ==
  /\ \A t \in Threads : pc[t] = "idle" /\ calls[t] = Calls
  /\ UNCHANGED vars

Next ==
  \/ MasterStep
  \/ \E s \in Slaves : SlaveStep(s) \/ SpuriousWakeup(s)
  \/ \E t \in Threads : ThreadStep(t)
  \/ Terminating

Spec == Init /\ [][Next]_vars

\* Every thread is scheduled; a waiting thread is not woken out of the blue
\* for ever.
FairSpec ==
  /\ Spec
  /\ WF_vars(MasterStep)
  /\ \A s \in Slaves : WF_vars(SlaveStep(s))
  /\ \A t \in Threads : WF_vars(ThreadStep(t))
  /\ <>[][~\E s \in Slaves : SpuriousWakeup(s)]_vars

-----------------------------------------------------------------------------
(* Properties *)

Labels ==
  {"idle", "ompc", "base", "b1", "lock", "test", "check", "wait", "relock",
   "inner", "scan", "step", "merge", "count", "invoke", "quit", "invokeall",
   "fscan", "fstep", "b2", "free", "b3"}

Block == [assigned_to : Active \cup {Nobody}, args : SUBSET (Threads \X (0..Calls))]

\* Types of the variables of pthread_coll_io_base and of FS.
TypeOK ==
  /\ pc \in [Threads -> Labels]
  /\ calls \in [Threads -> 0..Calls]
  /\ targs \in [Threads -> 0..Calls]
  /\ cursor \in 0..NumThreads
  /\ run \subseteq Threads \X (0..Calls)
  /\ pool \in Seq(Block)
  /\ nxt_slave \in Active
  /\ listlen \in [Threads -> Nat]
  /\ completed \in [Threads -> Nat]
  /\ all_quit_flag \in BOOLEAN
  /\ wake \in Threads
  /\ iterator \in [Threads -> Nat \ {0}]
  /\ result \in [Threads -> {"unset", "SUCCESS", "ERROR"}]
  /\ moved \in [Args -> Nat]
  /\ failed \subseteq Threads

\* enter_wait_state never sleeps through a wake-up: a slave that waits on its
\* condition variable while the quit flag is up, or while work has been counted
\* for it, has the MASTER's signal still ahead of it.
NoLostWakeup ==
  \A s \in Slaves : pc[s] = "wait" =>
    /\ all_quit_flag => pc[MASTER] = "invokeall" /\ wake <= s
    /\ completed[s] # listlen[s] => pc[MASTER] = "invoke" /\ nxt_slave = s

Scanning(t) == pc[t] \in {"scan", "step", "fscan", "fstep"}

\* access_work_assignment follows the pool without a lock while the MASTER
\* appends to it and frees it: the iterator stands on a live block throughout.
NoUseAfterFree == \A t \in Active : Scanning(t) => iterator[t] \in DOMAIN pool

\* The iterator only moves forward and the loop ends only when completed
\* reaches listlen: no block of thread t may lie behind the iterator of t, or
\* t spins at the tail of the pool for ever.
NoWorkBehind ==
  \A t \in Active : Scanning(t) =>
    \A i \in DOMAIN pool : pool[i].assigned_to = t =>
      i > iterator[t] \/ (i = iterator[t] /\ pc[t] \in {"scan", "fscan"})

\* The MASTER frees the pool and threads return only when no block is left to
\* do: a thread at the second barrier has done all that was assigned to it.
AllWorkDone ==
  \A t \in Active : pc[t] \in {"b2", "free", "b3"} =>
    \A i \in DOMAIN pool : pool[i].assigned_to # t

\* t can go on only if another thread does: it waits at a barrier or on its
\* condition variable, it is the MASTER and wants a mutex that a slave holds, or
\* it has made all its calls.
Waits(t) ==
  \/ pc[t] \in {"ompc", "b1", "b2", "b3", "wait"}
  \/ pc[t] = "idle" /\ calls[t] = Calls
  \/ /\ t = MASTER
     /\ \/ pc[t] = "invoke" /\ ~MutexFree(nxt_slave)
        \/ pc[t] = "invokeall" /\ ~MutexFree(wake)

\* pthread_coll_io_base.c:19, :43, :104 and :121: four barriers met by different
\* groups of threads, with mutexes and condition variables between them.  As
\* long as a thread is in a call, not everyone waits on everyone, though nobody
\* is ever woken out of the blue.
NoDeadlock == (\A t \in Threads : Waits(t)) => \A t \in Threads : pc[t] = "idle"

\* contiguity_analyzer leaves nobody out: when the MASTER raises the quit flag,
\* every thread's slot of fs->targs is in exactly one block of the pool.
Distributed == pc[MASTER] \in {"quit", "invokeall", "fscan", "fstep", "b2"}

EverySlotOnce ==
  Distributed => \A t \in Threads :
    \E i \in DOMAIN pool : \A j \in DOMAIN pool :
      (\E a \in pool[j].args : a[1] = t) <=> j = i

\* pthread_coll_io_base.c:19: "sync here so that the MASTER proceeds only after
\* everyone has provided their data".  What the MASTER merges is what each
\* thread provided to the call the MASTER is in.
MergedArgsOfThisCall ==
  \A i \in DOMAIN pool : \A a \in pool[i].args : a[2] = calls[MASTER]

\* access_work_assignment.c:90: "io_bytes is actually an error code
\* ERROR/SUCCESS".  A thread that returns from a call returns ERROR if one of
\* its transfers failed in it, and SUCCESS if none did.
ReturnsItsErrorCode ==
  \A t \in Threads : pc[t] = "idle" /\ calls[t] > 0 =>
    result[t] = IF t \in failed THEN "ERROR" ELSE "SUCCESS"

\* Every thread comes back from every call it makes (no deadlock at the
\* barriers, no slave asleep for ever, no endless scan).
EveryCallReturns == \A t \in Threads : pc[t] = "ompc" ~> pc[t] = "idle"

\* To the active threads the dispatch of a collective call keeps what such a
\* call promises; they have returned when they are idle again.  What becomes of
\* the data of the other threads, who return early, is MergedArgsOfThisCall's subject.
Promise ==
  INSTANCE Collective WITH
    Threads  <- Active,
    entered  <- [t \in Active |-> calls[t]],
    returned <- [t \in Active |-> IF pc[t] = "idle" THEN calls[t] ELSE calls[t] - 1],
    moved    <- [a \in Active \X (1..Calls) |-> moved[a]]

ImplementsCollective == Promise!Spec

=============================================================================
