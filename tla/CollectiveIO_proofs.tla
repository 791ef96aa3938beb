------------------------ MODULE CollectiveIO_proofs -------------------------
(***************************************************************************)
(* Proofs about CollectiveIO for every team size, number of active         *)
(* threads and number of calls.  The inductive invariant is built in       *)
(* layers, each proved with the help of the ones before it.                *)
(***************************************************************************)
EXTENDS CollectiveIO, FiniteSetTheorems, TLAPS

-----------------------------------------------------------------------------
(* Layers of the inductive invariant *)

\* The MASTER's index stays inside fs->targs while it merges and is back at 0
\* when the next call begins.
CursorInv ==
  /\ pc[MASTER] = "merge" => cursor < NumThreads
  /\ pc[MASTER] \notin {"merge", "count", "invoke", "quit", "invokeall"} => cursor = 0

Gather     == {"idle", "ompc"}
Sync       == {"base", "b1"}
MasterWork == {"merge", "count", "invoke", "quit", "invokeall"}
SlaveWork  == {"lock", "relock", "test", "check", "wait", "inner", "scan", "step"}
Final      == {"fscan", "fstep", "b2"}
Clean      == {"free", "b3"}

\* The barriers keep the active threads in one phase of the call, and the
\* others outside fs->barr altogether.
PhaseInv ==
  /\ \A t \in Threads \ Active : pc[t] \in Gather
  /\ pc[MASTER] \notin SlaveWork
  /\ \A s \in Slaves : pc[s] \notin MasterWork
  /\ \/ \A t \in Active : pc[t] \in Gather
     \/ \A t \in Active : pc[t] \in Sync
     \/ \A t \in Active : pc[t] \in MasterWork \cup SlaveWork \cup Final
     \/ \A t \in Active : pc[t] \in Clean

\* The quit flag is down from the MASTER's first barrier until invoke_all, and
\* nobody is past the waiting loop while it is down.
QuitInv ==
  /\ pc[MASTER] \in {"b1", "merge", "count", "invoke", "quit"} => ~all_quit_flag
  /\ pc[MASTER] \in {"invokeall", "fscan", "fstep", "b2"} => all_quit_flag
  /\ \A s \in Slaves : pc[s] \in Final => all_quit_flag

\* NoLostWakeup, from the moment the slave has found the quit flag down.
WakeupInv ==
  \A s \in Slaves :
    /\ pc[s] \in {"check", "wait"} /\ all_quit_flag
         => pc[MASTER] = "invokeall" /\ wake <= s
    /\ pc[s] = "wait" /\ completed[s] # listlen[s]
         => pc[MASTER] = "invoke" /\ nxt_slave = s

\* Outside its share of the work a thread's ioassignment is reset.
ResetInv ==
  \A t \in Active :
    pc[t] \in Gather \cup Sync \cup Clean \cup {"b2"} => listlen[t] = 0 /\ completed[t] = 0

\* The pool exists from the MASTER's first block until the MASTER frees it.
PoolInv ==
  /\ pc[MASTER] \in Gather \cup Sync \cup {"b3"} => pool = <<>>
  /\ pc[MASTER] \in (MasterWork \cup Final \cup {"free"}) \ {"merge"} => pool # <<>>
  /\ \A t \in Active : listlen[t] > 0 => pool # <<>>

Mine(t) == {i \in DOMAIN pool : pool[i].assigned_to = t}

\* The block that is in the pool but not yet in listlen of its owner.
Uncounted(t) == IF pc[MASTER] = "count" /\ nxt_slave = t THEN 1 ELSE 0

\* What is counted for a thread and not completed is in the pool under its id.
CountInv ==
  \A t \in Active : listlen[t] + Uncounted(t) = completed[t] + Cardinality(Mine(t))

Holds(args, t) == \E a \in args : a[1] = t

InPool(t) == \E i \in DOMAIN pool : Holds(pool[i].args, t)

\* The slots below the MASTER's index are divided among the pool and the run.
SlotInv ==
  /\ \A i, j \in DOMAIN pool, t \in Threads :
       Holds(pool[i].args, t) /\ Holds(pool[j].args, t) => i = j
  /\ pc[MASTER] # "merge" => run = {}
  /\ pc[MASTER] \in MasterWork =>
       \A t \in Threads : /\ t < cursor <=> Holds(run, t) \/ InPool(t)
                          /\ ~(Holds(run, t) /\ InPool(t))
  /\ pc[MASTER] \in {"quit", "invokeall"} => cursor = NumThreads
  /\ pc[MASTER] \in Final => \A t \in Threads : InPool(t)

-----------------------------------------------------------------------------
(* The constants *)

\* The MASTER is an active thread and no slave, and Nobody is no thread.
LEMMA ThreadFacts ==
  /\ MASTER \in Active
  /\ Active \subseteq Threads
  /\ Slaves \subseteq Active
  /\ MASTER \notin Slaves
  /\ Nobody \notin Active
  /\ \A t \in Threads : t \in Nat /\ t < NumThreads
BY SizesAssumption DEF MASTER, Active, Threads, Slaves, Nobody

\* The round robin of incr_slave stays among the active threads.
LEMMA NextSlaveIsActive ==
  ASSUME nxt_slave \in Active PROVE NextSlave \in Active
BY SizesAssumption DEF NextSlave, Active, MASTER

-----------------------------------------------------------------------------
(* Type correctness *)

\* Waiting at a barrier keeps the labels of all threads in Labels.
LEMMA ArriveType ==
  ASSUME pc \in [Threads -> Labels], NEW t \in Threads, NEW group, NEW at \in Labels,
         NEW next \in [Threads -> Labels], Arrive(t, group, at, next)
  PROVE  pc' \in [Threads -> Labels]
BY DEF Arrive

\* add_to_listiopool keeps the pool a sequence of blocks.
LEMMA AddToPoolType ==
  ASSUME TypeOK, NEW args \in SUBSET (Threads \X (0..Calls))
  PROVE  AddToPool(args) \in Seq(Block)
BY DEF AddToPool, TypeOK, Block

\* The run being gathered consists of slots and calls.
LEMMA GatheredType ==
  ASSUME TypeOK, cursor \in Threads
  PROVE  Gathered \in SUBSET (Threads \X (0..Calls))
BY DEF Gathered, TypeOK

\* A step of the MASTER that signals a thread sets labels and nothing else.
LEMMA SignalledType ==
  ASSUME pc \in [Threads -> Labels], NEW s \in Threads, NEW next \in Labels
  PROVE  Signalled(s, next) \in [Threads -> Labels]
BY DEF Signalled, Labels

\* Completing a block keeps the pool a sequence of blocks.
LEMMA PoolType ==
  ASSUME pool \in Seq(Block), NEW i \in DOMAIN pool
  PROVE  [pool EXCEPT ![i].assigned_to = Nobody] \in Seq(Block)
<1>1. pool[i] \in Block
  OBVIOUS
<1>2. [pool[i] EXCEPT !.assigned_to = Nobody] \in Block
  BY <1>1 DEF Block
<1>3. \A b \in Block : [pool EXCEPT ![i] = b] \in Seq(Block)
  OBVIOUS
<1> QED BY <1>2, <1>3

\* omp_file_open_all leaves every variable with its type.
LEMMA InitType == Init => TypeOK /\ CursorInv
<1> SUFFICES ASSUME Init PROVE TypeOK /\ CursorInv
  OBVIOUS
<1> USE ThreadFacts, SizesAssumption DEF Init
<1>1. pc \in [Threads -> Labels] /\ calls \in [Threads -> 0..Calls]
      /\ targs \in [Threads -> 0..Calls] /\ cursor \in 0..NumThreads
  BY DEF Labels
<1>2. run \subseteq Threads \X (0..Calls) /\ pool \in Seq(Block) /\ nxt_slave \in Active
  BY DEF Active, MASTER
<1>3. listlen \in [Threads -> Nat] /\ completed \in [Threads -> Nat]
      /\ all_quit_flag \in BOOLEAN /\ wake \in Threads
  BY DEF MASTER
<1>4. iterator \in [Threads -> Nat \ {0}] /\ moved \in [Args -> Nat] /\ failed \subseteq Threads
  OBVIOUS
<1>5. result \in [Threads -> {"unset", "SUCCESS", "ERROR"}]
  OBVIOUS
<1>6. CursorInv
  BY DEF CursorInv
<1> QED BY <1>1, <1>2, <1>3, <1>4, <1>5, <1>6 DEF TypeOK

\* Every variable keeps its type, the MASTER's index its range.
THEOREM TypeCorrect == Spec => [](TypeOK /\ CursorInv)
<1>1. TypeOK /\ CursorInv /\ [Next]_vars => TypeOK' /\ CursorInv'
  <2> SUFFICES ASSUME TypeOK, CursorInv, [Next]_vars
               PROVE  TypeOK' /\ CursorInv'
    OBVIOUS
  <2>a. pc \in [Threads -> Labels] /\ calls \in [Threads -> 0..Calls]
        /\ targs \in [Threads -> 0..Calls] /\ result \in [Threads -> {"unset", "SUCCESS", "ERROR"}]
    BY DEF TypeOK
  <2>b. listlen \in [Threads -> Nat] /\ completed \in [Threads -> Nat]
        /\ iterator \in [Threads -> Nat \ {0}] /\ moved \in [Args -> Nat]
    BY DEF TypeOK
  <2>c. cursor \in 0..NumThreads /\ nxt_slave \in Active /\ wake \in Threads
    BY DEF TypeOK
  <2>d. MASTER \in Threads /\ nxt_slave \in Threads
    BY <2>c, ThreadFacts
  <2>1. ASSUME NEW t \in Threads, Call(t) PROVE TypeOK' /\ CursorInv'
    <3>1. AfterOmpBarrier \in [Threads -> Labels] /\ "ompc" \in Labels
      BY DEF AfterOmpBarrier, Labels
    <3>2. pc' \in [Threads -> Labels]
      BY <2>a, <2>1, <3>1, ArriveType DEF Call
    <3>3. CursorInv'
      BY <2>a, <2>1, <2>d DEF CursorInv, Call, Arrive, AfterOmpBarrier, master
    <3>4. calls' \in [Threads -> 0..Calls] /\ targs' \in [Threads -> 0..Calls]
      BY <2>a, <2>1, SizesAssumption DEF Call
    <3>5. result' \in [Threads -> {"unset", "SUCCESS", "ERROR"}]
      BY <2>a, <2>1 DEF Call
    <3>6. failed' \subseteq Threads
      BY <2>1 DEF Call, TypeOK
    <3> QED BY <2>1, <3>2, <3>3, <3>4, <3>5, <3>6 DEF TypeOK, Call, master, work
  <2>2. ASSUME NEW t \in Threads, EnterBase(t) PROVE TypeOK' /\ CursorInv'
    <3>1. AfterFirstBarrier \in [Threads -> Labels] /\ "b1" \in Labels
      BY DEF AfterFirstBarrier, Labels
    <3>2. pc' \in [Threads -> Labels]
      BY <2>a, <2>2, <3>1, ArriveType DEF EnterBase
    <3>3. CursorInv'
      BY <2>a, <2>2, <2>d, SizesAssumption
         DEF CursorInv, EnterBase, Arrive, AfterFirstBarrier, master
    <3>4. all_quit_flag' \in BOOLEAN
      BY <2>2 DEF EnterBase, TypeOK
    <3> QED BY <2>2, <3>2, <3>3, <3>4 DEF TypeOK, EnterBase, master, work, data
  <2>3. ASSUME Merge PROVE TypeOK' /\ CursorInv'
    <3>1. cursor \in Threads
      BY SizesAssumption, <2>c, <2>3 DEF Merge, CursorInv, Threads
    <3>2. run' \subseteq Threads \X (0..Calls) /\ pool' \in Seq(Block)
      BY <2>3, <3>1, GatheredType, AddToPoolType DEF Merge, TypeOK
    <3>3. pc' \in [Threads -> Labels] /\ CursorInv'
      BY SizesAssumption, <2>a, <2>c, <2>d, <2>3 DEF Merge, Labels, CursorInv
    <3>4. cursor' \in 0..NumThreads
      BY SizesAssumption, <2>3, <3>1 DEF Merge, Threads
    <3> QED BY <2>3, <3>2, <3>3, <3>4 DEF TypeOK, Merge, data
  <2>4. ASSUME CountWork PROVE TypeOK' /\ CursorInv'
    <3>1. pc' \in [Threads -> Labels] /\ CursorInv'
      BY <2>a, <2>d, <2>4 DEF CountWork, CursorInv, Labels, master
    <3>2. listlen' \in [Threads -> Nat]
      BY <2>b, <2>d, <2>4 DEF CountWork
    <3> QED BY <2>4, <3>1, <3>2 DEF TypeOK, CountWork, master, data
  <2>5. ASSUME InvokeThread PROVE TypeOK' /\ CursorInv'
    <3>1. pc' \in [Threads -> Labels]
      BY <2>a, <2>d, <2>5, SignalledType DEF InvokeThread, Labels
    <3>2. CursorInv'
      BY SizesAssumption, <2>a, <2>c, <2>d, <2>5 DEF InvokeThread, Signalled, CursorInv
    <3> QED BY <2>c, <2>5, <3>1, <3>2, NextSlaveIsActive DEF TypeOK, InvokeThread, work, data
  <2>6. ASSUME SetQuit PROVE TypeOK' /\ CursorInv'
    <3>1. pc' \in [Threads -> Labels] /\ CursorInv'
      BY <2>a, <2>d, <2>6 DEF SetQuit, CursorInv, Labels
    <3>2. wake' \in Threads
      BY <2>d, <2>6 DEF SetQuit, MASTER
    <3> QED BY <2>6, <3>1, <3>2 DEF TypeOK, SetQuit, work, data
  <2>7. ASSUME InvokeAll PROVE TypeOK' /\ CursorInv'
    <3>1. pc' \in [Threads -> Labels]
      BY <2>a, <2>c, <2>7, SignalledType DEF InvokeAll, Labels
    <3>2. CursorInv'
      BY <2>a, <2>c, <2>d, <2>7 DEF InvokeAll, Signalled, CursorInv
    <3>3. wake' \in Threads /\ nxt_slave' \in Active /\ cursor' \in 0..NumThreads
      BY <2>c, <2>7, SizesAssumption DEF InvokeAll, Threads, Active, MASTER
    <3>4. iterator' \in [Threads -> Nat \ {0}]
      BY <2>b, <2>d, <2>7 DEF InvokeAll, FromHead
    <3> QED BY <2>7, <3>1, <3>2, <3>3, <3>4 DEF TypeOK, InvokeAll, data
  <2>8. ASSUME NEW s \in Slaves, SlaveStep(s) \/ SpuriousWakeup(s) PROVE TypeOK' /\ CursorInv'
    <3>1. pc' \in [Threads -> Labels] /\ CursorInv'
      BY <2>a, <2>8, ThreadFacts
         DEF SlaveStep, SpuriousWakeup, LockMutex, TestQuit, CheckWork, TestWork, ScanOver,
             Goto, Labels, CursorInv, master
    <3>2. iterator' \in [Threads -> Nat \ {0}]
      BY <2>b, <2>8, ThreadFacts
         DEF SlaveStep, SpuriousWakeup, LockMutex, TestQuit, CheckWork, TestWork, ScanOver,
             FromHead, work
    <3> QED BY <2>8, <3>1, <3>2
            DEF TypeOK, SlaveStep, SpuriousWakeup, LockMutex, TestQuit, CheckWork, TestWork,
                ScanOver, master, work, data
  <2>9. ASSUME NEW t \in Threads, Scan(t) PROVE TypeOK' /\ CursorInv'
    <3>1. pc' \in [Threads -> Labels] /\ CursorInv'
      BY <2>a, <2>d, <2>9 DEF Scan, Goto, Labels, CursorInv, master
    <3>2. CASE pool[iterator[t]].assigned_to = t
      <4>1. pool' \in Seq(Block)
        <5>1. pool \in Seq(Block)
          BY DEF TypeOK
        <5>2. CASE iterator[t] \in DOMAIN pool
          BY <2>9, <3>2, <5>1, <5>2, PoolType DEF Scan, Perform
        <5>3. CASE iterator[t] \notin DOMAIN pool
          BY <2>9, <3>2, <5>1, <5>3 DEF Scan, Perform
        <5> QED BY <5>2, <5>3
      <4>2. completed' \in [Threads -> Nat]
        BY <2>b, <2>9, <3>2 DEF Scan, Perform
      <4>3. moved' \in [Args -> Nat]
        BY <2>b, <2>9, <3>2 DEF Scan, Perform
      <4>4. result' \in [Threads -> {"unset", "SUCCESS", "ERROR"}]
        BY <2>a, <2>9, <3>2, OutcomesAssumption DEF Scan, Perform
      <4>5. failed' \subseteq Threads
        BY <2>9, <3>2 DEF Scan, Perform, TypeOK
      <4> QED BY <2>9, <3>1, <4>1, <4>2, <4>3, <4>4, <4>5 DEF TypeOK, Scan, master
    <3>3. CASE pool[iterator[t]].assigned_to # t
      BY <2>9, <3>1, <3>3 DEF TypeOK, Scan, Perform, master, data
    <3> QED BY <3>2, <3>3
  <2>10. ASSUME NEW t \in Threads, Advance(t) PROVE TypeOK' /\ CursorInv'
    <3>1. pc' \in [Threads -> Labels] /\ CursorInv'
      BY <2>a, <2>d, <2>10 DEF Advance, Goto, Labels, CursorInv, master
    <3>2. Advanced(t) \in Nat \ {0}
      BY <2>b DEF Advanced
    <3>3. iterator' \in [Threads -> Nat \ {0}]
      BY <2>b, <2>10, <3>2 DEF Advance
    <3> QED BY <2>10, <3>1, <3>3 DEF TypeOK, Advance, master, data
  <2>11. ASSUME NEW t \in Threads, Finish(t) PROVE TypeOK' /\ CursorInv'
    <3>1. [u \in Threads |-> "free"] \in [Threads -> Labels] /\ "b2" \in Labels
      BY DEF Labels
    <3>2. pc' \in [Threads -> Labels]
      BY <2>a, <2>11, <3>1, ArriveType DEF Finish
    <3>3. CursorInv'
      BY <2>a, <2>d, <2>11 DEF Finish, Arrive, CursorInv, master
    <3>4. listlen' \in [Threads -> Nat] /\ completed' \in [Threads -> Nat]
      BY <2>b, <2>11 DEF Finish
    <3> QED BY <2>11, <3>2, <3>3, <3>4 DEF TypeOK, Finish, master, data
  <2>12. ASSUME NEW t \in Threads, Leave(t) PROVE TypeOK' /\ CursorInv'
    <3>1. [u \in Threads |-> "idle"] \in [Threads -> Labels] /\ "b3" \in Labels
      BY DEF Labels
    <3>2. pc' \in [Threads -> Labels]
      BY <2>a, <2>12, <3>1, ArriveType DEF Leave
    <3>3. CursorInv'
      BY <2>a, <2>d, <2>12 DEF Leave, Arrive, CursorInv, master
    <3>4. pool' \in Seq(Block)
      BY <2>12 DEF Leave, TypeOK
    <3> QED BY <2>12, <3>2, <3>3, <3>4 DEF TypeOK, Leave, master, data
  <2>13. ASSUME UNCHANGED vars PROVE TypeOK' /\ CursorInv'
    BY <2>13 DEF TypeOK, CursorInv, vars, master, work, data
  <2> QED BY <2>1, <2>2, <2>3, <2>4, <2>5, <2>6, <2>7, <2>8, <2>9, <2>10, <2>11, <2>12,
             <2>13 DEF Next, MasterStep, ThreadStep, Terminating
<1> QED BY <1>1, InitType, PTL DEF Spec

-----------------------------------------------------------------------------
(* The barriers and the quit flag *)

\* The active threads go through a call in step, one phase at a time.
THEOREM Phases == Spec => []PhaseInv
<1>1. Init => PhaseInv
  BY ThreadFacts DEF Init, PhaseInv, Gather, SlaveWork, MasterWork
<1>2. TypeOK /\ PhaseInv /\ [Next]_vars => PhaseInv'
  <2> SUFFICES ASSUME TypeOK, PhaseInv, [Next]_vars PROVE PhaseInv'
    OBVIOUS
  <2>t. pc \in [Threads -> Labels] /\ nxt_slave \in Threads /\ wake \in Threads
    BY ThreadFacts DEF TypeOK
  <2> USE <2>t, ThreadFacts DEF PhaseInv, Gather, Sync, MasterWork, SlaveWork, Final, Clean
  <2>1. ASSUME NEW t \in Threads, Call(t) PROVE PhaseInv'
    BY <2>1 DEF Call, Arrive, AfterOmpBarrier
  <2>2. ASSUME NEW t \in Threads, EnterBase(t) PROVE PhaseInv'
    BY <2>2 DEF EnterBase, Arrive, AfterFirstBarrier, Slaves
  <2>3. ASSUME MasterStep PROVE PhaseInv'
    BY <2>3 DEF MasterStep, Merge, CountWork, InvokeThread, SetQuit, InvokeAll, Signalled, Slaves
  <2>4. ASSUME NEW s \in Slaves, SlaveStep(s) \/ SpuriousWakeup(s) PROVE PhaseInv'
    BY <2>4 DEF SlaveStep, SpuriousWakeup, LockMutex, TestQuit, CheckWork, TestWork,
                ScanOver, Goto
  <2>5. ASSUME NEW t \in Threads, Scan(t) \/ Advance(t) PROVE PhaseInv'
    BY <2>5 DEF Scan, Advance, Goto, Slaves
  <2>6. ASSUME NEW t \in Threads, Finish(t) PROVE PhaseInv'
    BY <2>6 DEF Finish, Arrive
  <2>7. ASSUME NEW t \in Threads, Leave(t) PROVE PhaseInv'
    BY <2>7 DEF Leave, Arrive
  <2>8. ASSUME UNCHANGED vars PROVE PhaseInv'
    BY <2>8 DEF vars
  <2> HIDE DEF PhaseInv
  <2> QED BY <2>1, <2>2, <2>3, <2>4, <2>5, <2>6, <2>7, <2>8 DEF Next, ThreadStep, Terminating
<1> QED BY <1>1, <1>2, TypeCorrect, PTL DEF Spec

\* The quit flag is up exactly while the MASTER is past invoke_all's first line.
THEOREM QuitFlag == Spec => []QuitInv
<1>1. Init => QuitInv
  BY ThreadFacts DEF Init, QuitInv, Final
<1>2. TypeOK /\ PhaseInv /\ QuitInv /\ [Next]_vars => QuitInv'
  <2> SUFFICES ASSUME TypeOK, PhaseInv, QuitInv, [Next]_vars PROVE QuitInv'
    OBVIOUS
  <2>t. pc \in [Threads -> Labels] /\ nxt_slave \in Threads /\ wake \in Threads
        /\ all_quit_flag \in BOOLEAN
    BY ThreadFacts DEF TypeOK
  <2> USE <2>t, ThreadFacts
      DEF QuitInv, PhaseInv, Gather, Sync, MasterWork, SlaveWork, Final, Clean
  <2>1. ASSUME NEW t \in Threads, Call(t) PROVE QuitInv'
    BY <2>1 DEF Call, Arrive, AfterOmpBarrier
  <2>2. ASSUME NEW t \in Threads, EnterBase(t) PROVE QuitInv'
    BY <2>2 DEF EnterBase, Arrive, AfterFirstBarrier
  <2>3. ASSUME MasterStep PROVE QuitInv'
    BY <2>3 DEF MasterStep, Merge, CountWork, InvokeThread, SetQuit, InvokeAll, Signalled
  <2>4. ASSUME NEW s \in Slaves, SlaveStep(s) \/ SpuriousWakeup(s) PROVE QuitInv'
    BY <2>4 DEF SlaveStep, SpuriousWakeup, LockMutex, TestQuit, CheckWork, TestWork,
                ScanOver, Goto
  <2>5. ASSUME NEW t \in Threads, Scan(t) \/ Advance(t) PROVE QuitInv'
    BY <2>5 DEF Scan, Advance, Goto
  <2>6. ASSUME NEW t \in Threads, Finish(t) PROVE QuitInv'
    BY <2>6 DEF Finish, Arrive
  <2>7. ASSUME NEW t \in Threads, Leave(t) PROVE QuitInv'
    BY <2>7 DEF Leave, Arrive
  <2>8. ASSUME UNCHANGED vars PROVE QuitInv'
    BY <2>8 DEF vars
  <2> HIDE DEF QuitInv
  <2> QED BY <2>1, <2>2, <2>3, <2>4, <2>5, <2>6, <2>7, <2>8 DEF Next, ThreadStep, Terminating
<1> QED BY <1>1, <1>2, TypeCorrect, Phases, PTL DEF Spec

-----------------------------------------------------------------------------
(* No lost wake-up *)

\* enter_wait_state tests the quit flag and the counters under the mutex that
\* invoke_thread and invoke_all take after they have changed them.
THEOREM Wakeups == Spec => []WakeupInv
<1>1. Init => WakeupInv
  BY ThreadFacts DEF Init, WakeupInv
<1>2. TypeOK /\ PhaseInv /\ QuitInv /\ WakeupInv /\ [Next]_vars => WakeupInv'
  <2> SUFFICES ASSUME TypeOK, PhaseInv, QuitInv, WakeupInv, [Next]_vars PROVE WakeupInv'
    OBVIOUS
  <2>t. /\ pc \in [Threads -> Labels]
        /\ nxt_slave \in Threads /\ wake \in Threads
        /\ listlen \in [Threads -> Nat] /\ completed \in [Threads -> Nat]
    BY ThreadFacts DEF TypeOK
  <2>u. \A s \in Slaves : s \in Threads /\ s # MASTER /\ s \in Nat
    BY ThreadFacts
  <2> USE <2>t, <2>u, ThreadFacts
      DEF WakeupInv, PhaseInv, Gather, Sync, MasterWork, SlaveWork, Final, Clean
  <2>1. ASSUME NEW t \in Threads, Call(t) PROVE WakeupInv'
    BY <2>1 DEF Call, Arrive, AfterOmpBarrier, master, work
  <2>2. ASSUME NEW t \in Threads, EnterBase(t) PROVE WakeupInv'
    BY <2>2 DEF EnterBase, Arrive, AfterFirstBarrier, master, work
  <2>3. ASSUME Merge PROVE WakeupInv'
    BY <2>3 DEF Merge
  <2>4. ASSUME CountWork PROVE WakeupInv'
    BY <2>4 DEF CountWork, master
  <2>5. ASSUME InvokeThread PROVE WakeupInv'
    BY <2>5 DEF InvokeThread, Signalled, MutexFree, work
  <2>6. ASSUME SetQuit PROVE WakeupInv'
    BY <2>6 DEF SetQuit, MASTER, work
  <2>7. ASSUME InvokeAll PROVE WakeupInv'
    <3> SUFFICES ASSUME NEW s \in Slaves, pc'[s] \in {"check", "wait"}
                 PROVE  /\ pc'[MASTER] = "invokeall" /\ wake' <= s
                        /\ pc'[s] = "wait" => completed'[s] = listlen'[s]
      BY <2>7 DEF InvokeAll
    <3>1. s # wake /\ pc[s] = pc'[s]
      BY <2>7 DEF InvokeAll, Signalled, MutexFree
    <3>2. all_quit_flag /\ pc[MASTER] = "invokeall"
      BY <2>7 DEF InvokeAll, QuitInv
    <3>3. wake < s /\ s < NumThreads /\ wake \in Nat /\ NumThreads \in Nat
      BY <3>1, <3>2, SizesAssumption
    <3>4. wake # NumThreads - 1
      BY <3>3
    <3>5. pc'[MASTER] = "invokeall" /\ wake' = wake + 1
      BY <2>7, <3>4 DEF InvokeAll, Signalled
    <3> QED BY <2>7, <3>1, <3>2, <3>3, <3>5 DEF InvokeAll
  <2>8. ASSUME NEW s \in Slaves, SlaveStep(s) \/ SpuriousWakeup(s) PROVE WakeupInv'
    BY <2>8 DEF SlaveStep, SpuriousWakeup, LockMutex, TestQuit, CheckWork, TestWork,
                ScanOver, Goto, master, work
  <2>9. ASSUME NEW t \in Threads, Scan(t) \/ Advance(t) PROVE WakeupInv'
    BY <2>9 DEF Scan, Perform, Advance, Goto, master
  <2>10. ASSUME NEW t \in Threads, Finish(t) PROVE WakeupInv'
    BY <2>10 DEF Finish, Arrive, master
  <2>11. ASSUME NEW t \in Threads, Leave(t) PROVE WakeupInv'
    BY <2>11 DEF Leave, Arrive, master
  <2>12. ASSUME UNCHANGED vars PROVE WakeupInv'
    BY <2>12 DEF vars, master, work
  <2> HIDE DEF WakeupInv
  <2> QED BY <2>1, <2>2, <2>3, <2>4, <2>5, <2>6, <2>7, <2>8, <2>9, <2>10, <2>11, <2>12
          DEF Next, MasterStep, ThreadStep, Terminating
<1> QED BY <1>1, <1>2, TypeCorrect, Phases, QuitFlag, PTL DEF Spec

\* No slave sleeps on its condition variable with work or the quit flag
\* waiting for it and no signal to come.
THEOREM NoSlaveSleepsOn == Spec => []NoLostWakeup
<1>1. WakeupInv => NoLostWakeup
  BY DEF WakeupInv, NoLostWakeup
<1> QED BY <1>1, Wakeups, PTL

-----------------------------------------------------------------------------
(* The life of the counters and of the pool *)

\* The counters of every active thread are back at zero before the barrier
\* that lets the MASTER free the pool and start the next call.
THEOREM Resets == Spec => []ResetInv
<1>1. Init => ResetInv
  BY ThreadFacts DEF Init, ResetInv
<1>2. TypeOK /\ PhaseInv /\ QuitInv /\ ResetInv /\ [Next]_vars => ResetInv'
  <2> SUFFICES ASSUME TypeOK, PhaseInv, QuitInv, ResetInv, [Next]_vars PROVE ResetInv'
    OBVIOUS
  <2>t. /\ pc \in [Threads -> Labels]
        /\ nxt_slave \in Threads /\ wake \in Threads
        /\ listlen \in [Threads -> Nat] /\ completed \in [Threads -> Nat]
    BY ThreadFacts DEF TypeOK
  <2> USE <2>t, ThreadFacts
      DEF ResetInv, PhaseInv, Gather, Sync, MasterWork, SlaveWork, Final, Clean
  <2>1. ASSUME NEW t \in Threads, Call(t) PROVE ResetInv'
    BY <2>1 DEF Call, Arrive, AfterOmpBarrier, work
  <2>2. ASSUME NEW t \in Threads, EnterBase(t) PROVE ResetInv'
    BY <2>2 DEF EnterBase, Arrive, AfterFirstBarrier, work
  <2>3. ASSUME MasterStep PROVE ResetInv'
    <3>1. CASE Merge \/ SetQuit
      BY <3>1 DEF Merge, SetQuit, work
    <3>2. CASE CountWork
      BY <3>2 DEF CountWork, QuitInv, Slaves
    <3>3. CASE InvokeThread
      BY <3>3 DEF InvokeThread, Signalled, work
    <3>4. CASE InvokeAll
      BY <3>4 DEF InvokeAll, Signalled
    <3> QED BY <2>3, <3>1, <3>2, <3>3, <3>4 DEF MasterStep
  <2>4. ASSUME NEW s \in Slaves, SlaveStep(s) \/ SpuriousWakeup(s) PROVE ResetInv'
    BY <2>4 DEF SlaveStep, SpuriousWakeup, LockMutex, TestQuit, CheckWork, TestWork,
                ScanOver, Goto, work
  <2>5. ASSUME NEW t \in Threads, Scan(t) \/ Advance(t) PROVE ResetInv'
    BY <2>5 DEF Scan, Perform, Advance, Goto
  <2>6. ASSUME NEW t \in Threads, Finish(t) PROVE ResetInv'
    BY <2>6 DEF Finish, Arrive
  <2>7. ASSUME NEW t \in Threads, Leave(t) PROVE ResetInv'
    BY <2>7 DEF Leave, Arrive
  <2>8. ASSUME UNCHANGED vars PROVE ResetInv'
    BY <2>8 DEF vars, work
  <2> HIDE DEF ResetInv
  <2> QED BY <2>1, <2>2, <2>3, <2>4, <2>5, <2>6, <2>7, <2>8 DEF Next, ThreadStep, Terminating
<1> QED BY <1>1, <1>2, TypeCorrect, Phases, QuitFlag, PTL DEF Spec

\* Appending to the pool and completing a block leave it nonempty.
LEMMA NonEmpty ==
  ASSUME TypeOK
  PROVE  /\ \A args \in SUBSET (Threads \X (0..Calls)) : AddToPool(args) # <<>>
         /\ \A i, b : pool # <<>> => [pool EXCEPT ![i].assigned_to = b] # <<>>
<1>1. pool \in Seq(Block)
  BY DEF TypeOK
<1>2. ASSUME NEW args \in SUBSET (Threads \X (0..Calls)) PROVE AddToPool(args) # <<>>
  <2>1. [assigned_to |-> nxt_slave, args |-> args] \in Block
    BY DEF TypeOK, Block
  <2>2. Len(AddToPool(args)) = Len(pool) + 1
    BY <1>1, <2>1 DEF AddToPool
  <2> QED BY <1>1, <2>2
<1>3. \A i, b : DOMAIN [pool EXCEPT ![i].assigned_to = b] = DOMAIN pool
  OBVIOUS
<1>4. pool # <<>> => DOMAIN pool # {}
  BY <1>1
<1>5. DOMAIN <<>> = {}
  OBVIOUS
<1> QED BY <1>2, <1>3, <1>4, <1>5

\* Whoever has work counted for it, and the MASTER up to the moment it frees
\* the pool, finds a pool that is not empty; between calls there is none.
THEOREM PoolLives == Spec => []PoolInv
<1>1. Init => PoolInv
  BY ThreadFacts DEF Init, PoolInv, MasterWork, Final
<1>2. TypeOK /\ CursorInv /\ PhaseInv /\ ResetInv /\ PoolInv /\ [Next]_vars => PoolInv'
  <2> SUFFICES ASSUME TypeOK, CursorInv, PhaseInv, ResetInv, PoolInv, [Next]_vars PROVE PoolInv'
    OBVIOUS
  <2>t. /\ pc \in [Threads -> Labels]
        /\ nxt_slave \in Threads /\ wake \in Threads
        /\ listlen \in [Threads -> Nat] /\ completed \in [Threads -> Nat]
    BY ThreadFacts DEF TypeOK
  <2> USE <2>t, ThreadFacts
      DEF PoolInv, PhaseInv, Gather, Sync, MasterWork, SlaveWork, Final, Clean
  <2>1. ASSUME NEW t \in Threads, Call(t) PROVE PoolInv'
    BY <2>1 DEF Call, Arrive, AfterOmpBarrier, work
  <2>2. ASSUME NEW t \in Threads, EnterBase(t) PROVE PoolInv'
    BY <2>2 DEF EnterBase, Arrive, AfterFirstBarrier, work
  <2>3. ASSUME Merge PROVE PoolInv'
    <3>1. cursor \in Threads
      BY <2>3, SizesAssumption DEF Merge, CursorInv, TypeOK, Threads
    <3> QED BY <2>3, <3>1, NonEmpty, GatheredType DEF Merge
  <2>4. ASSUME CountWork \/ InvokeThread \/ SetQuit \/ InvokeAll PROVE PoolInv'
    BY <2>4 DEF CountWork, InvokeThread, SetQuit, InvokeAll, Signalled, work
  <2>5. ASSUME NEW s \in Slaves, SlaveStep(s) \/ SpuriousWakeup(s) PROVE PoolInv'
    BY <2>5 DEF SlaveStep, SpuriousWakeup, LockMutex, TestQuit, CheckWork, TestWork,
                ScanOver, Goto, work
  <2>6. ASSUME NEW t \in Threads, Scan(t) PROVE PoolInv'
    BY <2>6, NonEmpty DEF Scan, Perform, Goto
  <2>7. ASSUME NEW t \in Threads, Advance(t) PROVE PoolInv'
    BY <2>7 DEF Advance, Goto
  <2>8. ASSUME NEW t \in Threads, Finish(t) PROVE PoolInv'
    BY <2>8 DEF Finish, Arrive
  <2>9. ASSUME NEW t \in Threads, Leave(t) PROVE PoolInv'
    <3>1. \A u \in Active : pc[u] \in Clean /\ listlen[u] = 0
      BY <2>9 DEF Leave, ResetInv
    <3>2. CASE t = MASTER
      BY <2>9, <3>1, <3>2 DEF Leave, Arrive
    <3>3. CASE t # MASTER
      BY <2>9, <3>1, <3>3 DEF Leave, Arrive
    <3> QED BY <3>2, <3>3
  <2>10. ASSUME UNCHANGED vars PROVE PoolInv'
    BY <2>10 DEF vars, work
  <2> HIDE DEF PoolInv
  <2> QED BY <2>1, <2>2, <2>3, <2>4, <2>5, <2>6, <2>7, <2>8, <2>9, <2>10
          DEF Next, MasterStep, ThreadStep, Terminating
<1> QED BY <1>1, <1>2, TypeCorrect, Phases, Resets, PTL DEF Spec

-----------------------------------------------------------------------------
(* Reading the pool without a lock *)

\* A pool that is not empty has a head, and owners are active threads or Nobody.
LEMMA PoolDomain ==
  ASSUME TypeOK
  PROVE  /\ Len(pool) \in Nat /\ DOMAIN pool = 1..Len(pool)
         /\ pool # <<>> => 1 \in DOMAIN pool
         /\ \A i \in DOMAIN pool : pool[i].assigned_to \in Active \cup {Nobody}
<1>1. pool \in Seq(Block)
  BY DEF TypeOK
<1>2. \A i \in DOMAIN pool : pool[i] \in Block
  BY <1>1
<1> QED BY <1>1, <1>2 DEF Block

\* Appending a block leaves the others where they are.
LEMMA Appended ==
  ASSUME TypeOK, NEW args \in SUBSET (Threads \X (0..Calls))
  PROVE  /\ DOMAIN AddToPool(args) = 1..(Len(pool) + 1)
         /\ \A i \in DOMAIN pool : AddToPool(args)[i] = pool[i]
         /\ AddToPool(args)[Len(pool) + 1] = [assigned_to |-> nxt_slave, args |-> args]
<1>1. pool \in Seq(Block) /\ [assigned_to |-> nxt_slave, args |-> args] \in Block
  BY DEF TypeOK, Block
<1>2. AddToPool(args) \in Seq(Block) /\ Len(AddToPool(args)) = Len(pool) + 1
  BY <1>1 DEF AddToPool
<1> QED BY <1>1, <1>2 DEF AddToPool

\* Completing a block changes its assigned_to and nothing else.
LEMMA Taken ==
  ASSUME TypeOK, NEW i \in DOMAIN pool, NEW p, p = [pool EXCEPT ![i].assigned_to = Nobody]
  PROVE  /\ DOMAIN p = DOMAIN pool
         /\ p[i].assigned_to = Nobody /\ p[i].args = pool[i].args
         /\ \A j \in DOMAIN pool \ {i} : p[j] = pool[j]
<1>1. pool[i] \in Block
  BY DEF TypeOK
<1>2. p = [pool EXCEPT ![i] = [pool[i] EXCEPT !.assigned_to = Nobody]]
  OBVIOUS
<1>3. p[i] = [pool[i] EXCEPT !.assigned_to = Nobody] /\ DOMAIN p = DOMAIN pool
      /\ \A j \in DOMAIN pool \ {i} : p[j] = pool[j]
  BY <1>2
<1> QED BY <1>1, <1>3 DEF Block

\* The MASTER reads slots of fs->targs that exist.
LEMMA MergeRange ==
  ASSUME TypeOK, CursorInv, Merge
  PROVE  cursor \in Threads /\ Gathered \in SUBSET (Threads \X (0..Calls))
<1>1. cursor \in Threads
  BY SizesAssumption DEF Merge, CursorInv, TypeOK, Threads
<1> QED BY <1>1, GatheredType

IteratorInv == NoUseAfterFree /\ NoWorkBehind

\* The iterator of t is on a block, and the blocks of t are not behind it.
Placed(t) ==
  /\ iterator[t] \in DOMAIN pool
  /\ \A i \in DOMAIN pool : pool[i].assigned_to = t =>
       i > iterator[t] \/ (i = iterator[t] /\ pc[t] \in {"scan", "fscan"})

\* IteratorInv, thread by thread.
LEMMA IteratorInvIsPlaced ==
  IteratorInv <=> \A t \in Active : Scanning(t) => Placed(t)
BY DEF IteratorInv, NoUseAfterFree, NoWorkBehind, Placed

\* The same of the next state.
LEMMA IteratorInvIsPlacedNext ==
  IteratorInv' <=> \A t \in Active : Scanning(t)' => Placed(t)'
BY DEF IteratorInv, NoUseAfterFree, NoWorkBehind, Placed

\* The iterator moves to the next block, and stays when there is none.
LEMMA AdvancedMoves ==
  ASSUME TypeOK, NEW u \in Active, iterator[u] \in DOMAIN pool
  PROVE  /\ Advanced(u) \in DOMAIN pool
         /\ \A i \in DOMAIN pool : i > iterator[u] => i > Advanced(u) \/ i = Advanced(u)
<1>1. Len(pool) \in Nat /\ DOMAIN pool = 1..Len(pool)
  BY PoolDomain
<1> QED BY <1>1 DEF Advanced

\* While a thread follows the pool, its iterator stands on a block and no block
\* of its own lies behind it.
THEOREM Iterators == Spec => []IteratorInv
<1>1. Init => IteratorInv
  BY ThreadFacts DEF Init, IteratorInv, NoUseAfterFree, NoWorkBehind, Scanning
<1>2. /\ TypeOK /\ CursorInv /\ PhaseInv /\ QuitInv /\ PoolInv /\ IteratorInv
      /\ [Next]_vars
      => IteratorInv'
  <2> SUFFICES ASSUME TypeOK, CursorInv, PhaseInv, QuitInv, PoolInv, IteratorInv, [Next]_vars
               PROVE  IteratorInv'
    OBVIOUS
  <2>t. /\ pc \in [Threads -> Labels] /\ iterator \in [Threads -> Nat \ {0}]
        /\ nxt_slave \in Threads /\ wake \in Threads
        /\ listlen \in [Threads -> Nat] /\ completed \in [Threads -> Nat]
    BY ThreadFacts DEF TypeOK
  <2>i. \A t \in Active : Scanning(t) => Placed(t)
    BY IteratorInvIsPlaced
  <2>g. SUFFICES ASSUME NEW u \in Active, Scanning(u)' PROVE Placed(u)'
    BY IteratorInvIsPlacedNext
  <2> USE <2>t, <2>g, ThreadFacts DEF Scanning
  <2>1. ASSUME pool' = pool, iterator'[u] = iterator[u], pc'[u] = pc[u] PROVE Placed(u)'
    BY <2>1, <2>i DEF Placed
  <2>2. ASSUME pool' = pool, pool # <<>>, iterator'[u] = 1, pc'[u] \in {"scan", "fscan"}
        PROVE  Placed(u)'
    BY <2>2, PoolDomain DEF Placed
  <2>3. ASSUME NEW t \in Threads, Call(t) PROVE Placed(u)'
    BY <2>1, <2>3 DEF Call, Arrive, AfterOmpBarrier, work
  <2>4. ASSUME NEW t \in Threads, EnterBase(t) PROVE Placed(u)'
    BY <2>1, <2>4 DEF EnterBase, Arrive, AfterFirstBarrier, work
  <2>5. ASSUME Merge PROVE Placed(u)'
    <3>1. iterator'[u] = iterator[u] /\ pc'[u] = pc[u] /\ Placed(u)
      BY <2>5, <2>i DEF Merge
    <3>2. CASE pool' = pool
      BY <2>1, <3>1, <3>2
    <3>3. CASE pool' = AddToPool(Gathered)
      <4>1. /\ DOMAIN pool' = 1..(Len(pool) + 1) /\ Len(pool) \in Nat
            /\ DOMAIN pool = 1..Len(pool)
            /\ \A i \in DOMAIN pool : pool'[i] = pool[i]
        <5>1. Gathered \in SUBSET (Threads \X (0..Calls))
          BY <2>5, MergeRange
        <5> QED BY <3>3, <5>1, Appended, PoolDomain
      <4>2. \A i \in DOMAIN pool' : i \in DOMAIN pool \/ i > iterator[u]
        BY <3>1, <4>1 DEF Placed
      <4> QED BY <3>1, <4>1, <4>2 DEF Placed
    <3> QED BY <2>5, <3>2, <3>3 DEF Merge
  <2>6. ASSUME CountWork \/ InvokeThread \/ SetQuit PROVE Placed(u)'
    BY <2>1, <2>6 DEF CountWork, InvokeThread, SetQuit, Signalled, work
  <2>7. ASSUME InvokeAll PROVE Placed(u)'
    <3>1. pool # <<>>
      BY <2>7 DEF InvokeAll, PoolInv, MasterWork
    <3>2. CASE u = MASTER
      BY <2>2, <2>7, <3>1, <3>2 DEF InvokeAll, Signalled, FromHead
    <3>3. CASE u # MASTER
      BY <2>1, <2>7, <3>3 DEF InvokeAll, Signalled, FromHead
    <3> QED BY <3>2, <3>3
  <2>8. ASSUME NEW s \in Slaves, SlaveStep(s) \/ SpuriousWakeup(s) PROVE Placed(u)'
    <3>1. CASE TestQuit(s) /\ all_quit_flag
      <4>1. pool # <<>>
        BY <3>1 DEF TestQuit, Goto, PoolInv, QuitInv, PhaseInv, MasterWork, SlaveWork, Final,
                    Gather, Sync, Clean
      <4> QED BY <2>1, <2>2, <3>1, <4>1 DEF TestQuit, Goto, FromHead
    <3>2. CASE TestWork(s) /\ MoreWork(s)
      <4>1. pool # <<>>
        BY <3>2 DEF MoreWork, PoolInv
      <4> QED BY <2>1, <2>2, <3>2, <4>1 DEF TestWork, Goto, FromHead
    <3> QED BY <2>1, <2>8, <3>1, <3>2
            DEF SlaveStep, SpuriousWakeup, LockMutex, TestQuit, CheckWork, TestWork, ScanOver,
                Goto, work
  <2>9. ASSUME NEW t \in Threads, Scan(t) PROVE Placed(u)'
    <3>1. t \in Active /\ Placed(t) /\ Placed(u)
      BY <2>9, <2>i DEF Scan, Goto, PhaseInv, Gather
    <3>2. CASE pool[iterator[t]].assigned_to = t
      <4>1. pool' = [pool EXCEPT ![iterator[t]].assigned_to = Nobody]
        BY <2>9, <3>2 DEF Scan, Perform
      <4>2. /\ DOMAIN pool' = DOMAIN pool
            /\ pool'[iterator[t]].assigned_to \notin Active
            /\ \A j \in DOMAIN pool \ {iterator[t]} : pool'[j] = pool[j]
        BY <3>1, <4>1, Taken DEF Placed
      <4> QED BY <2>9, <3>1, <4>2 DEF Placed, Scan, Goto
    <3>3. CASE pool[iterator[t]].assigned_to # t
      BY <2>9, <3>1, <3>3 DEF Scan, Perform, Goto, Placed
    <3> QED BY <3>2, <3>3
  <2>10. ASSUME NEW t \in Threads, Advance(t) PROVE Placed(u)'
    <3>1. CASE t = u
      <4>1. Placed(u) /\ pc[u] \in {"step", "fstep"} /\ pc'[u] \in {"scan", "fscan"}
            /\ pool' = pool /\ iterator'[u] = Advanced(u)
        BY <2>10, <2>i, <3>1 DEF Advance, Goto
      <4>2. Advanced(u) \in DOMAIN pool
            /\ \A i \in DOMAIN pool : i > iterator[u] => i > Advanced(u) \/ i = Advanced(u)
        BY <4>1, AdvancedMoves DEF Placed
      <4> QED BY <4>1, <4>2 DEF Placed
    <3>2. CASE t # u
      BY <2>1, <2>10, <3>2 DEF Advance, Goto
    <3> QED BY <3>1, <3>2
  <2>11. ASSUME NEW t \in Threads, Finish(t) PROVE Placed(u)'
    BY <2>1, <2>11 DEF Finish, Arrive
  <2>12. ASSUME NEW t \in Threads, Leave(t) PROVE Placed(u)'
    BY <2>12 DEF Leave, Arrive, PhaseInv, Gather, Sync, Clean, MasterWork, SlaveWork, Final
  <2>13. ASSUME UNCHANGED vars PROVE Placed(u)'
    BY <2>1, <2>13 DEF vars, work
  <2> QED BY <2>3, <2>4, <2>5, <2>6, <2>7, <2>8, <2>9, <2>10, <2>11, <2>12, <2>13
          DEF Next, MasterStep, ThreadStep, Terminating
<1> QED BY <1>1, <1>2, TypeCorrect, Phases, QuitFlag, PoolLives, PTL DEF Spec

\* access_work_assignment never follows a pointer into a freed or absent block.
THEOREM NoUseAfterFreeHolds == Spec => []NoUseAfterFree
BY Iterators, PTL DEF IteratorInv

\* No block of a thread is left behind its iterator, where the loop of
\* access_work_assignment would never find it.
THEOREM NoWorkBehindHolds == Spec => []NoWorkBehind
BY Iterators, PTL DEF IteratorInv

-----------------------------------------------------------------------------
(* Counting the blocks of a thread *)

\* A thread owns finitely many blocks.
LEMMA MineFinite ==
  ASSUME TypeOK
  PROVE  \A t : IsFiniteSet(Mine(t)) /\ Cardinality(Mine(t)) \in Nat
<1> SUFFICES ASSUME NEW t PROVE IsFiniteSet(Mine(t)) /\ Cardinality(Mine(t)) \in Nat
  OBVIOUS
<1>1. IsFiniteSet(DOMAIN pool)
  BY PoolDomain, FS_Interval
<1>2. IsFiniteSet(Mine(t))
  BY <1>1, FS_Subset DEF Mine
<1> QED BY <1>2, FS_CardinalityType

\* A new block is one more for its owner.
LEMMA MineAppended ==
  ASSUME TypeOK, NEW args \in SUBSET (Threads \X (0..Calls)), pool' = AddToPool(args), NEW t
  PROVE  Cardinality(Mine(t)') = Cardinality(Mine(t)) + (IF t = nxt_slave THEN 1 ELSE 0)
<1>1. /\ DOMAIN pool' = 1..(Len(pool) + 1) /\ Len(pool) \in Nat /\ DOMAIN pool = 1..Len(pool)
      /\ \A i \in DOMAIN pool : pool'[i] = pool[i]
      /\ pool'[Len(pool) + 1].assigned_to = nxt_slave
  <2>1. /\ DOMAIN AddToPool(args) = 1..(Len(pool) + 1)
        /\ \A i \in DOMAIN pool : AddToPool(args)[i] = pool[i]
        /\ AddToPool(args)[Len(pool) + 1] = [assigned_to |-> nxt_slave, args |-> args]
    BY Appended, Zenon
  <2>2. AddToPool(args)[Len(pool) + 1].assigned_to = nxt_slave
    BY <2>1
  <2> QED BY <2>1, <2>2, PoolDomain
<1>2. CASE t = nxt_slave
  <2>1. Mine(t)' = Mine(t) \cup {Len(pool) + 1}
    BY <1>1, <1>2 DEF Mine
  <2>2. Len(pool) + 1 \notin Mine(t)
    BY <1>1 DEF Mine
  <2> QED BY <1>2, <2>1, <2>2, MineFinite, FS_AddElement
<1>3. CASE t # nxt_slave
  <2>1. Mine(t)' = Mine(t)
    BY <1>1, <1>3 DEF Mine
  <2> QED BY <1>3, <2>1, MineFinite
<1> QED BY <1>2, <1>3

\* A completed block is one fewer for its owner and changes nothing for others.
LEMMA MineTaken ==
  ASSUME TypeOK, NEW t \in Active, NEW i \in DOMAIN pool, pool[i].assigned_to = t,
         pool' = [pool EXCEPT ![i].assigned_to = Nobody]
  PROVE  /\ Cardinality(Mine(t)') = Cardinality(Mine(t)) - 1
         /\ \A u \in Active \ {t} : Mine(u)' = Mine(u)
<1>1. /\ DOMAIN pool' = DOMAIN pool
      /\ pool'[i].assigned_to = Nobody
      /\ \A j \in DOMAIN pool \ {i} : pool'[j] = pool[j]
  BY Taken
<1>2. Mine(t)' = Mine(t) \ {i} /\ i \in Mine(t)
  BY <1>1, ThreadFacts DEF Mine
<1>3. \A u \in Active \ {t} : Mine(u)' = Mine(u)
  BY <1>1, ThreadFacts DEF Mine
<1>4. IsFiniteSet(Mine(t))
  BY MineFinite
<1>5. Cardinality(Mine(t) \ {i}) = Cardinality(Mine(t)) - 1
  BY <1>2, <1>4, FS_RemoveElement
<1> QED BY <1>2, <1>3, <1>5

\* listlen and completed agree with what is in the pool under a thread's id.
THEOREM Counts == Spec => []CountInv
<1>1. Init => CountInv
  BY ThreadFacts, FS_EmptySet DEF Init, CountInv, Uncounted, Mine
<1>2. /\ TypeOK /\ CursorInv /\ PhaseInv /\ QuitInv /\ ResetInv /\ IteratorInv /\ CountInv
      /\ [Next]_vars
      => CountInv'
  <2> SUFFICES ASSUME TypeOK, CursorInv, PhaseInv, QuitInv, ResetInv, IteratorInv, CountInv,
                      [Next]_vars, NEW u \in Active
               PROVE  (listlen[u] + Uncounted(u) = completed[u] + Cardinality(Mine(u)))'
    BY DEF CountInv
  <2> DEFINE Counted == listlen[u] + Uncounted(u) = completed[u] + Cardinality(Mine(u))
  <2>t. /\ pc \in [Threads -> Labels] /\ Active \subseteq Threads /\ MASTER \in Active
        /\ listlen \in [Threads -> Nat] /\ completed \in [Threads -> Nat]
    BY ThreadFacts DEF TypeOK
  <2>c. Counted
    BY DEF CountInv
  <2>m. Mine(u)' = {i \in DOMAIN pool' : pool'[i].assigned_to = u}
    BY DEF Mine
  <2>n. Cardinality(Mine(u)) \in Nat
    BY MineFinite
  <2>1. ASSUME listlen' = listlen, completed' = completed, pool' = pool,
               pc'[MASTER] = "count" <=> pc[MASTER] = "count",
               pc[MASTER] = "count" => nxt_slave' = nxt_slave
        PROVE  Counted'
    BY <2>1, <2>c DEF Uncounted, Mine
  <2>2. ASSUME NEW t \in Threads, Call(t) PROVE Counted'
    BY <2>1, <2>2, <2>t DEF Call, Arrive, AfterOmpBarrier, master, work
  <2>3. ASSUME NEW t \in Threads, EnterBase(t) PROVE Counted'
    BY <2>1, <2>3, <2>t DEF EnterBase, Arrive, AfterFirstBarrier, master, work
  <2>4. ASSUME Merge PROVE Counted'
    <3>1. CASE pool' = pool /\ pc' = pc
      BY <2>1, <2>4, <3>1 DEF Merge
    <3>2. CASE pool' = AddToPool(Gathered) /\ pc'[MASTER] = "count"
      <4>1. Cardinality(Mine(u)') = Cardinality(Mine(u)) + (IF u = nxt_slave THEN 1 ELSE 0)
        BY <2>4, <3>2, MergeRange, MineAppended
      <4>2. Uncounted(u) = 0 /\ Uncounted(u)' = IF u = nxt_slave THEN 1 ELSE 0
        BY <2>4, <3>2 DEF Merge, Uncounted
      <4> QED BY <2>4, <2>c, <2>n, <2>t, <4>1, <4>2 DEF Merge
    <3> QED BY <2>4, <2>t, <3>1, <3>2 DEF Merge
  <2>5. ASSUME CountWork PROVE Counted'
    <3>1. Mine(u)' = Mine(u) /\ completed' = completed
      BY <2>5 DEF CountWork, Mine
    <3>2. Uncounted(u)' = 0 /\ Uncounted(u) = IF u = nxt_slave THEN 1 ELSE 0
      BY <2>5, <2>t DEF CountWork, Uncounted, master
    <3>3. listlen'[u] = listlen[u] + (IF u = nxt_slave THEN 1 ELSE 0)
      BY <2>5, <2>t DEF CountWork
    <3> QED BY <2>c, <2>n, <2>t, <3>1, <3>2, <3>3
  <2>6. ASSUME InvokeThread \/ SetQuit \/ InvokeAll PROVE Counted'
    BY <2>1, <2>6, <2>t DEF InvokeThread, SetQuit, InvokeAll, Signalled, work
  <2>7. ASSUME NEW s \in Slaves, SlaveStep(s) \/ SpuriousWakeup(s) PROVE Counted'
    BY <2>1, <2>7, <2>t, ThreadFacts
       DEF SlaveStep, SpuriousWakeup, LockMutex, TestQuit, CheckWork, TestWork, ScanOver,
           Goto, master, work
  <2>8. ASSUME NEW t \in Threads, Scan(t) PROVE Counted'
    <3>1. t \in Active /\ Placed(t)
      BY <2>8, IteratorInvIsPlaced DEF Scan, Goto, Scanning, PhaseInv, Gather
    <3>2. Uncounted(u)' = Uncounted(u) /\ listlen' = listlen
      BY <2>8, <2>t DEF Scan, Goto, Uncounted, master
    <3>3. CASE pool[iterator[t]].assigned_to = t
      <4>1. /\ Cardinality(Mine(t)') = Cardinality(Mine(t)) - 1
            /\ u # t => Mine(u)' = Mine(u)
        <5>1. pool' = [pool EXCEPT ![iterator[t]].assigned_to = Nobody]
          BY <2>8, <3>3 DEF Scan, Perform
        <5> QED BY <3>1, <3>3, <5>1, MineTaken DEF Placed
      <4>2. completed'[u] = completed[u] + (IF u = t THEN 1 ELSE 0)
        BY <2>8, <2>t, <3>3 DEF Scan, Perform
      <4>3. Uncounted(u) \in Nat
        BY DEF Uncounted
      <4> QED BY <2>c, <2>n, <2>t, <3>2, <4>1, <4>2, <4>3
    <3>4. CASE pool[iterator[t]].assigned_to # t
      BY <2>c, <2>8, <3>2, <3>4 DEF Scan, Perform, Mine
    <3> QED BY <3>3, <3>4
  <2>9. ASSUME NEW t \in Threads, Advance(t) PROVE Counted'
    BY <2>1, <2>9, <2>t DEF Advance, Goto, master
  <2>10. ASSUME NEW t \in Threads, Finish(t) PROVE Counted'
    <3>1. Uncounted(u)' = 0 /\ Mine(u)' = Mine(u) /\ (u = t => Uncounted(u) = 0)
          /\ (u # t => Uncounted(u) = 0)
      BY <2>10, <2>t DEF Finish, Arrive, Uncounted, Mine, QuitInv, PhaseInv, Final, Gather, Slaves
    <3>2. CASE u = t
      BY <2>10, <2>c, <2>n, <2>t, <3>1, <3>2 DEF Finish, MoreWork
    <3>3. CASE u # t
      BY <2>10, <2>c, <2>t, <3>1, <3>3 DEF Finish
    <3> QED BY <3>2, <3>3
  <2>11. ASSUME NEW t \in Threads, Leave(t) PROVE Counted'
    <3>1. \A v \in Active : pc[v] \in Clean /\ listlen[v] = 0 /\ completed[v] = 0
      BY <2>11, <2>t DEF Leave, ResetInv, PhaseInv, Gather, Sync, MasterWork, SlaveWork, Final, Clean
    <3>2. Uncounted(u)' = 0 /\ Uncounted(u) = 0
      BY <2>11, <2>t, <3>1 DEF Leave, Arrive, Uncounted, Clean
    <3>3. CASE t = MASTER
      <4>1. Mine(u)' = {}
        BY <2>11, <3>3 DEF Leave, Mine
      <4> QED BY <2>11, <3>1, <3>2, <4>1, FS_EmptySet DEF Leave
    <3>4. CASE t # MASTER
      BY <2>11, <2>c, <3>2, <3>4 DEF Leave, Mine
    <3> QED BY <3>3, <3>4
  <2>12. ASSUME UNCHANGED vars PROVE Counted'
    BY <2>1, <2>12 DEF vars, master, work
  <2> QED BY <2>2, <2>3, <2>4, <2>5, <2>6, <2>7, <2>8, <2>9, <2>10, <2>11, <2>12
          DEF Next, MasterStep, ThreadStep, Terminating
<1> QED BY <1>1, <1>2, TypeCorrect, Phases, QuitFlag, Resets, Iterators, PTL DEF Spec

\* When a thread has passed the second barrier, and so when the MASTER frees
\* the pool and anyone returns, no block assigned to it is left.
THEOREM AllWorkDoneHolds == Spec => []AllWorkDone
<1>1. TypeOK /\ PhaseInv /\ QuitInv /\ ResetInv /\ CountInv => AllWorkDone
  <2> SUFFICES ASSUME TypeOK, PhaseInv, QuitInv, ResetInv, CountInv,
                      NEW t \in Active, pc[t] \in {"b2", "free", "b3"}
               PROVE  \A i \in DOMAIN pool : pool[i].assigned_to # t
    BY DEF AllWorkDone
  <2>1. listlen[t] = 0 /\ completed[t] = 0
    BY DEF ResetInv, Clean
  <2>2. Uncounted(t) = 0
    BY ThreadFacts DEF Uncounted, QuitInv, PhaseInv, Gather, Sync, MasterWork, SlaveWork, Final,
                       Clean, Slaves
  <2>3. Cardinality(Mine(t)) = 0
    BY <2>1, <2>2, MineFinite DEF CountInv
  <2>4. Mine(t) = {}
    BY <2>3, MineFinite, FS_EmptySet
  <2> QED BY <2>4 DEF Mine
<1> QED BY <1>1, TypeCorrect, Phases, QuitFlag, Resets, Counts, PTL

-----------------------------------------------------------------------------
(* The work distribution forgets nobody *)

\* The run and the slot at the MASTER's index make up the gathered block.
LEMMA GatheredHolds ==
  \A t : Holds(Gathered, t) <=> Holds(run, t) \/ t = cursor
<1>1. <<cursor, targs[cursor]>>[1] = cursor
  OBVIOUS
<1>2. \A t : Holds(Gathered, t) <=> Holds(run, t) \/ <<cursor, targs[cursor]>>[1] = t
  BY Zenon DEF Holds, Gathered
<1> QED BY <1>1, <1>2

\* Completing a block keeps the arguments of every block.
LEMMA ScanKeepsArgs ==
  ASSUME TypeOK, PhaseInv, IteratorInv, NEW t \in Threads, Scan(t)
  PROVE  /\ DOMAIN pool' = DOMAIN pool
         /\ \A i \in DOMAIN pool : pool'[i].args = pool[i].args
<1>1. Placed(t)
  BY IteratorInvIsPlaced DEF Scan, Goto, Scanning, PhaseInv, Gather
<1>2. CASE pool[iterator[t]].assigned_to = t
  <2>1. pool' = [pool EXCEPT ![iterator[t]].assigned_to = Nobody]
    BY <1>2 DEF Scan, Perform
  <2> QED BY <1>1, <2>1, Taken DEF Placed
<1>3. CASE pool[iterator[t]].assigned_to # t
  BY <1>3 DEF Scan, Perform
<1> QED BY <1>2, <1>3

\* Every slot of fs->targs that the MASTER has passed is in exactly one place.
THEOREM SlotsAreDivided == Spec => []SlotInv
<1>1. Init => SlotInv
  <2>1. DOMAIN <<>> = {}
    OBVIOUS
  <2> QED BY <2>1, ThreadFacts DEF Init, SlotInv, MasterWork, Final
<1>2. /\ TypeOK /\ CursorInv /\ PhaseInv /\ ResetInv /\ PoolInv /\ IteratorInv /\ SlotInv
      /\ [Next]_vars
      => SlotInv'
  <2> SUFFICES ASSUME TypeOK, CursorInv, PhaseInv, ResetInv, PoolInv, IteratorInv, SlotInv,
                      [Next]_vars
               PROVE  SlotInv'
    OBVIOUS
  <2>t. /\ pc \in [Threads -> Labels] /\ Active \subseteq Threads /\ MASTER \in Active
        /\ nxt_slave \in Threads /\ wake \in Threads
    BY ThreadFacts DEF TypeOK
  <2>1. ASSUME pool' = pool, run' = run, cursor' = cursor, pc'[MASTER] = pc[MASTER]
        PROVE  SlotInv'
    BY <2>1 DEF SlotInv, InPool
  <2>2. ASSUME pool' = pool, run' = run, run = {}, pc'[MASTER] \notin MasterWork \cup Final
        PROVE  SlotInv'
    BY <2>2 DEF SlotInv, MasterWork
  <2>3. ASSUME NEW t \in Threads, Call(t) PROVE SlotInv'
    <3>1. /\ pool' = pool /\ run' = run /\ cursor' = cursor
          /\ \/ pc'[MASTER] = pc[MASTER]
             \/ pc[MASTER] \in Gather /\ pc'[MASTER] \in Gather \cup Sync
      BY <2>3, <2>t DEF Call, Arrive, AfterOmpBarrier, master, work, Gather, Sync
    <3>2. CASE pc'[MASTER] = pc[MASTER]
      BY <2>1, <3>1, <3>2
    <3>3. CASE pc[MASTER] \in Gather /\ pc'[MASTER] \in Gather \cup Sync
      BY <2>2, <3>1, <3>3 DEF SlotInv, Gather, Sync, MasterWork, Final
    <3> QED BY <3>1, <3>2, <3>3
  <2>4. ASSUME NEW t \in Threads, EnterBase(t) PROVE SlotInv'
    <3>1. /\ pool' = pool /\ run' = run /\ cursor' = cursor
          /\ pc'[MASTER] \in {pc[MASTER], "b1", "merge"}
          /\ pc[MASTER] \in Gather \cup Sync
      BY <2>4, <2>t DEF EnterBase, Arrive, AfterFirstBarrier, master, work,
                        PhaseInv, Gather, Sync, MasterWork, SlaveWork, Final, Clean
    <3>2. CASE pc'[MASTER] = "merge"
      <4>1. run = {} /\ cursor = 0 /\ pool = <<>>
        BY <3>1 DEF SlotInv, CursorInv, PoolInv, Gather, Sync
      <4>2. \A u \in Threads : ~(u < 0) /\ ~Holds(run, u) /\ ~InPool(u)
        BY <4>1, ThreadFacts DEF Holds, InPool, Threads
      <4> QED BY <3>1, <3>2, <4>1, <4>2 DEF SlotInv, InPool, Final
    <3>3. CASE pc'[MASTER] # "merge"
      BY <2>2, <3>1, <3>3 DEF SlotInv, Gather, Sync, MasterWork, Final
    <3> QED BY <3>2, <3>3
  <2>5. ASSUME Merge PROVE SlotInv'
    <3>1. cursor \in Threads /\ Gathered \in SUBSET (Threads \X (0..Calls))
      BY <2>5, MergeRange
    <3>2. \A u \in Threads : /\ u < cursor <=> Holds(run, u) \/ InPool(u)
                             /\ ~(Holds(run, u) /\ InPool(u))
      BY <2>5 DEF Merge, SlotInv, MasterWork
    <3>3. \A u \in Threads : u < cursor + 1 <=> u < cursor \/ u = cursor
      BY <3>1, ThreadFacts
    <3>4. \A u \in Threads : /\ u < cursor + 1 <=> Holds(Gathered, u) \/ InPool(u)
                             /\ ~(Holds(Gathered, u) /\ InPool(u))
      <4>1. ~(cursor < cursor)
        BY <3>1, ThreadFacts
      <4> QED BY <3>2, <3>3, <4>1, GatheredHolds
    <3>5. CASE run' = Gathered /\ UNCHANGED <<pc, pool>>
      <4>1. pc'[MASTER] = "merge" /\ cursor' = cursor + 1
        BY <2>5, <3>5 DEF Merge
      <4> QED BY <3>4, <3>5, <4>1 DEF SlotInv, InPool, Final
    <3>6. CASE run' = {} /\ pool' = AddToPool(Gathered) /\ pc'[MASTER] = "count"
      <4>1. cursor' = cursor + 1
        BY <2>5 DEF Merge
      <4>2. /\ DOMAIN pool' = 1..(Len(pool) + 1) /\ Len(pool) \in Nat
            /\ DOMAIN pool = 1..Len(pool)
            /\ \A i \in DOMAIN pool : pool'[i] = pool[i]
            /\ pool'[Len(pool) + 1] = [assigned_to |-> nxt_slave, args |-> Gathered]
        BY <3>1, <3>6, Appended, PoolDomain
      <4>3. pool'[Len(pool) + 1].args = Gathered
        BY <4>2
      <4>4. \A u \in Threads : InPool(u)' <=> InPool(u) \/ Holds(Gathered, u)
        BY <4>2, <4>3 DEF InPool
      <4>5. \A i, j \in DOMAIN pool', u \in Threads :
              Holds(pool'[i].args, u) /\ Holds(pool'[j].args, u) => i = j
        <5> SUFFICES ASSUME NEW i \in DOMAIN pool', NEW j \in DOMAIN pool', NEW u \in Threads,
                            Holds(pool'[i].args, u), Holds(pool'[j].args, u)
                     PROVE  i = j
          OBVIOUS
        <5>1. \A k \in DOMAIN pool' : k \in DOMAIN pool \/ k = Len(pool) + 1
          BY <4>2
        <5>2. CASE i \in DOMAIN pool /\ j \in DOMAIN pool
          BY <4>2, <5>2 DEF SlotInv
        <5>3. CASE i \notin DOMAIN pool \/ j \notin DOMAIN pool
          <6>1. Holds(Gathered, u)
            BY <4>3, <5>1, <5>3
          <6>2. i \notin DOMAIN pool /\ j \notin DOMAIN pool
            BY <3>4, <4>2, <6>1 DEF InPool
          <6> QED BY <5>1, <6>2
        <5> QED BY <5>2, <5>3
      <4>6. \A u \in Threads : ~Holds(run', u)
        BY <3>6 DEF Holds
      <4> QED BY <3>4, <3>6, <4>1, <4>4, <4>5, <4>6 DEF SlotInv, MasterWork, Final
    <3> QED BY <2>5, <2>t, <3>5, <3>6 DEF Merge
  <2>6. ASSUME CountWork \/ InvokeThread \/ SetQuit PROVE SlotInv'
    <3>1. /\ pool' = pool /\ run' = run /\ cursor' = cursor
          /\ pc[MASTER] \in {"count", "invoke", "quit"}
          /\ pc'[MASTER] \in {"invoke", "quit", "merge", "invokeall"}
          /\ pc'[MASTER] \in {"quit", "invokeall"} => cursor = NumThreads
      BY <2>6, <2>t DEF CountWork, InvokeThread, SetQuit, Signalled, master, work, SlotInv
    <3> QED BY <3>1 DEF SlotInv, InPool, MasterWork, Final
  <2>7. ASSUME InvokeAll PROVE SlotInv'
    <3>1. pool' = pool /\ run' = run /\ pc[MASTER] = "invokeall"
      BY <2>7 DEF InvokeAll
    <3>2. CASE wake = NumThreads - 1
      <4>1. pc'[MASTER] = "fscan"
        BY <2>7, <2>t, <3>2 DEF InvokeAll, Signalled
      <4>2. \A u \in Threads : InPool(u)
        <5>1. \A u \in Threads : Holds(run, u) \/ InPool(u)
          BY <3>1, ThreadFacts DEF SlotInv, MasterWork
        <5>2. \A u \in Threads : ~Holds(run, u)
          BY <3>1 DEF SlotInv, Holds
        <5> QED BY <5>1, <5>2
      <4> QED BY <3>1, <4>1, <4>2 DEF SlotInv, InPool, MasterWork, Final
    <3>3. CASE wake # NumThreads - 1
      BY <2>1, <2>7, <2>t, <3>3 DEF InvokeAll, Signalled
    <3> QED BY <3>2, <3>3
  <2>8. ASSUME NEW s \in Slaves, SlaveStep(s) \/ SpuriousWakeup(s) PROVE SlotInv'
    BY <2>1, <2>8, <2>t, ThreadFacts
       DEF SlaveStep, SpuriousWakeup, LockMutex, TestQuit, CheckWork, TestWork, ScanOver,
           Goto, master, work
  <2>9. ASSUME NEW t \in Threads, Scan(t) PROVE SlotInv'
    <3>1. /\ DOMAIN pool' = DOMAIN pool
          /\ \A i \in DOMAIN pool : pool'[i].args = pool[i].args
      BY <2>9, ScanKeepsArgs
    <3>2. run' = run /\ cursor' = cursor
      BY <2>9 DEF Scan, master
    <3>3. pc'[MASTER] = pc[MASTER] \/ (pc[MASTER] \in Final /\ pc'[MASTER] \in Final)
      BY <2>9, <2>t DEF Scan, Goto, Final, PhaseInv, SlaveWork
    <3> QED BY <3>1, <3>2, <3>3 DEF SlotInv, InPool, Final, MasterWork
  <2>10. ASSUME NEW t \in Threads, Advance(t) \/ Finish(t) PROVE SlotInv'
    <3>1. /\ pool' = pool /\ run' = run /\ cursor' = cursor
          /\ \/ pc'[MASTER] = pc[MASTER]
             \/ pc[MASTER] \in Final /\ pc'[MASTER] \in Final \cup Clean
      BY <2>10, <2>t DEF Advance, Finish, Goto, Arrive, master, PhaseInv, SlaveWork, Final, Clean
    <3> QED BY <3>1 DEF SlotInv, InPool, MasterWork, Final, Clean
  <2>11. ASSUME NEW t \in Threads, Leave(t) PROVE SlotInv'
    <3>1. /\ run' = run /\ pc[MASTER] \in Clean
          /\ pc'[MASTER] \in Clean \cup {"idle"}
      BY <2>11, <2>t DEF Leave, Arrive, master, PhaseInv, Gather, Sync, MasterWork, SlaveWork,
                         Final, Clean
    <3>2. pool' = pool \/ DOMAIN pool' = {}
      BY <2>11 DEF Leave
    <3> QED BY <3>1, <3>2 DEF SlotInv, MasterWork, Final, Clean
  <2>12. ASSUME UNCHANGED vars PROVE SlotInv'
    BY <2>1, <2>12 DEF vars, master, work
  <2> QED BY <2>3, <2>4, <2>5, <2>6, <2>7, <2>8, <2>9, <2>10, <2>11, <2>12
          DEF Next, MasterStep, ThreadStep, Terminating
<1> QED BY <1>1, <1>2, TypeCorrect, Phases, Resets, PoolLives, Iterators, PTL DEF Spec

\* contiguity_analyzer and work_manager put every thread's arguments into
\* exactly one block of the pool before the MASTER raises the quit flag.
THEOREM EverySlotOnceHolds == Spec => []EverySlotOnce
<1>1. TypeOK /\ SlotInv => EverySlotOnce
  <2> SUFFICES ASSUME TypeOK, SlotInv, Distributed, NEW t \in Threads
               PROVE  \E i \in DOMAIN pool : \A j \in DOMAIN pool :
                        Holds(pool[j].args, t) <=> j = i
    BY DEF EverySlotOnce, Holds
  <2>1. InPool(t)
    <3>1. CASE pc[MASTER] \in Final
      BY <3>1 DEF SlotInv
    <3>2. CASE pc[MASTER] \in {"quit", "invokeall"}
      <4>1. cursor = NumThreads /\ run = {}
        BY <3>2 DEF SlotInv
      <4>2. ~Holds(run, t)
        BY <4>1 DEF Holds
      <4> QED BY <3>2, <4>1, <4>2, ThreadFacts DEF SlotInv, MasterWork
    <3> QED BY <3>1, <3>2 DEF Distributed, Final
  <2>2. PICK i \in DOMAIN pool : Holds(pool[i].args, t)
    BY <2>1 DEF InPool
  <2> QED BY <2>2 DEF SlotInv
<1> QED BY <1>1, TypeCorrect, SlotsAreDivided, PTL

-----------------------------------------------------------------------------
(* Nobody waits in vain *)

\* The calls whose team barrier thread t has behind it.
Joined(t) == IF pc[t] = "ompc" THEN calls[t] - 1 ELSE calls[t]

\* All threads are in one round of the team barrier, and at each barrier one of
\* those it is made for is missing: the last to arrive does not wait.
BarrierInv ==
  /\ \A t, u \in Threads : Joined(t) = Joined(u)
  /\ \E t \in Threads : pc[t] # "ompc"
  /\ \A at \in {"b1", "b2", "b3"} : \E t \in Active : pc[t] # at

\* A step that leaves calls alone and sends nobody to a barrier.
LEMMA NoArrival ==
  ASSUME BarrierInv, calls' = calls,
         \A t \in Threads : pc'[t] = pc[t] \/ {pc[t], pc'[t]} \cap {"ompc", "b1", "b2", "b3"} = {}
  PROVE  BarrierInv'
<1>1. \A t \in Threads : Joined(t)' = Joined(t)
  BY DEF Joined
<1>2. \E t \in Threads : pc'[t] # "ompc"
  BY DEF BarrierInv
<1>3. ASSUME NEW at \in {"b1", "b2", "b3"} PROVE \E t \in Active : pc'[t] # at
  BY ThreadFacts DEF BarrierInv
<1> QED BY <1>1, <1>2, <1>3 DEF BarrierInv

\* A step to one of the barriers of _base, where the last one releases all.
LEMMA ArrivalInBase ==
  ASSUME BarrierInv, pc \in [Threads -> Labels], calls' = calls,
         NEW t \in Active, pc[t] \notin {"ompc", "b1", "b2", "b3"}, NEW at \in {"b1", "b2", "b3"},
         NEW next, \A u \in Active : next[u] \notin {"ompc", "b1", "b2", "b3"},
         Arrive(t, Active, at, next)
  PROVE  BarrierInv'
<1>1. CASE \A u \in Active \ {t} : pc[u] = at
  <2>1. \A u \in Threads : pc'[u] = IF u \in Active THEN next[u] ELSE pc[u]
    BY <1>1 DEF Arrive
  <2>2. \A u \in Threads : Joined(u)' = Joined(u)
    BY <1>1, <2>1 DEF Joined
  <2>3. \A u \in Active : pc'[u] \notin {"ompc", "b1", "b2", "b3"}
    BY <2>1, ThreadFacts
  <2> QED BY <2>2, <2>3, ThreadFacts DEF BarrierInv
<1>2. CASE ~(\A u \in Active \ {t} : pc[u] = at)
  <2>1. pc' = [pc EXCEPT ![t] = at]
    BY <1>2 DEF Arrive
  <2>2. \A u \in Threads : pc'[u] = IF u = t THEN at ELSE pc[u]
    BY <2>1
  <2>3. \A u \in Threads : Joined(u)' = Joined(u)
    BY <2>2 DEF Joined
  <2>4. \E u \in Threads : pc'[u] # "ompc"
    BY <2>2, ThreadFacts
  <2>5. ASSUME NEW b \in {"b1", "b2", "b3"} PROVE \E u \in Active : pc'[u] # b
    BY <1>2, <2>2, ThreadFacts
  <2> QED BY <2>3, <2>4, <2>5 DEF BarrierInv
<1> QED BY <1>1, <1>2

\* The invariant holds throughout.
THEOREM Barriers == Spec => []BarrierInv
<1>1. Init => BarrierInv
  BY ThreadFacts DEF Init, BarrierInv, Joined
<1>2. TypeOK /\ PhaseInv /\ BarrierInv /\ [Next]_vars => BarrierInv'
  <2> SUFFICES ASSUME TypeOK, PhaseInv, BarrierInv, [Next]_vars PROVE BarrierInv'
    OBVIOUS
  <2>t. pc \in [Threads -> Labels] /\ calls \in [Threads -> 0..Calls] /\ wake \in Threads
        /\ nxt_slave \in Threads /\ MASTER \in Threads
    BY ThreadFacts DEF TypeOK
  <2>o. ASSUME NEW t \in Threads, pc[t] \notin Gather PROVE t \in Active
    BY <2>o DEF PhaseInv
  <2>1. ASSUME NEW t \in Threads, Call(t) PROVE BarrierInv'
    <3>1. pc[t] = "idle" /\ calls' = [calls EXCEPT ![t] = @ + 1]
          /\ Arrive(t, Threads, "ompc", AfterOmpBarrier)
      BY <2>1 DEF Call
    <3>2. \A u \in Threads : calls[u] \in Int /\ calls'[u] = IF u = t THEN calls[u] + 1 ELSE calls[u]
      BY <2>t, <3>1
    <3>3. CASE \A u \in Threads \ {t} : pc[u] = "ompc"
      <4>1. \A u \in Threads : pc'[u] \in {"base", "idle"}
        BY <3>1, <3>3 DEF Arrive, AfterOmpBarrier
      <4>2. \A u \in Threads : Joined(u)' = Joined(u) + 1
        BY <3>1, <3>2, <3>3, <4>1 DEF Joined
      <4> QED BY <2>t, <4>1, <4>2, ThreadFacts DEF BarrierInv
    <3>4. CASE ~(\A u \in Threads \ {t} : pc[u] = "ompc")
      <4>1. pc' = [pc EXCEPT ![t] = "ompc"]
        BY <3>1, <3>4 DEF Arrive
      <4>2. \A u \in Threads : pc'[u] = IF u = t THEN "ompc" ELSE pc[u]
        BY <2>t, <4>1
      <4>3. \A u \in Threads : Joined(u)' = Joined(u)
        BY <3>1, <3>2, <4>2 DEF Joined
      <4>4. \E u \in Threads : pc'[u] # "ompc"
        BY <3>4, <4>2
      <4>5. ASSUME NEW at \in {"b1", "b2", "b3"} PROVE \E u \in Active : pc'[u] # at
        BY <4>2, ThreadFacts DEF BarrierInv
      <4> QED BY <4>3, <4>4, <4>5 DEF BarrierInv
    <3> QED BY <3>3, <3>4
  <2>2. ASSUME NEW t \in Threads, EnterBase(t) PROVE BarrierInv'
    <3>1. t \in Active
      BY <2>2, <2>o DEF EnterBase, Gather
    <3>2. \A u \in Active : AfterFirstBarrier[u] \notin {"ompc", "b1", "b2", "b3"}
      BY ThreadFacts DEF AfterFirstBarrier
    <3> QED BY <2>t, <2>2, <3>1, <3>2, ArrivalInBase DEF EnterBase
  <2>3. ASSUME MasterStep PROVE BarrierInv'
    BY <2>t, <2>3, NoArrival DEF MasterStep, Merge, CountWork, InvokeThread, SetQuit, InvokeAll, Signalled
  <2>4. ASSUME NEW s \in Slaves, SlaveStep(s) \/ SpuriousWakeup(s) PROVE BarrierInv'
    BY <2>t, <2>4, NoArrival
       DEF SlaveStep, SpuriousWakeup, LockMutex, TestQuit, CheckWork, TestWork, ScanOver, Goto
  <2>5. ASSUME NEW t \in Threads, Scan(t) \/ Advance(t) PROVE BarrierInv'
    BY <2>t, <2>5, NoArrival DEF Scan, Advance, Goto
  <2>6. ASSUME NEW t \in Threads, Finish(t) PROVE BarrierInv'
    <3>1. t \in Active
      BY <2>6, <2>o DEF Finish, Gather
    <3> DEFINE next == [u \in Threads |-> "free"]
    <3>2. \A u \in Active : next[u] \notin {"ompc", "b1", "b2", "b3"}
      BY ThreadFacts
    <3>3. Arrive(t, Active, "b2", next) /\ pc[t] = "fscan" /\ calls' = calls
      BY <2>6 DEF Finish
    <3> HIDE DEF next
    <3> QED BY <2>t, <3>1, <3>2, <3>3, ArrivalInBase
  <2>7. ASSUME NEW t \in Threads, Leave(t) PROVE BarrierInv'
    <3>1. t \in Active
      BY <2>7, <2>o DEF Leave, Gather
    <3> DEFINE next == [u \in Threads |-> "idle"]
    <3>2. \A u \in Active : next[u] \notin {"ompc", "b1", "b2", "b3"}
      BY ThreadFacts
    <3>3. Arrive(t, Active, "b3", next) /\ pc[t] = "free" /\ calls' = calls
      BY <2>7 DEF Leave
    <3> HIDE DEF next
    <3> QED BY <2>t, <3>1, <3>2, <3>3, ArrivalInBase
  <2>8. ASSUME UNCHANGED vars PROVE BarrierInv'
    BY <2>8, NoArrival DEF vars
  <2> QED BY <2>1, <2>2, <2>3, <2>4, <2>5, <2>6, <2>7, <2>8 DEF Next, ThreadStep, Terminating
<1> QED BY <1>1, <1>2, TypeCorrect, Phases, PTL DEF Spec

\* Whatever the sizes, never do all threads wait with one of them in a call: at
\* every barrier somebody is missing who can go on, and the MASTER that sleeps on
\* a mutex, or has raised the quit flag, leaves no slave asleep.
THEOREM NoDeadlockHolds == Spec => []NoDeadlock
<1>1. TypeOK /\ PhaseInv /\ QuitInv /\ WakeupInv /\ BarrierInv => NoDeadlock
  <2> SUFFICES ASSUME TypeOK, PhaseInv, QuitInv, WakeupInv, BarrierInv,
                      \A t \in Threads : Waits(t), NEW v \in Threads, pc[v] # "idle"
               PROVE  FALSE
    BY DEF NoDeadlock
  <2>t. pc \in [Threads -> Labels] /\ calls \in [Threads -> 0..Calls] /\ wake \in Threads
        /\ nxt_slave \in Threads /\ MASTER \in Threads
    BY ThreadFacts DEF TypeOK
  <2>1. ASSUME \A t \in Active : pc[t] \in Gather PROVE FALSE
    <3>1. \A t \in Threads : pc[t] \in {"idle", "ompc"}
      BY <2>1 DEF PhaseInv, Gather
    <3>2. PICK u \in Threads : pc[u] # "ompc"
      BY DEF BarrierInv
    <3>3. pc[u] = "idle" /\ calls[u] = Calls
      BY <3>1, <3>2 DEF Waits
    <3>4. pc[v] = "ompc"
      BY <3>1
    <3>5. calls[v] - 1 = Calls
      BY <3>3, <3>4 DEF BarrierInv, Joined
    <3> QED BY <2>t, <3>5, SizesAssumption
  <2>2. ASSUME \A t \in Active : pc[t] \in Sync PROVE FALSE
    <3>1. \A t \in Active : pc[t] = "b1"
      BY <2>2, ThreadFacts DEF Sync, Waits
    <3> QED BY <3>1 DEF BarrierInv
  <2>3. ASSUME \A t \in Active : pc[t] \in Clean PROVE FALSE
    <3>1. \A t \in Active : pc[t] = "b3"
      BY <2>3, ThreadFacts DEF Clean, Waits
    <3> QED BY <3>1 DEF BarrierInv
  <2>4. ASSUME \A t \in Active : pc[t] \in MasterWork \cup SlaveWork \cup Final PROVE FALSE
    <3>1. \A s \in Slaves : pc[s] \in {"wait", "b2"}
      BY <2>4, ThreadFacts DEF PhaseInv, MasterWork, SlaveWork, Final, Waits
    <3>2. \A t \in Threads : MutexFree(t)
      <4>1. ASSUME NEW t \in Threads PROVE pc[t] \notin {"test", "check", "inner"}
        BY ThreadFacts DEF Waits
      <4> QED BY <4>1 DEF MutexFree
    <3>3. pc[MASTER] = "b2"
      BY <2>t, <2>4, <3>2, ThreadFacts DEF PhaseInv, MasterWork, SlaveWork, Final, Waits
    <3>4. \A s \in Slaves : pc[s] # "wait"
      BY <3>3 DEF QuitInv, WakeupInv
    <3>5. \A t \in Active : pc[t] = "b2"
      BY <3>1, <3>3, <3>4 DEF Slaves
    <3> QED BY <3>5 DEF BarrierInv
  <2> QED BY <2>1, <2>2, <2>3, <2>4 DEF PhaseInv
<1> QED BY <1>1, TypeCorrect, Phases, QuitFlag, Wakeups, Barriers, PTL

=============================================================================
