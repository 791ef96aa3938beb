-------------------------- MODULE Collective_proofs --------------------------
(***************************************************************************)
(* CollectiveIO implements Collective for the active threads, for every    *)
(* team size, number of active threads and number of calls.                *)
(***************************************************************************)
EXTENDS CollectiveIO_proofs

-----------------------------------------------------------------------------
(* The invariant behind the refinement *)

\* How many calls t has returned from.
Returned(t) == IF pc[t] = "idle" THEN calls[t] ELSE calls[t] - 1

\* The active threads have returned from equally many calls, and a slot of
\* fs->targs holds what its thread passed to its latest call.
RoundInv ==
  /\ \A t \in Threads : targs[t] = calls[t] /\ (pc[t] # "idle" => calls[t] > 0)
  /\ \A t \in Active : Returned(t) = Returned(MASTER)

\* What has been merged of an active thread is of the call it is in.
ArgsInv ==
  /\ \A a \in run : a[1] \in Active => a[2] = calls[a[1]]
  /\ \A i \in DOMAIN pool : \A a \in pool[i].args : a[1] \in Active => a[2] = calls[a[1]]

\* The block with the data of t has been transferred.
Done(t) == \E i \in DOMAIN pool : Holds(pool[i].args, t) /\ pool[i].assigned_to = Nobody

\* An active thread's data has moved once in each call it has returned from, and
\* in the present one if its block has been transferred.
MovedInv ==
  \A t \in Active, k \in 1..Calls :
    moved[<<t, k>>] =
      IF \/ k <= Returned(MASTER)
         \/ k = Returned(MASTER) + 1 /\ (pc[MASTER] \in Clean \/ Done(t))
      THEN 1 ELSE 0

CallInv == RoundInv /\ ArgsInv /\ MovedInv

Layers ==
  /\ TypeOK /\ CursorInv /\ PhaseInv /\ ResetInv /\ PoolInv /\ CountInv /\ SlotInv

-----------------------------------------------------------------------------
(* Steps *)

\* A step that merges, transfers and returns nothing.
LEMMA QuietStep ==
  ASSUME CallInv, UNCHANGED <<calls, targs, run, pool, moved>>,
         \A t \in Threads : pc'[t] = "idle" <=> pc[t] = "idle",
         pc'[MASTER] \in Clean <=> pc[MASTER] \in Clean
  PROVE  CallInv' /\ UNCHANGED Promise!vars
<1>1. \A t \in Threads : Returned(t)' = Returned(t)
  BY DEF Returned
<1>2. RoundInv'
  BY <1>1, ThreadFacts DEF CallInv, RoundInv
<1>3. ArgsInv'
  BY DEF CallInv, ArgsInv
<1>4. MovedInv'
  <2>1. \A t \in Active : Done(t)' = Done(t)
    BY DEF Done
  <2> QED BY <1>1, <2>1, ThreadFacts DEF CallInv, MovedInv
<1>5. UNCHANGED Promise!vars
  BY ThreadFacts DEF Promise!vars
<1> QED BY <1>2, <1>3, <1>4, <1>5 DEF CallInv

\* The phase of one active thread is the phase of all.
LEMMA OnePhase ==
  ASSUME Layers, NEW t \in Active, NEW u \in Active
  PROVE  /\ pc[t] \in Gather <=> pc[u] \in Gather
         /\ pc[t] \in Clean <=> pc[u] \in Clean
         /\ pc[t] \in Sync <=> pc[u] \in Sync
BY DEF Layers, PhaseInv, Gather, Sync, Clean, MasterWork, SlaveWork, Final

\* Between two calls there is nothing in the pool and in the run.
LEMMA NothingHeld ==
  ASSUME Layers, pc[MASTER] \in Gather \cup Sync
  PROVE  pool = <<>> /\ run = {}
BY DEF Layers, PoolInv, SlotInv, Gather, Sync

\* Entering a call.
LEMMA CallRefines ==
  ASSUME Layers, CallInv, NEW t \in Threads, Call(t)
  PROVE  CallInv' /\ (Promise!Next \/ UNCHANGED Promise!vars)
<1>t. /\ pc \in [Threads -> Labels] /\ calls \in [Threads -> 0..Calls]
      /\ targs \in [Threads -> 0..Calls] /\ moved \in [Args -> Nat]
      /\ MASTER \in Active /\ Active \subseteq Threads
  BY ThreadFacts DEF Layers, TypeOK
<1>1. /\ pc[t] = "idle" /\ calls[t] < Calls /\ calls' = [calls EXCEPT ![t] = @ + 1]
      /\ targs' = [targs EXCEPT ![t] = calls[t] + 1]
      /\ UNCHANGED <<run, pool, moved>>
      /\ Arrive(t, Threads, "ompc", AfterOmpBarrier)
  BY DEF Call, work, data, master
<1>2. ASSUME NEW u \in Active
      PROVE  Returned(u)' = Returned(u) /\ (pc'[u] # "idle" => calls'[u] > 0)
  <2>1. CASE u = t
    <3>1. pc'[u] # "idle"
      BY <1>1, <1>t, <2>1 DEF Arrive, AfterOmpBarrier
    <3> QED BY <1>1, <1>t, <2>1, <3>1 DEF Returned
  <2>2. CASE u # t
    <3>1. pc'[u] = "idle" <=> pc[u] = "idle"
      BY <1>1, <1>t, <2>2 DEF Arrive, AfterOmpBarrier
    <3> QED BY <1>1, <1>t, <2>2, <3>1 DEF Returned, CallInv, RoundInv
  <2> QED BY <2>1, <2>2
<1>3. RoundInv'
  <2>1. ASSUME NEW u \in Threads PROVE targs'[u] = calls'[u] /\ (pc'[u] # "idle" => calls'[u] > 0)
    <3>1. CASE u = t
      BY <1>1, <1>t, <3>1
    <3>2. CASE u # t
      <4>1. targs'[u] = calls'[u] /\ calls'[u] = calls[u] /\ targs[u] = calls[u]
        BY <1>1, <1>t, <3>2 DEF CallInv, RoundInv
      <4>2. CASE pc[u] # "idle"
        BY <4>1, <4>2 DEF CallInv, RoundInv
      <4>3. CASE pc[u] = "idle"
        BY <1>1, <1>t, <3>2, <4>3, <4>1 DEF Arrive
      <4> QED BY <4>1, <4>2, <4>3
    <3> QED BY <3>1, <3>2
  <2> QED BY <1>2, <1>t, <2>1 DEF CallInv, RoundInv
<1>4. ArgsInv'
  <2>1. CASE t \in Active
    <3>1. pc[MASTER] \in Gather
      BY <1>1, <1>t, <2>1, OnePhase DEF Gather
    <3>2. pool' = <<>> /\ run' = {}
      BY <1>1, <3>1, NothingHeld
    <3> QED BY <3>2 DEF ArgsInv
  <2>2. CASE t \notin Active
    <3>1. \A u \in Active : calls'[u] = calls[u]
      BY <1>1, <1>t, <2>2
    <3> QED BY <1>1, <3>1 DEF CallInv, ArgsInv
  <2> QED BY <2>1, <2>2
<1>5. MovedInv'
  <2>1. \A u \in Active : Done(u)' = Done(u)
    BY <1>1 DEF Done
  <2>2. pc'[MASTER] \in Clean <=> pc[MASTER] \in Clean
    <3>1. pc'[MASTER] = pc[MASTER] \/ pc'[MASTER] \notin Clean
      BY <1>1, <1>t DEF Arrive, AfterOmpBarrier, Clean
    <3>2. CASE pc[MASTER] \in Clean
      BY <1>1, <1>t, <3>2 DEF Arrive, Clean
    <3> QED BY <3>1, <3>2
  <2> QED BY <1>1, <1>2, <1>t, <2>1, <2>2 DEF CallInv, MovedInv
<1>6. CASE t \in Active
  <2>1. Promise!Enter(t)
    BY <1>1, <1>2, <1>6, <1>t DEF Promise!Enter, Returned
  <2> QED BY <1>3, <1>4, <1>5, <1>6, <2>1 DEF CallInv, Promise!Next
<1>7. CASE t \notin Active
  <2>1. \A u \in Active : calls'[u] = calls[u] /\ Returned(u)' = Returned(u)
    BY <1>1, <1>2, <1>7, <1>t
  <2>2. UNCHANGED Promise!vars
    BY <1>1, <2>1 DEF Promise!vars, Returned
  <2> QED BY <1>3, <1>4, <1>5, <2>2 DEF CallInv
<1> QED BY <1>6, <1>7

\* Merging an argument and handing on a run.
LEMMA MergeRefines ==
  ASSUME Layers, CallInv, Merge
  PROVE  CallInv' /\ UNCHANGED Promise!vars
<1>t. /\ pc \in [Threads -> Labels] /\ pool \in Seq(Block) /\ nxt_slave \in Active
      /\ MASTER \in Active /\ Active \subseteq Threads /\ Nobody \notin Active
      /\ cursor \in 0..NumThreads
  BY ThreadFacts DEF Layers, TypeOK
<1>1. /\ pc[MASTER] = "merge" /\ UNCHANGED <<calls, targs, moved>>
      /\ pc' = pc \/ pc' = [pc EXCEPT ![MASTER] = "count"]
      /\ \/ pool' = pool /\ run' = Gathered
         \/ pool' = AddToPool(Gathered) /\ run' = {}
  BY DEF Merge, data
<1>2. \A u \in Threads : Returned(u)' = Returned(u) /\ (pc'[u] = "idle" <=> pc[u] = "idle")
  BY <1>1, <1>t DEF Returned
<1>3. RoundInv'
  BY <1>1, <1>2, <1>t DEF CallInv, RoundInv
<1>4. \A a \in Gathered : a[1] \in Active => a[2] = calls[a[1]]
  <2>1. <<cursor, targs[cursor]>>[2] = targs[cursor] /\ <<cursor, targs[cursor]>>[1] = cursor
    OBVIOUS
  <2> QED BY <1>t, <2>1 DEF CallInv, ArgsInv, RoundInv, Gathered
<1>5. CASE pool' = pool /\ run' = Gathered
  <2>1. ArgsInv'
    BY <1>1, <1>4, <1>5 DEF CallInv, ArgsInv
  <2>2. \A u \in Active : Done(u)' = Done(u)
    BY <1>5 DEF Done
  <2> QED BY <1>1, <1>2, <1>3, <1>t, <2>1, <2>2 DEF CallInv, MovedInv, Promise!vars, Clean
<1>6. CASE pool' = AddToPool(Gathered) /\ run' = {}
  <2> DEFINE block == [assigned_to |-> nxt_slave, args |-> Gathered]
  <2>1. pool' = Append(pool, block) /\ block.args = Gathered /\ block.assigned_to \in Active
    BY <1>6, <1>t DEF AddToPool
  <2> HIDE DEF block
  <2>2. /\ DOMAIN pool' = DOMAIN pool \cup {Len(pool) + 1}
        /\ pool'[Len(pool) + 1] = block /\ \A j \in DOMAIN pool : pool'[j] = pool[j]
    BY <1>t, <2>1
  <2>3. ArgsInv'
    <3>1. ASSUME NEW j \in DOMAIN pool' PROVE \A a \in pool'[j].args : a[1] \in Active => a[2] = calls[a[1]]
      BY <1>4, <2>1, <2>2 DEF CallInv, ArgsInv
    <3> QED BY <1>1, <1>6, <3>1 DEF ArgsInv
  <2>4. \A u \in Active : Done(u)' <=> Done(u)
    BY <1>t, <2>1, <2>2 DEF Done, Holds
  <2> QED BY <1>1, <1>2, <1>3, <1>t, <2>3, <2>4 DEF CallInv, MovedInv, Promise!vars, Clean
<1> QED BY <1>1, <1>5, <1>6

\* The threads whose data is in block i.
Owners(i) == {u \in Active : Holds(pool[i].args, u)}

\* Transferring a block.
LEMMA ScanRefines ==
  ASSUME Layers, CallInv, NEW t \in Active, Scan(t), iterator[t] \in DOMAIN pool
  PROVE  CallInv' /\ (Promise!Next \/ UNCHANGED Promise!vars)
<1>t. /\ pc \in [Threads -> Labels] /\ pool \in Seq(Block) /\ calls \in [Threads -> 0..Calls]
      /\ MASTER \in Active /\ Active \subseteq Threads /\ Nobody \notin Active
      /\ moved \in [Args -> Nat] /\ Calls \in Nat
  BY ThreadFacts, SizesAssumption DEF Layers, TypeOK
<1> DEFINE i == iterator[t]
           c == calls[MASTER]
<1>1. /\ UNCHANGED <<calls, targs, run>>
      /\ \/ pc[t] = "scan" /\ pc' = [pc EXCEPT ![t] = "step"]
         \/ pc[t] = "fscan" /\ pc' = [pc EXCEPT ![t] = "fstep"]
      /\ Perform(t)
  BY DEF Scan, Goto, master
<1>2. \A u \in Threads : Returned(u)' = Returned(u) /\ (pc'[u] = "idle" <=> pc[u] = "idle")
  BY <1>1, <1>t DEF Returned
<1>3. RoundInv'
  BY <1>1, <1>2, <1>t DEF CallInv, RoundInv
<1>4. pc[MASTER] \notin Clean \cup Gather /\ pc'[MASTER] \notin Clean
  <2>1. pc[t] \notin Clean \cup Gather
    BY <1>1 DEF Clean, Gather
  <2> QED BY <1>1, <1>t, <2>1, OnePhase DEF Clean
<1>5. CASE UNCHANGED <<pool, moved>>
  <2>1. pc'[MASTER] \in Clean <=> pc[MASTER] \in Clean
    BY <1>4
  <2> QED BY <1>1, <1>2, <1>5, <2>1, QuietStep
<1>6. CASE /\ pool[i].assigned_to = t /\ pool' = [pool EXCEPT ![i].assigned_to = Nobody]
           /\ moved' = [a \in Args |-> IF a \in pool[i].args THEN moved[a] + 1 ELSE moved[a]]
  <2>0. i \in DOMAIN pool /\ i \in Nat
    BY <1>t
  <2> HIDE DEF i
  <2>1. /\ DOMAIN pool' = DOMAIN pool
        /\ \A j \in DOMAIN pool : /\ pool'[j].args = pool[j].args
                                  /\ j # i => pool'[j].assigned_to = pool[j].assigned_to
        /\ pool'[i].assigned_to = Nobody
    <3>1. pool[i] \in Block
      BY <1>t, <2>0
    <3> QED BY <1>6, <1>t, <2>0, <3>1 DEF Block
  <2>2. ArgsInv'
    BY <1>1, <2>1 DEF CallInv, ArgsInv
  <2>3. \A u \in Active : calls[u] = c /\ c \in 1..Calls /\ Returned(u) = c - 1
    <3>1. \A u \in Active : pc[u] # "idle"
      BY <1>4, <1>t, OnePhase DEF Gather
    <3> QED BY <1>t, <3>1 DEF CallInv, RoundInv, Returned
  <2>4. \A u \in Active : Done(u)' <=> Done(u) \/ u \in Owners(i)
    BY <2>0, <2>1 DEF Done, Owners
  <2>5. \A u \in Owners(i) : ~Done(u)
    BY <1>6, <1>t, <2>0 DEF Done, Owners, Layers, SlotInv
  <2>6. ASSUME NEW u \in Active, NEW k \in 1..Calls
        PROVE  <<u, k>> \in pool[i].args <=> u \in Owners(i) /\ k = c
    <3>1. ASSUME <<u, k>> \in pool[i].args PROVE u \in Owners(i) /\ k = c
      <4>1. <<u, k>>[1] = u /\ <<u, k>>[2] = k
        OBVIOUS
      <4> QED BY <2>0, <2>3, <3>1, <4>1 DEF Owners, Holds, CallInv, ArgsInv
    <3>2. ASSUME u \in Owners(i) PROVE <<u, c>> \in pool[i].args
      <4>1. PICK a \in pool[i].args : a[1] = u
        BY <3>2 DEF Owners, Holds
      <4>2. a[2] = c
        BY <2>0, <2>3, <4>1 DEF CallInv, ArgsInv
      <4>0. pool[i] \in Block
        BY <1>t, <2>0
      <4>3. a \in Threads \X (0..Calls)
        BY <4>0, <4>1 DEF Block
      <4>4. a = <<a[1], a[2]>>
        BY <4>3
      <4> QED BY <4>1, <4>2, <4>4
    <3> QED BY <3>1, <3>2
  <2>7. ASSUME NEW u \in Active, NEW k \in 1..Calls
        PROVE  moved'[<<u, k>>] = IF u \in Owners(i) /\ k = c THEN 1 ELSE moved[<<u, k>>]
    <3>1. <<u, k>> \in Args
      BY <1>t DEF Args
    <3>2. u \in Owners(i) /\ k = c => moved[<<u, k>>] = 0
      BY <1>4, <1>t, <2>3, <2>5 DEF CallInv, MovedInv
    <3> QED BY <1>6, <1>t, <2>6, <3>1, <3>2
  <2>8. MovedInv'
    <3>1. Returned(MASTER)' = c - 1 /\ Returned(MASTER) = c - 1 /\ c \in 1..Calls
      BY <1>2, <1>t, <2>3
    <3> HIDE DEF c
    <3>2. ASSUME NEW u \in Active, NEW k \in 1..Calls
          PROVE  moved'[<<u, k>>] = IF k <= c - 1 \/ (k = c /\ Done(u)') THEN 1 ELSE 0
      <4>1. moved[<<u, k>>] = IF k <= c - 1 \/ (k = c /\ Done(u)) THEN 1 ELSE 0
        BY <1>4, <3>1 DEF CallInv, MovedInv
      <4> QED BY <2>4, <2>7, <3>1, <4>1
    <3>3. c - 1 + 1 = c
      BY <3>1
    <3> DEFINE R == Returned(MASTER)
    <3>4. R' = c - 1
      BY <3>1
    <3> HIDE DEF R
    <3>5. ASSUME NEW u \in Active, NEW k \in 1..Calls
          PROVE  moved'[<<u, k>>] =
                   IF k <= R' \/ (k = R' + 1 /\ (pc'[MASTER] \in Clean \/ Done(u)')) THEN 1 ELSE 0
      BY <1>4, <3>2, <3>3, <3>4
    <3> QED BY <3>5 DEF MovedInv, R
  <2>9. PICK k \in 1..Calls, T \in SUBSET Active : k = c /\ T = Owners(i)
    BY <1>t, <2>3 DEF Owners
  <2>10. \A u \in T : u \in Active /\ moved[<<u, k>>] = 0
    BY <1>4, <1>t, <2>3, <2>5, <2>9 DEF CallInv, MovedInv
  <2>11. [a \in Active \X (1..Calls) |-> moved'[a]] =
           [a \in Active \X (1..Calls) |-> IF a \in T \X {k} THEN 1 ELSE moved[a]]
    <3>1. ASSUME NEW a \in Active \X (1..Calls)
          PROVE  moved'[a] = IF a \in T \X {k} THEN 1 ELSE moved[a]
      <4>1. PICK u \in Active, m \in 1..Calls : a = <<u, m>>
        OBVIOUS
      <4> QED BY <2>7, <2>9, <4>1
    <3> QED BY <3>1
  <2>12. [u \in Active |-> calls'[u]] = [u \in Active |-> calls[u]]
    BY <1>1
  <2>13. [u \in Active |-> IF pc'[u] = "idle" THEN calls'[u] ELSE calls'[u] - 1] =
           [u \in Active |-> IF pc[u] = "idle" THEN calls[u] ELSE calls[u] - 1]
    BY <1>1, <1>2, <1>t
  <2>14. \A u \in Active : calls[u] = k
    BY <2>3, <2>9
  <2>15. Promise!Move(k, T)
    BY <2>10, <2>11, <2>12, <2>13, <2>14 DEF Promise!Move, Promise!Args
  <2>16. Promise!Next
    BY <2>15 DEF Promise!Next
  <2>17. CallInv'
    BY <1>3, <2>2, <2>8 DEF CallInv
  <2> QED BY <2>16, <2>17
<1> QED BY <1>1, <1>5, <1>6 DEF Perform, data

\* The second barrier: the last thread to arrive finds all data moved.
LEMMA FinishRefines ==
  ASSUME Layers, CallInv, Layers', NEW t \in Active, Finish(t)
  PROVE  CallInv' /\ UNCHANGED Promise!vars
<1>t. /\ pc \in [Threads -> Labels] /\ pool \in Seq(Block) /\ calls \in [Threads -> 0..Calls]
      /\ MASTER \in Active /\ Active \subseteq Threads
  BY ThreadFacts DEF Layers, TypeOK
<1>1. /\ UNCHANGED <<calls, targs, run, pool, moved>> /\ pc[t] = "fscan"
      /\ Arrive(t, Active, "b2", [u \in Threads |-> "free"])
  BY DEF Finish, master, data
<1>2. pc[MASTER] \notin Clean \cup Gather
  <2>1. pc[t] \notin Clean \cup Gather
    BY <1>1 DEF Clean, Gather
  <2> QED BY <1>t, <2>1, OnePhase
<1>3. \A u \in Threads : pc'[u] = "idle" <=> pc[u] = "idle"
  <2>1. \A u \in Active : pc[u] \notin Gather
    BY <1>2, <1>t, OnePhase
  <2> QED BY <1>1, <1>t, <2>1 DEF Arrive, Gather
<1>4. CASE pc'[MASTER] \notin Clean
  <2>1. pc'[MASTER] \in Clean <=> pc[MASTER] \in Clean
    BY <1>2, <1>4
  <2> QED BY <1>1, <1>3, <2>1, QuietStep
<1>5. CASE pc'[MASTER] \in Clean
  <2>1. /\ \A u \in Active \ {t} : pc[u] = "b2"
        /\ pc' = [u \in Threads |-> IF u \in Active THEN "free" ELSE pc[u]]
    BY <1>1, <1>2, <1>5, <1>t DEF Arrive, Clean
  <2>2. \A u \in Active : pool' = pool /\ listlen'[u] = 0 /\ completed'[u] = 0
    BY <1>1, <1>t, <2>1 DEF Layers, ResetInv, Clean
  <2>3. \A u \in Active : Mine(u) = {}
    <3> SUFFICES ASSUME NEW u \in Active PROVE Mine(u) = {}
      OBVIOUS
    <3>1. listlen'[u] + Uncounted(u)' = completed'[u] + Cardinality(Mine(u)')
      BY DEF Layers, CountInv
    <3>2. Mine(u)' = Mine(u) /\ Uncounted(u)' = 0
      BY <1>1, <1>5 DEF Mine, Uncounted, Clean
    <3>3. IsFiniteSet(Mine(u)) /\ Cardinality(Mine(u)) \in Nat
      <4>1. Mine(u) \subseteq 1..Len(pool) /\ Len(pool) \in Nat
        BY <1>t DEF Mine
      <4>2. IsFiniteSet(1..Len(pool))
        BY <4>1, FS_Interval
      <4> QED BY <4>1, <4>2, FS_Subset, FS_CardinalityType
    <3> QED BY <2>2, <3>1, <3>2, <3>3, FS_EmptySet
  <2>4. pc[MASTER] \in Final
    BY <1>1, <1>t, <2>1 DEF Final
  <2>5. \A u \in Active : Done(u)
    <3> SUFFICES ASSUME NEW u \in Active PROVE Done(u)
      OBVIOUS
    <3>1. PICK j \in DOMAIN pool : Holds(pool[j].args, u)
      BY <1>t, <2>4 DEF Layers, SlotInv, InPool
    <3>2. pool[j] \in Block
      BY <1>t
    <3> QED BY <2>3, <3>1, <3>2 DEF Block, Mine, Done
  <2>6. \A u \in Threads : Returned(u)' = Returned(u)
    BY <1>1, <1>3 DEF Returned
  <2>7. RoundInv' /\ ArgsInv'
    BY <1>1, <1>3, <2>6, <1>t DEF CallInv, RoundInv, ArgsInv
  <2>8. MovedInv'
    BY <1>1, <1>5, <1>t, <2>5, <2>6 DEF CallInv, MovedInv
  <2>9. UNCHANGED Promise!vars
    BY <1>1, <1>3, <1>t DEF Promise!vars
  <2> QED BY <2>7, <2>8, <2>9 DEF CallInv
<1> QED BY <1>4, <1>5

\* The third barrier: the last thread to arrive lets all active ones return.
LEMMA LeaveRefines ==
  ASSUME Layers, CallInv, Layers', NEW t \in Active, Leave(t)
  PROVE  CallInv' /\ (Promise!Next \/ UNCHANGED Promise!vars)
<1>t. /\ pc \in [Threads -> Labels] /\ pool \in Seq(Block) /\ calls \in [Threads -> 0..Calls]
      /\ MASTER \in Active /\ Active \subseteq Threads /\ Calls \in Nat
  BY ThreadFacts, SizesAssumption DEF Layers, TypeOK
<1>1. /\ UNCHANGED <<calls, targs, run, moved>> /\ pc[t] = "free"
      /\ pool' = IF t = MASTER THEN <<>> ELSE pool
      /\ Arrive(t, Active, "b3", [u \in Threads |-> "idle"])
  BY DEF Leave, master, data
<1>2. \A u \in Active : pc[u] \in Clean
  <2>1. pc[t] \in Clean
    BY <1>1 DEF Clean
  <2> QED BY <2>1, OnePhase
<1>3. ArgsInv'
  BY <1>1 DEF CallInv, ArgsInv
<1>4. \A u \in Active : calls[u] = calls[MASTER] /\ Returned(u) = calls[MASTER] - 1
                        /\ calls[MASTER] \in 1..Calls
  BY <1>2, <1>t DEF CallInv, RoundInv, Returned, Clean
<1>5. \A u \in Active, k \in 1..Calls :
        moved[<<u, k>>] = IF k <= calls[MASTER] THEN 1 ELSE 0
  <2> DEFINE R == Returned(MASTER)
  <2>1. R = calls[MASTER] - 1 /\ calls[MASTER] \in 1..Calls /\ pc[MASTER] \in Clean
    BY <1>2, <1>4, <1>t
  <2> HIDE DEF R
  <2>2. \A u \in Active, k \in 1..Calls :
          moved[<<u, k>>] = IF k <= R \/ k = R + 1 THEN 1 ELSE 0
    BY <2>1 DEF CallInv, MovedInv, R
  <2>3. \A k \in 1..Calls : k <= R \/ k = R + 1 <=> k <= calls[MASTER]
    BY <2>1
  <2> QED BY <2>2, <2>3, Zenon
<1>6. CASE \A u \in Active \ {t} : pc[u] = "b3"
  <2>1. pc' = [u \in Threads |-> IF u \in Active THEN "idle" ELSE pc[u]]
    BY <1>1, <1>6 DEF Arrive
  <2>2. \A u \in Active : Returned(u)' = calls[MASTER]
    BY <1>1, <1>4, <1>t, <2>1 DEF Returned
  <2>3. RoundInv'
    BY <1>1, <1>t, <2>1, <2>2 DEF CallInv, RoundInv
  <2>4. pc'[MASTER] \notin Clean /\ \A u \in Active : ~Done(u)'
    <3>1. pc'[MASTER] = "idle"
      BY <1>t, <2>1
    <3>2. pool' = <<>>
      BY <3>1 DEF Layers, PoolInv, Gather
    <3> QED BY <3>1, <3>2 DEF Clean, Done
  <2>5. MovedInv'
    BY <1>1, <1>5, <1>t, <2>2, <2>4 DEF MovedInv
  <2>6. Promise!Return(Active)
    <3>1. \A u \in Active : pc[u] # "idle" /\ pc'[u] = "idle"
      BY <1>2, <1>t, <2>1 DEF Clean
    <3>2. \A u \in Active : \A v \in Active : moved[<<v, calls[u]>>] = 1
      BY <1>4, <1>5
    <3> QED BY <1>1, <1>4, <1>t, <3>1, <3>2 DEF Promise!Return
  <2>7. PICK T \in SUBSET Active : T = Active
    OBVIOUS
  <2>8. Promise!Next
    BY <2>6, <2>7 DEF Promise!Next
  <2> QED BY <1>3, <2>3, <2>5, <2>8 DEF CallInv
<1>7. CASE ~\A u \in Active \ {t} : pc[u] = "b3"
  <2>1. pc' = [pc EXCEPT ![t] = "b3"]
    BY <1>1, <1>7 DEF Arrive
  <2>2. \A u \in Threads : pc'[u] = "idle" <=> pc[u] = "idle"
    BY <1>1, <1>t, <2>1
  <2>3. \A u \in Threads : Returned(u)' = Returned(u)
    BY <1>1, <2>2 DEF Returned
  <2>4. RoundInv'
    BY <1>1, <1>t, <2>2, <2>3 DEF CallInv, RoundInv
  <2>5. pc'[MASTER] \in Clean
    BY <1>2, <1>t, <2>1 DEF Clean
  <2>6. MovedInv'
    <3> DEFINE R == Returned(MASTER)
    <3>1. R' = calls[MASTER] - 1 /\ calls[MASTER] \in 1..Calls
      BY <1>4, <1>t, <2>3
    <3> HIDE DEF R
    <3>2. \A u \in Active, k \in 1..Calls :
            moved'[<<u, k>>] = IF k <= R' \/ k = R' + 1 THEN 1 ELSE 0
      <4>1. \A k \in 1..Calls : k <= R' \/ k = R' + 1 <=> k <= calls[MASTER]
        BY <3>1
      <4> QED BY <1>1, <1>5, <4>1, Zenon
    <3> QED BY <2>5, <3>2 DEF MovedInv, R
  <2>7. UNCHANGED Promise!vars
    BY <1>1, <1>t, <2>2 DEF Promise!vars
  <2> QED BY <1>3, <2>4, <2>6, <2>7 DEF CallInv
<1> QED BY <1>6, <1>7

\* All other steps are invisible to the callers.
LEMMA InnerStep ==
  ASSUME Layers, CallInv,
         \/ CountWork \/ InvokeThread \/ SetQuit \/ InvokeAll
         \/ \E s \in Slaves : SlaveStep(s) \/ SpuriousWakeup(s)
         \/ \E t \in Threads : EnterBase(t) \/ Advance(t)
         \/ Terminating \/ UNCHANGED vars
  PROVE  CallInv' /\ UNCHANGED Promise!vars
<1>t. /\ pc \in [Threads -> Labels] /\ MASTER \in Active /\ Active \subseteq Threads
      /\ Slaves \subseteq Threads /\ nxt_slave \in Threads /\ wake \in Threads
      /\ MASTER \in Threads /\ MASTER \notin Slaves
  BY ThreadFacts DEF Layers, TypeOK
<1>1. UNCHANGED <<calls, targs, run, pool, moved>>
  BY DEF CountWork, InvokeThread, SetQuit, InvokeAll, SlaveStep, LockMutex, TestQuit, CheckWork,
         TestWork, ScanOver, SpuriousWakeup, EnterBase, Advance, Terminating, vars, master, work, data
<1>2. ASSUME NEW t \in Threads, NEW from \in Labels \ {"idle"}, NEW to \in Labels \ {"idle"},
             Goto(t, from, to), from \notin Clean, to \notin Clean
      PROVE  (\A u \in Threads : pc'[u] = "idle" <=> pc[u] = "idle")
             /\ (pc'[MASTER] \in Clean <=> pc[MASTER] \in Clean)
  BY <1>2, <1>t DEF Goto
<1>3. ASSUME NEW s \in Threads, NEW next \in MasterWork \cup {"fscan"}, pc[MASTER] \in MasterWork,
             pc' = Signalled(s, next)
      PROVE  (\A u \in Threads : pc'[u] = "idle" <=> pc[u] = "idle")
             /\ (pc'[MASTER] \in Clean <=> pc[MASTER] \in Clean)
  BY <1>3, <1>t DEF Signalled, MasterWork, Clean
<1>4. /\ \A u \in Threads : pc'[u] = "idle" <=> pc[u] = "idle"
      /\ pc'[MASTER] \in Clean <=> pc[MASTER] \in Clean
  <2>1. CASE CountWork \/ SetQuit
    <3>1. Goto(MASTER, "count", "invoke") \/ Goto(MASTER, "quit", "invokeall")
      BY <2>1 DEF CountWork, SetQuit, Goto
    <3> QED BY <1>2, <1>t, <3>1 DEF Labels, Clean
  <2>2. CASE InvokeThread \/ InvokeAll
    <3>1. \E s \in Threads, next \in MasterWork \cup {"fscan"} : pc' = Signalled(s, next)
      BY <2>2, <1>t DEF InvokeThread, InvokeAll, MasterWork
    <3>2. pc[MASTER] \in MasterWork
      BY <2>2 DEF InvokeThread, InvokeAll, MasterWork
    <3> QED BY <1>3, <3>1, <3>2
  <2>3. ASSUME NEW s \in Slaves, SlaveStep(s) \/ SpuriousWakeup(s)
        PROVE  \E from, to \in SlaveWork \cup {"fscan"} : Goto(s, from, to)
    BY <2>3 DEF SlaveStep, LockMutex, TestQuit, CheckWork, TestWork, ScanOver, SpuriousWakeup,
                SlaveWork, Goto
  <2>4. ASSUME NEW t \in Threads, Advance(t)
        PROVE  \E from, to \in SlaveWork \cup {"fscan", "fstep"} : Goto(t, from, to)
    BY <2>4 DEF Advance, SlaveWork
  <2>5. ASSUME NEW t \in Threads, EnterBase(t)
        PROVE  (\A u \in Threads : pc'[u] = "idle" <=> pc[u] = "idle")
               /\ (pc'[MASTER] \in Clean <=> pc[MASTER] \in Clean)
    <3>1. pc[t] = "base" /\ Arrive(t, Active, "b1", AfterFirstBarrier)
      BY <2>5 DEF EnterBase
    <3>2. \A u \in Active : pc[u] \in Sync
      <4>1. t \in Active
        BY <3>1, <1>t DEF Layers, PhaseInv, Gather
      <4> QED BY <3>1, <4>1, OnePhase DEF Sync
    <3> QED BY <3>1, <3>2, <1>t DEF Arrive, AfterFirstBarrier, Sync, Clean
  <2>6. SlaveWork \cup {"fscan", "fstep"} \subseteq Labels \ {"idle"}
        /\ \A l \in SlaveWork \cup {"fscan", "fstep"} : l \notin Clean
    BY DEF SlaveWork, Labels, Clean
  <2>7. CASE Terminating \/ UNCHANGED vars
    BY <2>7 DEF Terminating, vars
  <2> QED BY <1>2, <1>t, <2>1, <2>2, <2>3, <2>4, <2>5, <2>6, <2>7
<1> QED BY <1>1, <1>4, QuietStep

-----------------------------------------------------------------------------
(* The theorem *)

\* The layers of the invariant that CollectiveIO_proofs has proved.
LEMMA AllLayers == Spec => [](Layers /\ IteratorInv)
BY TypeCorrect, Phases, Resets, PoolLives, Counts, SlotsAreDivided, Iterators, PTL DEF Layers

\* Every step is one of the promise or invisible to the callers.
LEMMA StepRefines ==
  ASSUME Layers, IteratorInv, CallInv, Layers', [Next]_vars
  PROVE  CallInv' /\ (Promise!Next \/ UNCHANGED Promise!vars)
<1>1. ASSUME NEW t \in Threads, Scan(t) \/ Finish(t) \/ Leave(t) PROVE t \in Active
  BY <1>1 DEF Scan, Goto, Finish, Leave, Layers, PhaseInv, Gather
<1>2. ASSUME NEW t \in Threads, Scan(t) PROVE iterator[t] \in DOMAIN pool
  BY <1>1, <1>2 DEF IteratorInv, NoUseAfterFree, Scanning, Scan, Goto
<1>3. ASSUME NEW t \in Threads, Scan(t) \/ Finish(t) \/ Leave(t)
      PROVE  CallInv' /\ (Promise!Next \/ UNCHANGED Promise!vars)
  BY <1>1, <1>2, <1>3, ScanRefines, FinishRefines, LeaveRefines
<1>4. ASSUME NEW t \in Threads, Call(t)
      PROVE  CallInv' /\ (Promise!Next \/ UNCHANGED Promise!vars)
  BY <1>4, CallRefines
<1> QED BY <1>3, <1>4, MergeRefines, InnerStep DEF Next, MasterStep, ThreadStep

\* Before the first call nothing has moved and nobody has returned.
LEMMA InitRefines == Init => CallInv /\ Promise!Init
<1> SUFFICES ASSUME Init PROVE CallInv /\ Promise!Init
  OBVIOUS
<1> USE ThreadFacts, SizesAssumption DEF Init
<1>1. \A t \in Threads : Returned(t) = 0
  BY DEF Returned
<1>2. RoundInv /\ ArgsInv
  BY <1>1 DEF RoundInv, ArgsInv
<1>3. MovedInv
  <2>1. \A t \in Active, k \in 1..Calls : <<t, k>> \in Args /\ ~Done(t)
    BY DEF Args, Done
  <2>2. Returned(MASTER) = 0 /\ pc[MASTER] \notin Clean
    BY <1>1 DEF Clean
  <2>3. \A t \in Active, k \in 1..Calls : moved[<<t, k>>] = 0
    <3> SUFFICES ASSUME NEW t \in Active, NEW k \in 1..Calls PROVE moved[<<t, k>>] = 0
      OBVIOUS
    <3>1. <<t, k>> \in Args
      BY DEF Args
    <3> HIDE DEF Init
    <3>2. moved = [a \in Args |-> 0]
      BY DEF Init
    <3> QED BY <3>1, <3>2, Zenon
  <2>4. \A k \in 1..Calls : ~(k <= 0)
    OBVIOUS
  <2> HIDE DEF Init
  <2> QED BY <2>1, <2>2, <2>3, <2>4 DEF MovedInv
<1>4. Promise!Init
  <2>1. \A a \in Active \X (1..Calls) : moved[a] = 0
    BY DEF Args
  <2> QED BY <2>1 DEF Promise!Init, Promise!Args
<1> QED BY <1>2, <1>3, <1>4 DEF CallInv

\* Whatever the barriers, mutexes, condition variables and the lock-free pool do,
\* to the active threads a call is what Collective promises: their data moves
\* after all of them have entered, once, and before any of them returns.
THEOREM CollectiveIsImplemented == Spec => ImplementsCollective
<1>1. Init => CallInv /\ Promise!Init
  BY InitRefines
<1>2. Layers /\ IteratorInv /\ CallInv /\ Layers' /\ [Next]_vars
        => CallInv' /\ [Promise!Next]_(Promise!vars)
  BY StepRefines
<1> QED BY <1>1, <1>2, AllLayers, PTL DEF Spec, ImplementsCollective, Promise!Spec

\* If every thread of the team is active, nobody returns before the MASTER has
\* read all arguments, and what it merges is what each thread provided to this
\* call.  With fewer active threads that is false (StaleArgs).
THEOREM MergedArgsOfThisCallHolds ==
  ASSUME ActiveThreads = NumThreads
  PROVE  Spec => []MergedArgsOfThisCall
<1>1. Layers /\ CallInv => MergedArgsOfThisCall
  <2> SUFFICES ASSUME Layers, CallInv, NEW i \in DOMAIN pool, NEW a \in pool[i].args
               PROVE  a[2] = calls[MASTER]
    BY DEF MergedArgsOfThisCall
  <2>1. /\ Active = Threads /\ MASTER \in Active
        /\ pool \in Seq(Block) /\ calls \in [Threads -> 0..Calls]
    BY ThreadFacts DEF Layers, TypeOK, Active, Threads
  <2>2. a[1] \in Active
    <3>1. pool[i] \in Block
      BY <2>1
    <3>2. a \in Threads \X (0..Calls)
      BY <3>1 DEF Block
    <3> QED BY <2>1, <3>2
  <2>3. a[2] = calls[a[1]]
    BY <2>2 DEF CallInv, ArgsInv
  <2>4. pc[MASTER] \notin Gather
    <3>1. pool # <<>>
      OBVIOUS
    <3> QED BY <3>1 DEF Layers, PoolInv
  <2>5. pc[MASTER] # "idle" /\ pc[a[1]] # "idle"
    BY <2>1, <2>2, <2>4, OnePhase DEF Gather
  <2>6. calls[a[1]] - 1 = calls[MASTER] - 1
    BY <2>1, <2>2, <2>5 DEF CallInv, RoundInv, Returned
  <2> QED BY <2>1, <2>2, <2>3, <2>6
<1>2. Init => CallInv
  BY InitRefines
<1>3. Layers /\ IteratorInv /\ CallInv /\ Layers' /\ [Next]_vars => CallInv'
  BY StepRefines
<1> QED BY <1>1, <1>2, <1>3, AllLayers, PTL DEF Spec

=============================================================================
