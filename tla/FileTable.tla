----------------------------- MODULE FileTable ------------------------------
(***************************************************************************)
(* A team of threads that opens, uses, flushes and closes files together:  *)
(* omp_file_open_all, omp_file_close_all, omp_file_fsync, what every       *)
(* collective call does with its descriptor, and the table in which the    *)
(* library looks the descriptor up (fs_table.c).  All threads make the     *)
(* same calls in the same order, each at its own pace; they meet at the    *)
(* one OpenMP barrier and, in a collective read or write, at the barrier   *)
(* of the file.                                                            *)
(*                                                                         *)
(* A pc label names what a thread does next:                               *)
(*   idle             outside the library                                  *)
(*   insert create    the MASTER in omp_file_open_all                      *)
(*   look             in get_fs_from_table                                 *)
(*   openfd opened    the others open the file, the MASTER does not        *)
(*   closefd          closing its descriptor                               *)
(*   remove free      the MASTER at the end of omp_file_close_all          *)
(*   store base       a collective call before the team barrier, and after *)
(*   sync             the MASTER in omp_file_fsync                         *)
(*   o1 o2 c1 c2 ompc waiting at __ompc_barrier                            *)
(*   barr             waiting at fs->barr                                  *)
(***************************************************************************)
EXTENDS Integers, Sequences, FiniteSets

CONSTANTS
  NumThreads,  \* omp_get_num_threads()
  Opens,       \* bound: files the program opens
  MaxCalls,    \* bound: calls the program makes
  Configs,     \* what fs.config may say: its lines, each a key and a value
  MayFail,     \* may open() fail?
  AnyOrder     \* may the program close its files in any order?

MASTER  == 0
Threads == 0..(NumThreads - 1)
Files   == 1..Opens         \* the k-th call of omp_file_open_all, and its FS
NoFile  == 0
Failed  == -1               \* what open() returns when it fails
Unknown == -2               \* what uninitialised or freed memory holds
Descriptors == 3..(NumThreads * Opens + 2)

\* The line of fs.config that sets active_threads: the last one with that key.
LastLine(config) ==
  CHOOSE n \in DOMAIN config :
    /\ config[n].key = "active_threads"
    /\ \A m \in DOMAIN config : config[m].key = "active_threads" => m <= n

ASSUME FileTableAssumption ==
  /\ NumThreads \in Nat \ {0} /\ Opens \in Nat /\ MaxCalls \in Nat
  /\ MayFail \in BOOLEAN /\ AnyOrder \in BOOLEAN
  /\ \A config \in Configs : config[LastLine(config)].value \in Nat \ {0}

VARIABLES
  script,  \* the program: the calls begun so far, by the thread that is ahead
  opened,  \* how many of these calls are omp_file_open_all
  files,   \* the files open after these calls
  at,      \* at[t]: how many of them thread t has begun
  pc,      \* see above
  table,   \* fs_table[0..fs_table_size - 1]
  index,   \* index[t]: loop index of get_fs_from_table
  fs,      \* fs[t]: the FS that t has found (or made)
  fd,      \* fd[k]: the array fs->fd of file k
  active,  \* active[k]: fs->active_threads of file k
  handle,  \* handle[k]: what the program got in *fd
  alive,   \* the FSs that are initialised and not freed
  kernel   \* kernel[d]: the file that descriptor d of the process refers to

program == <<script, opened, files, at>>
memory  == <<fd, active, handle, alive>>
vars    == <<program, pc, table, index, fs, memory, kernel>>

-----------------------------------------------------------------------------
Init ==
  /\ script = <<>> /\ opened = 0 /\ files = {}
  /\ at = [t \in Threads |-> 0]
  /\ pc = [t \in Threads |-> "idle"]
  /\ table = <<>>
  /\ index = [t \in Threads |-> 1]
  /\ fs = [t \in Threads |-> NoFile]
  /\ fd = [k \in Files |-> [t \in Threads |-> Unknown]]
  /\ active = [k \in Files |-> 0]
  /\ handle = [k \in Files |-> Unknown]
  /\ alive = {}
  /\ kernel = [d \in Descriptors |-> NoFile]

(* The team *)

TeamWait == {"o1", "o2", "c1", "c2", "ompc"}

\* Seeded bug: omp_file_open_all has no second barrier for the MASTER.
AfterWaitOnce(t, label) ==
  CASE label = "o1" -> IF t = MASTER THEN "idle" ELSE "look"
    [] label = "c1" -> "look"
    [] label = "c2" -> IF t = MASTER THEN "remove" ELSE "idle"
    [] label = "ompc" -> IF t < active[fs[t]] THEN "base" ELSE "idle"
    [] label = "o2" -> "idle"

\* Where a thread goes from each wait at the team barrier; in a collective call
\* threads that are not active return.
AfterWait(t, label) ==
  CASE label = "o1" -> IF t = MASTER THEN "opened" ELSE "look"
    [] label = "c1" -> "look"
    [] label = "c2" -> IF t = MASTER THEN "remove" ELSE "idle"
    [] label = "ompc" -> IF t < active[fs[t]] THEN "base" ELSE "idle"
    [] label = "o2" -> "idle"

\* __ompc_barrier is one barrier: whatever the others wait there for, the last
\* one to arrive releases everybody.
Arrive(t, label) ==
  pc' = IF \A u \in Threads \ {t} : pc[u] \in TeamWait
        THEN [u \in Threads |-> AfterWait(u, IF u = t THEN label ELSE pc[u])]
        ELSE [pc EXCEPT ![t] = label]

Goto(t, from, to) == pc[t] = from /\ pc' = [pc EXCEPT ![t] = to]

\* The call that t is in, and the file it is about.
CallOf(t) == script[at[t]].call
FileOf(t) == script[at[t]].file

-----------------------------------------------------------------------------
(* The program *)

\* The files the program may use: those it has opened without an error.
Usable == {k \in files : handle[k] # Failed}

\* The calls that make sense after those of the script.
NextCalls ==
  {[call |-> "open", file |-> k] : k \in {opened + 1} \cap Files}
  \cup {[call |-> c, file |-> k] : c \in {"io", "fsync"}, k \in Usable}
  \cup {[call |-> "close", file |-> k] :
          k \in {k \in Usable : AnyOrder \/ \A m \in Usable : m <= k}}

\* Seeded bug: omp_file_close_all does not wait for the team first.
BeginCloseAtOnce(t) == pc' = [pc EXCEPT ![t] = "look"]

BeginClose(t) == Arrive(t, "c1")

\* t enters the library with call c: how far each call gets at once.
Enter(t, c) ==
  /\ at' = [at EXCEPT ![t] = @ + 1]
  /\ CASE c.call = "open" ->
            IF t = MASTER THEN pc' = [pc EXCEPT ![t] = "insert"] ELSE Arrive(t, "o1")
       [] c.call = "close" -> BeginClose(t)
       [] c.call = "io" -> pc' = [pc EXCEPT ![t] = "look"]
       [] c.call = "fsync" ->
            pc' = [pc EXCEPT ![t] = IF t = MASTER THEN "look" ELSE "idle"]
  /\ UNCHANGED <<table, index, fs, memory, kernel>>

\* The thread that is ahead decides what the program does next ...
Lead(t) ==
  /\ pc[t] = "idle" /\ at[t] = Len(script) /\ Len(script) < MaxCalls
  /\ \E c \in NextCalls :
       /\ script' = Append(script, c)
       /\ opened' = IF c.call = "open" THEN opened + 1 ELSE opened
       /\ files' = CASE c.call = "open" -> files \cup {c.file}
                    [] c.call = "close" -> files \ {c.file}
                    [] OTHER -> files
       /\ Enter(t, c)

\* ... and the others make the same calls.
Follow(t) ==
  /\ pc[t] = "idle" /\ at[t] < Len(script)
  /\ Enter(t, script[at[t] + 1])
  /\ UNCHANGED <<script, opened, files>>

-----------------------------------------------------------------------------
(* fs_table.c *)

\* Seeded bug: temp_fs->fd[j] = fd.
CompareAssigned(k, d) == {TRUE}

\* Does the FS hold descriptor d?  Memory that is not initialised may hold it.
Compare(k, d) ==
  IF \E t \in Threads : fd[k][t] = d THEN {TRUE}
  ELSE IF \E t \in Threads : fd[k][t] = Unknown THEN BOOLEAN
  ELSE {FALSE}

AfterLook(t) ==
  CASE CallOf(t) = "open" -> "openfd"
    [] CallOf(t) = "close" -> "closefd"
    [] CallOf(t) = "io" -> "store"
    [] CallOf(t) = "fsync" -> "sync"

\* One round of the loop in get_fs_from_table.  Past the end of the table it
\* returns NULL, on which every caller crashes: no further step.
Look(t) ==
  /\ pc[t] = "look" /\ index[t] <= Len(table)
  /\ LET k == table[index[t]] IN
     \E found \in Compare(k, handle[FileOf(t)]) :
       \/ /\ found
          /\ fs' = [fs EXCEPT ![t] = k]
          /\ index' = [index EXCEPT ![t] = 1]
          /\ pc' = [pc EXCEPT ![t] = AfterLook(t)]
       \/ /\ ~found
          /\ index' = [index EXCEPT ![t] = @ + 1]
          /\ UNCHANGED <<fs, pc>>
  /\ UNCHANGED <<program, table, memory, kernel>>

-----------------------------------------------------------------------------
(* omp_file_open_all *)

\* insert_into_fs_table, straight after malloc.
Insert ==
  /\ Goto(MASTER, "insert", "create")
  /\ table' = Append(table, FileOf(MASTER))
  /\ fs' = [fs EXCEPT ![MASTER] = FileOf(MASTER)]
  /\ UNCHANGED <<program, index, memory, kernel>>

\* Seeded bug: active_threads is not clamped.
ActiveUnclamped(config) == config[LastLine(config)].value

\* read_fs_config, and no more active threads than threads.
ActiveThreads(config) ==
  LET configured == config[LastLine(config)].value
  IN  IF configured > NumThreads THEN NumThreads ELSE configured

\* The process gets its lowest free descriptor.
LowestFree ==
  {d \in Descriptors : kernel[d] = NoFile /\ \A e \in Descriptors : e < d => kernel[e] # NoFile}

OpenResults == LowestFree \cup IF MayFail THEN {Failed} ELSE {}

\* The MASTER fills in the FS and opens the file.  Its loop over the threads
\* sets its own slot of fs->fd to -1 each time, and nobody else's.
Create ==
  LET k == fs[MASTER] IN
  /\ pc[MASTER] = "create"
  /\ \E config \in Configs : active' = [active EXCEPT ![k] = ActiveThreads(config)]
  /\ \E d \in OpenResults :
       /\ handle' = [handle EXCEPT ![k] = d]
       /\ fd' = [fd EXCEPT ![k][MASTER] = d]
       /\ kernel' = [e \in Descriptors |-> IF e = d THEN k ELSE kernel[e]]
  /\ alive' = alive \cup {k}
  /\ Arrive(MASTER, "o1")
  /\ UNCHANGED <<program, table, index, fs>>

\* The others open it too; a slot whose open() fails stays as it is.
OpenFd(t) ==
  /\ pc[t] = "openfd"
  /\ \E d \in OpenResults :
       /\ fd' = IF d = Failed THEN fd ELSE [fd EXCEPT ![fs[t]][t] = d]
       /\ kernel' = [e \in Descriptors |-> IF e = d THEN FileOf(t) ELSE kernel[e]]
  /\ Arrive(t, "o2")
  /\ UNCHANGED <<program, table, index, fs, active, handle, alive>>

\* The MASTER has opened the file already.
AwaitOpened ==
  /\ pc[MASTER] = "opened"
  /\ Arrive(MASTER, "o2")
  /\ UNCHANGED <<program, table, index, fs, memory, kernel>>

-----------------------------------------------------------------------------
(* omp_file_close_all *)

\* Seeded bug: everybody closes the MASTER's descriptor.
FdOfMaster(t) == fd[fs[t]][MASTER]

OwnFd(t) == fd[fs[t]][t]

\* Seeded bug: the team does not meet between closing and freeing.
EndCloseAtOnce(t) == pc' = [pc EXCEPT ![t] = IF t = MASTER THEN "remove" ELSE "idle"]

EndClose(t) == Arrive(t, "c2")

CloseFd(t) ==
  /\ pc[t] = "closefd"
  /\ kernel' = [d \in Descriptors |-> IF d = OwnFd(t) THEN NoFile ELSE kernel[d]]
  /\ EndClose(t)
  /\ UNCHANGED <<program, table, index, fs, memory>>

\* Seeded bug: the entry stays in the table.
AllEntries == table

\* Whatever file is closed, remove_fs_from_table drops the last entry.
AllButLast == SubSeq(table, 1, Len(table) - 1)

Remove ==
  /\ Goto(MASTER, "remove", "free")
  /\ table' = AllButLast
  /\ UNCHANGED <<program, index, fs, memory, kernel>>

Free ==
  /\ Goto(MASTER, "free", "idle")
  /\ alive' = alive \ {fs[MASTER]}
  /\ fd' = [fd EXCEPT ![fs[MASTER]] = [t \in Threads |-> Unknown]]
  /\ UNCHANGED <<program, table, index, fs, active, handle, kernel>>

-----------------------------------------------------------------------------
(* Collective reads and writes, and omp_file_fsync *)

\* The interface stores its arguments in the FS.
Store(t) ==
  /\ pc[t] = "store"
  /\ Arrive(t, "ompc")
  /\ UNCHANGED <<program, table, index, fs, memory, kernel>>

\* Threads waiting at fs->barr of file k, t included.
AtBarr(t, k) == {t} \cup {u \in Threads : pc[u] = "barr" /\ fs[u] = k}

\* access_work_assignment: a slot of fs->fd that holds -1 gets the MASTER's;
\* then the transfers, and the last barrier of _base (CollectiveIO has all).
Transfer(t) ==
  LET k == fs[t] IN
  /\ pc[t] = "base"
  /\ fd' = [fd EXCEPT ![k][t] = IF @ = Failed THEN fd[k][MASTER] ELSE @]
  /\ pc' = IF Cardinality(AtBarr(t, k)) = active[k]
           THEN [u \in Threads |-> IF u \in AtBarr(t, k) THEN "idle" ELSE pc[u]]
           ELSE [pc EXCEPT ![t] = "barr"]
  /\ UNCHANGED <<program, table, index, fs, active, handle, alive, kernel>>

\* The MASTER flushes the descriptors of all threads.
Sync ==
  /\ Goto(MASTER, "sync", "idle")
  /\ UNCHANGED <<program, table, index, fs, memory, kernel>>

-----------------------------------------------------------------------------
MasterStep == Insert \/ Create \/ AwaitOpened \/ Remove \/ Free \/ Sync

ThreadStep(t) ==
  Follow(t) \/ Look(t) \/ OpenFd(t) \/ CloseFd(t) \/ Store(t) \/ Transfer(t)

Terminating ==
  /\ \A t \in Threads : pc[t] = "idle" /\ at[t] = Len(script)
  /\ UNCHANGED vars

Next ==
  \/ MasterStep
  \/ \E t \in Threads : Lead(t) \/ ThreadStep(t)
  \/ Terminating

Spec == Init /\ [][Next]_vars

\* Every thread is scheduled, and makes the calls that another has begun.
FairSpec ==
  /\ Spec
  /\ WF_vars(MasterStep)
  /\ \A t \in Threads : WF_vars(ThreadStep(t))

-----------------------------------------------------------------------------
(* Properties *)

Labels ==
  {"idle", "insert", "create", "look", "openfd", "opened", "closefd", "remove",
   "free", "store", "base", "sync", "barr"} \cup TeamWait

Call == [call : {"open", "close", "io", "fsync"}, file : Files]

Slot == Descriptors \cup {Failed, Unknown}

\* Types of the table of open files, of FS, and of the threads' local variables.
TypeOK ==
  /\ script \in Seq(Call) /\ opened \in 0..Opens /\ files \subseteq Files
  /\ at \in [Threads -> 0..Len(script)]
  /\ pc \in [Threads -> Labels]
  /\ table \in Seq(Files)
  /\ index \in [Threads -> Nat \ {0}]
  /\ fs \in [Threads -> Files \cup {NoFile}]
  /\ fd \in [Files -> [Threads -> Slot]]
  /\ active \in [Files -> 0..NumThreads]
  /\ handle \in [Files -> Slot]
  /\ alive \subseteq Files
  /\ kernel \in [Descriptors -> Files \cup {NoFile}]

\* t is at work on an FS: it has found it, or it is the MASTER that made it.
AtWork(t) ==
  \/ pc[t] \in {"openfd", "opened", "o2", "closefd", "c2", "remove", "free", "store",
               "ompc", "base", "barr", "sync"}
  \/ pc[t] = "o1" /\ t = MASTER

\* get_fs_from_table reads the FSs in the table without a lock while the MASTER
\* takes entries out and frees them: a thread only ever reads an FS that is
\* initialised and not freed, and never falls off the end of the table.
NoUseAfterFree ==
  \A t \in Threads :
    /\ pc[t] = "look" => index[t] \in DOMAIN table /\ table[index[t]] \in alive
    /\ AtWork(t) => fs[t] \in alive

\* omp_io_interfaces.c:12: "the library first has to fetch the fs associated with
\* the calling set of threads by doing a lookup of their f into the global
\* array".  A call works on the FS of the file it was called for.
FindsItsFile == \A t \in Threads : AtWork(t) => fs[t] = FileOf(t)

\* The descriptor in slot u of the FS of t refers to the file of t's call.
Reaches(t, u) ==
  fd[fs[t]][u] \in Descriptors /\ kernel[fd[fs[t]][u]] = FileOf(t)

\* Descriptors are numbers the process uses again: each thread closes and each
\* transfer goes through a descriptor of the file it was called for, never one
\* that was closed and given to another file in the meantime.
ReachesItsFile ==
  \A t \in Threads :
    /\ pc[t] \in {"base", "closefd"} => Reaches(t, t)
    /\ pc[t] = "sync" => \A u \in Threads : Reaches(t, u)

\* __ompc_barrier does not know what a thread waits for: nobody is let through a
\* barrier by threads that wait there in another call.
InStep ==
  \A t, u \in Threads : pc[t] \in TeamWait /\ pc[u] \in TeamWait =>
    at[t] = at[u] /\ pc[t] = pc[u]

\* t can go on only if another thread does: it waits at a barrier, or has made all
\* calls of the program so far.
Waits(t) ==
  \/ pc[t] \in TeamWait \cup {"barr"}
  \/ pc[t] = "idle" /\ at[t] = Len(script)

\* The barrier of a file is made for the clamped active_threads, the team barrier
\* for everybody; a thread may wait at the one while others are already at the
\* other, in a later call.  Not everyone waits on everyone inside a call.
NoDeadlock == (\A t \in Threads : Waits(t)) => \A t \in Threads : pc[t] = "idle"

\* Between two calls the table, the memory and the process hold exactly the open
\* files, each with one descriptor for every thread: nothing is left behind by
\* the files that were closed.
NothingLeft ==
  (\A t \in Threads : pc[t] = "idle" /\ at[t] = Len(script)) =>
    /\ {table[n] : n \in DOMAIN table} = files /\ Len(table) = Cardinality(files)
    /\ alive = files
    /\ \A k \in Files : Cardinality({d \in Descriptors : kernel[d] = k}) =
                          IF k \in files THEN NumThreads ELSE 0

\* Every call of every thread comes to its end: the barrier of the file is made
\* for as many threads as meet there.
EveryCallReturns == \A t \in Threads : pc[t] # "idle" ~> pc[t] = "idle"

\* A file lives from when the MASTER has filled in its FS to when it frees it;
\* a thread is at work on it from when it has found it.
Promise ==
  INSTANCE OpenFiles WITH
    live <- alive,
    about <- [t \in Threads |-> IF at[t] = 0 THEN NoFile ELSE FileOf(t)],
    using <- [t \in Threads |-> IF AtWork(t) THEN fs[t] ELSE NoFile]

ImplementsOpenFiles == Promise!Spec

=============================================================================
