# A model of the collective I/O library for OpenMP threads

This directory holds TLA+ specifications of pcollio (`src/src/*.c`), their TLC
runs, and proofs checked by TLAPS.

| | |
|---|---|
| Check one run | `tlc -workers 2 -config SubsetOfTeam.cfg CollectiveIO.tla` |
| Check the proofs of one module | `tlapm CollectiveIO_proofs.tla` |
| Index of runs, mutants, source lines, hazards, findings, theorems | `PROJECT.json` |

## 1. Inventory

A team of OpenMP threads opens a file together and then makes *collective*
calls on it: every thread calls the same function with its own buffer, and the
library turns the buffers into few large transfers that are shared out among
the first `active_threads` threads.

| Component | State | Operations | What makes it correct |
|---|---|---|---|
| Collective interfaces, `omp_io_interfaces.c` | `fs->targs`, `fs->tlist_args` (one slot per thread), `fs->ioprms` | 16 calls: read/write, one buffer or a list, own or common arguments, implicit or explicit offsets | what was asked is moved, once, before anyone returns |
| Team barrier, `ompc_barrier.c` | one global `pthread_barrier_t` | `__ompc_barrier` | nobody's arguments are read before all have stored theirs; nobody is released by a thread that is elsewhere |
| Base, `pthread_coll_io_base.c` | `fs->barr`, `merged_targs`, `all_quit_flag` | `_base` (three barriers), `divide_tasks_sameprms` | phases of a call do not overlap; a common buffer is cut without gap or overlap |
| Contiguity analyzer, `contiguity_analyzer.c` | (local) | runs contiguous in the file, then in memory | a run is exactly its buffers; runs are maximal; FINISH comes with the last |
| Work manager, `work_manager.c` | `listiopool`, `nxt_slave`, `listlen`, `internal_offset` | `work_manager`, `add_to_listiopool`, `incr_slave` | every block has a thread and is counted; shares are balanced; implicit offsets follow the data |
| Thread states, `thread_state_handler.c` | mutex and condition variable per thread | `enter_wait_state`, `invoke_thread`, `invoke_all` | no lost wake-up, no early exit |
| Work assignment, `access_work_assignment.c` | `completed`, `assigned_to` | lock-free walk through the pool | only live blocks, each done by its thread, the walk ends |
| List merge, heap sort, `list_utils.c`, `heap_sort.c` | `merged_targs` | concatenate; sort by offset, in place | a sorted permutation |
| Low-level transfers, `io_functions.c` | file descriptors and their positions | `_pwrite`, `_pread`, `_writev`, `_readv` | all bytes moved, or ERROR; nothing outside the buffer or the range |
| File table, `fs_table.c` | `fs_table[]`, `fs_table_size` | insert, look up, remove | a descriptor finds its FS until it is closed, and never a freed one |
| Open, close, flush, `omp_io_interfaces.c` | the FS, `fs->fd[]`, the descriptors of the process | `omp_file_open_all`, `omp_file_close_all`, `omp_file_fsync` | every thread has a descriptor of the file and closes it once; nothing is left behind |
| Configuration, `fs.config` | `active_threads`, `max_write_block_size`, `plfs` | `read_fs_config` | no more active threads than meet at `fs->barr` |
| Dead or optional | | `stripe_handler.c`, `io_preface.c`, mmap, PLFS, Fortran wrappers, debug counters | |

How they interact. The MASTER (thread 0) puts a new FS into the table, reads
`fs.config`, and opens the file; behind the team barrier the others find the FS
by the MASTER's descriptor and open the file for themselves. All threads share
`FS`. A call looks it up, stores its arguments (interface), waits for the team
(`__ompc_barrier`), and enters `_base` if its number is below `active_threads`;
the others return. The MASTER lowers the quit flag, and behind the first
`fs->barr` merges the arguments, sorts them if they carry offsets, and calls the
work manager once per run, which appends a block to the pool, counts it in
`listlen` and signals its thread; the last call also raises `all_quit_flag` and
signals everyone. Slaves wait on their condition variable, and walk the pool
while the MASTER still appends to it; each block is one low-level transfer.
Behind the second barrier the MASTER frees the pool; behind the third everyone
returns. On closing, the team meets before and after the descriptors are closed,
and the MASTER drops the table's entry and frees the FS while the others are
already in their next call.

What is hard. The flags and counters are written without a lock, and only the
signal is sent under the mutex; the pool is a linked list read while it grows;
`completed`, `listlen`, `nxt_slave` and the flag are reused by the next call;
the group at `fs->barr` is smaller than the team; the table is read without a
lock while the MASTER changes it, by comparing numbers the process reuses; one
barrier serves all calls; several divisions and indices meet at the boundaries
of blocks and runs; `internal_offset` lives across calls of different kinds;
system calls may move less than asked. `PROJECT.json` lists the hazards with
their lines and the properties that watch them.

## 2. Modules

| Module | Models |
|---|---|
| `Collective` | Abstract: what a collective call promises its callers |
| `CollectiveIO` | The concurrency of a call: barriers, mutexes, condition variables, pool, quit flag |
| `WorkManager` | `work_manager.c` and the transfer of one block: shared state and operators |
| `Interfaces` | The `ioprms` of the sixteen interfaces |
| `DivideTasks` | Common BUF calls: `divide_tasks_sameprms`; extends WorkManager |
| `HeapSort` | `heap_sort.c`, one assignment to the array at a time |
| `Contiguity` | All other calls: merge, sort, `contiguity_analyzer.c`; extends WorkManager, Interfaces and HeapSort |
| `OpenFiles` | Abstract: what the table of open files promises a team |
| `FileTable` | `fs_table.c`, opening, closing, flushing, and how every collective call begins and ends |
| `Transfers` | `io_functions.c` at the grain of system calls |
| `MCContiguity`, `MCFileTable` | The requests, and the contents of `fs.config`, that TLC uses |
| `*_proofs` | Theorems: `CollectiveIO_proofs`, `Collective_proofs` (its refinement), `WorkManager_proofs` (lemmas of both planners), `DivideTasks_proofs`, `HeapSort_proofs`, `Contiguity_proofs`, `Transfers_proofs`, `FileTable_proofs` |

Concurrency and data are separate. `CollectiveIO` says that a run ends
*somewhere* and follows every interleaving of the dispatch; `DivideTasks` and
`Contiguity` follow the bytes and let any thread take its next block at any
time a block is counted for it. What the second pair relies on is what the
first establishes: a counted block is done exactly once by its thread
(`NoWorkBehind`, `AllWorkDone`) and the pool is not freed before
(`NoUseAfterFree`). `FileTable` takes the inside of `_base` to be one step and
its last barrier; `Transfers` opens up the one step that a transfer is elsewhere,
and relies on each thread having its own descriptor (`ReachesItsFile`).

### CollectiveIO

`pc[t]` names the next access of thread t to shared memory. One action is one
such access: the build is `gcc -g` without optimisation, so plain loads and
stores happen in program order. On x86 they also become visible in that order,
and the MASTER takes the slave's mutex before each signal; weaker machines are
not modelled. Merged into one step, without loss of interleavings:

- storing the arguments and arriving at `__ompc_barrier` (the slot is the
  thread's own, and the MASTER reads it behind the barrier at the earliest);
- a signal with its lock and unlock: the critical section holds nothing but the
  signal, so it is one step that needs the mutex to be free;
- the last thread's arrival at a barrier and the release of all of it.

Who owns a mutex follows from `pc`. `ioassignments[].status` is left out,
because no live code reads it. A thread's transfers return any value in
`Outcomes`. The ghost `moved` counts how often each argument was transferred,
`failed` remembers threads with a failed transfer.

`Collective` knows only `entered`, `returned` and `moved`. The refinement maps
`calls` to `entered`, takes a thread to have returned when it is idle, and
speaks of the active threads: the others return early by design, and what that
does to their arguments is the subject of `StaleArgs`.

### WorkManager, DivideTasks, HeapSort, Contiguity

A transfer is a set of pairs (file position, memory address). `position` is the
MASTER's file position, which `lseek` in `work_manager` reads and which the
`lseek`/`writev` of a LIST call moves; `MasterPosition` is where the program
left it after opening. A block is transferred in one complete step (`Transfers`
has what happens below that). `HeapSort` keeps heap_sort's locals: the array,
the bounds of the two stages, and the element on its way, which for a while is
in no place of the array. `hint > 0` sends the merged arguments as one block,
whose length is their sum. In `Contiguity` a block of a LIST call may hold
several buffers; a BUF transfer uses the first one only, as the code does. A
program is a sequence of requests, so state that survives a call
(`internal_offset`, `position`, `nxt_slave`, the counters) meets the next one.

### FileTable

All threads make the same calls in the same order, each at its own pace; the
thread that is ahead chooses the next call (`Lead`), the others `Follow`. The
team barrier is modelled as it is: one barrier, whatever its callers wait for.
The process hands out its lowest free descriptor. Memory that nobody has
initialised holds anything, so a lookup that compares with it may go either way
(`Compare`); `Unknown` stands for it, both in a fresh FS and in a freed one. The
FS of the k-th open is k. `MayFail` lets `open()` fail, `AnyOrder` lets the
program close files in any order. Of `fs.config` the model has the lines as keys
and values, the last line with a key wins, and `active_threads` is clamped; how
a line is taken apart is left out. A lookup that falls off the table returns
NULL, on which every caller crashes: such a thread makes no further step, and
`NoUseAfterFree` counts it as wrong already.

`OpenFiles` has the files that live, the file each thread's call is about, and
the file it is at work on: a call works only on its own file and while it
lives, and a file ends with nobody else at work on it.

### Transfers

Each thread transfers through the descriptor of its own number. `pwrite`,
`pread`, `writev` and `readv` move any number of bytes up to what they were
asked for, or fail; `pwrite` moves at least one. The retry loop of `_pwrite`
keeps the number of bytes of the *last* call, and adds that to the buffer
pointer, as the code does. `_writev` and `_readv` are two system calls, of which
the first sets the position.

## 3. Runs

| Run | Question | Expect |
|---|---|---|
| `SubsetOfTeam` | Four threads, three active, two calls: does the dispatch implement `Collective` while the fourth races ahead, and does every call return? | pass |
| `CommonBuffer` | Is a common buffer cut, dealt out and moved exactly? | pass |
| `PlannedCalls` | Is any layout of buffers merged, sorted and cut into maximal runs and moved exactly, also in sequences of mixed calls? | pass |
| `OpenClose` | Does every call find the file it is about, while files are opened and closed around it, and does nothing stay behind? | pass |
| `Transfers` | What do interrupted and failed system calls leave intact? | pass |
| `StaleArgs` | Does the MASTER always merge this call's arguments? | violation |
| `UnsetReturn` | Does every thread return its error code? | violation |
| `UnequalRuns` | Does a block span exactly its run? | violation |
| `OpenBlocks` | Are all buffers of a LIST call moved? | violation |
| `ReadAtOffset` | Does an `_at_` interface move data at the offsets it got? | violation |
| `CloseOrder` | May files be closed in any order? | violation |
| `ShortWrites` | Does SUCCESS of `_pwrite` mean that the buffer is in the file? | violation |

The properties are stated in the modules, each with the code it is about. What
the passing runs show:

- **Dispatch.** `NoLostWakeup`: although `listlen` and `all_quit_flag` are
  written outside the slave's mutex, a slave that sleeps has the MASTER's signal
  still ahead of it. `NoUseAfterFree`, `NoWorkBehind`: a thread in the pool
  stands on a live block and has no block behind it, so it does not spin at the
  tail. `AllWorkDone`, `EverySlotOnce`: everything handed out is done before the
  pool is freed, and every slot of `targs` is handed out once. `NoDeadlock`: the
  four barriers, the mutexes and the condition variables never wait for one
  another in a circle. `Waits(t)` says when only another thread can get `t` any
  further; a spurious wake-up is not counted on as a way out.
  `ImplementsCollective`: to its callers a call is what `Collective` promises.
- **Bytes.** `Tiled`, `WholeBufferMoved`, `MovesWhatWasAsked`,
  `OffsetFollowsData`, `RunsAreMaximal`, `SortedPermutation`.
- **Signals and shares.** `QuitWhenHandedOver`, `NothingAfterQuit`,
  `QuitWithLastRun`, `CountedAreAssigned`, `Balanced`.
- **Files.** `FindsItsFile`, `NoUseAfterFree`: a lookup without a lock ends at
  the right FS, alive, although entries come and go; `ReachesItsFile`: the
  descriptor used or closed belongs to the file of the call, although the
  process reuses numbers; `InStep`: threads that release one another at the team
  barrier are in the same place of the same call; `NoDeadlock`: the team barrier
  and the barriers of the files, which only the active threads meet at, never
  hold everybody up; `NothingLeft`;
  `ImplementsOpenFiles`.
- **Transfers.** `StaysInBuffer`, `WritesItsRange`, `PrefixInPlace`, and
  `OneRetryIsRight`: the retry loop works for one interruption, which is why
  nobody notices that it does not for two.
- **Liveness.** `EveryCallReturns` (of the dispatch, and of the barriers of
  opening and closing), `EveryTransferEnds`.

`MovesWhatWasAsked` holds for BUF and LIST calls, with and without offsets: what
is moved is part of what was asked for, and what was asked for is moved, except
`Lost`. These are the bytes of the buffers that a LIST call strands: a run that
the file continues with a buffer elsewhere in memory goes to the open block,
which gets no thread (the finding of `OpenBlocks`). The run has LIST calls of
several runs that lose nothing, and ones that move some runs and lose others.
`PlannedCalls` uses buffers of one length, as `test/test.c` does
(`UnequalRuns`). For `omp_file_read_at_all` the passing run takes the
interface as its `ioprms` define it (`ReadAtOffset`). `OpenClose` closes the
file opened last first (`CloseOrder`), and in it `open()` succeeds: with a
failed open the entry stays in the table and the next close drops the wrong one,
so `NoUseAfterFree` fails there too (`omp_io_interfaces.c:307`).

### Findings

1. **`StaleArgs`** (`pthread_coll_io_base.c:19`). Threads at or above
   `active_threads` return right after the team barrier. One of them may store
   the arguments of its next call while the MASTER still merges this one. For
   the same reason it returns from a read before its buffer has been filled.
2. **`UnsetReturn`** (`thread_state_handler.c:89`). A thread without a block
   returns an uninitialised `io_bytes`. `ReturnsItsErrorCode` fails in a second
   way: a later success overwrites an earlier failure
   (`access_work_assignment.c:64`).
3. **`UnequalRuns`** (`contiguity_analyzer.c:185`). The length of a run adds
   `merged_targs[i].buflen` instead of `merged_targs[j].buflen`.
4. **`OpenBlocks`** (`work_manager.c:286`). A block opened with
   CONTIG_FILE_BLOCK never gets a thread.
5. **`ReadAtOffset`** (`omp_io_interfaces.c:451`). `omp_file_read_at_all` sets
   `merge_type` to MEM.
6. **`CloseOrder`** (`fs_table.c:38`). `remove_fs_from_table` drops the last
   entry whatever file is closed: closing the first of two files leaves its
   freed FS in the table and loses the one still open.
7. **`ShortWrites`** (`io_functions.c:33`). `_pwrite` adds the bytes of the last
   `pwrite` to the buffer pointer, not the sum: after a second short write it
   writes wrong bytes to the right range and returns SUCCESS.

The comment on `divide_tasks_sameprms` (line 126, "divide the io assignment
equally") is loose rather than violated: a buffer a little longer than a block
gives one thread a whole block and another the little rest.

### Bounds and why they are enough

| Constant | Value | Why |
|---|---|---|
| `NumThreads`/`ActiveThreads` in `SubsetOfTeam` | 4/3 | two slaves and the MASTER interleave; the round robin wraps; one thread races ahead |
| `Calls` in CollectiveIO, DivideTasks | 2 | the second call meets all state the first left behind |
| `Outcomes` | SUCCESS in `SubsetOfTeam`, both in the violations | no branch of the dispatch depends on it |
| `MaxWriteBlockSize`, `BufLens` in `CommonBuffer` | 2; 0 to 5, 8, 9, 10 | empty, below, at and above a block; multiples and not; 9 and 10 reach the branch of equal parts with three threads |
| `Offsets`, `MasterPosition` | {0, 7}, 4 | distinct from each other and from the offset a read starts with |
| `Programs` in `PlannedCalls` | one call on a grid of 3 places and 3 offsets for 3 threads; lists of several buffers; five buffers in any order; sequences of three calls | overlapping, adjacent, apart, in and out of order, in memory and file independently; runs of one, two and three; a heap of three levels; the third call follows a mixture of two kinds |
| `NumThreads`, `Opens`, `MaxCalls` in `OpenClose` | 3, 2, 5 | one file around another and one after another, with a use or a flush between; two threads race while the MASTER frees |
| `Configs` | 2 active; 9 in a line that overrides 1 | fewer than, and more than, the threads there are |
| `Lengths`, `Offsets` in `Transfers` | {0, 3}, {0, 5} | empty; three bytes can be interrupted twice; the two ranges do not meet. `ShortWrites` has {4} |

`Calls`, `MaxCalls`, `Opens`, `BufLens`, `Offsets`, `Lengths` and `Programs` are
the only bounds; no state is cut off otherwise. Deadlock is checked in every
run: `Terminating` is the only step left when all calls have been made. The
steps do not treat threads alike (the MASTER, the round robin), so no symmetry
is used.

### Fairness

`CollectiveIO`'s `FairSpec` asks for weak fairness of each thread: the operating
system runs a runnable thread eventually, and every action of a thread, once
enabled, stays enabled until taken, except that the MASTER may find a mutex
taken. A slave holds its mutex for a bounded number of its own steps, and gives
it up when it sleeps or scans; TLC finds weak fairness to be enough.
`SpuriousWakeup` gets no fairness, and is assumed to happen finitely often: a
slave woken out of the blue for ever would be making steps, but POSIX gives
spurious wake-ups as an exception.

`FileTable`'s `FairSpec` is fair to the MASTER's steps and to each thread's, of
which `Follow` is one: a thread makes the calls that another has begun, because
they are in the program of all. `Lead` gets no fairness; the program may end.

`Transfers`' `FairSpec` is fair to `Continue(t)`, the next system call of a
transfer that has begun. A `pwrite` moves at least one byte; one that returned 0
for ever would keep the loop of the code going for ever.

## 4. Theorems

All theorems hold for every value of the constants that the `ASSUME`s allow:
any number of threads, of active threads, of calls and files; any block size,
buffer lengths and offsets; any program of requests. They rest on the `ASSUME`s
of the modules. Some have hypotheses of their own; they are in the statement, and
the sections below say why they are needed. Theorems about a property that a
finding refutes say under which hypotheses the code does keep it.

**CollectiveIO_proofs.** From `SizesAssumption` and `OutcomesAssumption`. The
inductive invariant is built in layers, each proved with the ones before it:

| Layer | Says | Needed for |
|---|---|---|
| `TypeOK`, `CursorInv` | types; the MASTER's index | everything |
| `PhaseInv` | which labels two threads can be at together, from the barriers | a slave never meets the MASTER of another phase |
| `QuitInv` | the flag is down while work is handed out, up from `invoke_all` to the next call | no slave leaves early |
| `WakeupInv` | `NoLostWakeup` already from the slave's test of the flag on, under its mutex | `NoLostWakeup` alone is not inductive: the slave has tested before it waits |
| `ResetInv` | counters are 0 outside the work | next call starts clean |
| `PoolInv` | when the pool is empty; counted work implies a pool | iterators |
| `IteratorInv` | `NoUseAfterFree` and `NoWorkBehind` | |
| `CountInv` | listlen + (1 while a block is linked but not counted) = completed + blocks in the pool | `AllWorkDone` |
| `SlotInv` | slots before the cursor are in the run or in exactly one block | `EverySlotOnce` |
| `BarrierInv` | at each barrier someone is still missing, and the threads waiting there are of one round | `NoDeadlock` |

For `NoDeadlock` suppose that everyone waits and someone is in a call. If the
active threads are in one call, then either all of them wait at one barrier,
which `BarrierInv` excludes, or slaves wait on their condition variables; by
`NoLostWakeup` and `PhaseInv` the MASTER is then at work, and the mutex it wants
is held by a slave that can go on.

**Collective_proofs.** `CollectiveIsImplemented`: `Spec` implements
`Collective`. On top of those layers `CallInv` says that the active threads are
in one call (`RoundInv`), that what an active thread's slot and the blocks carry
for it is of that call (`ArgsInv`), and that an argument of an active thread has
moved once if its block is done, and not yet if it is still in the run or in the
pool (`MovedInv`). The step that releases the last barrier maps to `Return` of
all active threads, the step that completes a block to `Move` of its active
threads' arguments, the others to `Enter` or to a stutter. From the same
invariant, `MergedArgsOfThisCall` holds if all threads are active: the finding of
`StaleArgs` needs a team larger than `active_threads`, and nothing else.

**WorkManager_proofs.** Lemmas about `work_manager.c` alone, cited by both
planners: types, a block always holds a buffer, `listlen - completed` counts the
blocks a thread has in the pool, and the round robin.

**DivideTasks_proofs.** From `WorkManagerAssumption` and
`DivideTasksAssumption`. `LoopInv` says that what remains is at least
(iterations to come) x (chunk), which follows from the two divisions that set up
the loop (`EnoughForTheLoop`); `QuitInv` that the flag is up exactly when
nothing remains. `OffsetInv` ties the implicit offset to the bytes handed over,
`CountedAreAssigned` the counters to the pool, and with these `BufferIsTiled`
shows that what was moved and what waits is always a prefix of the buffer, and
`WholeBufferIsMoved` that it is all of it when the call returns.
`RoundRobinInv` gives `Balanced`. Every property of the run `CommonBuffer` is
proved.

**HeapSort_proofs.** The array alone is no permutation while an element is on
its way; `Filled`, the array with the held element put back where it may go, is
one, of the array as it was given (`Rearranged`, kept by exchanging two places).
`StageInv`: from `first` on every parent is at least as large as its children,
except at the hole, over which the hole's parent still dominates the hole's
children (`HoleMovesDown`); behind the heap everything is in order and no smaller
than anything in it. The root of a heap is its largest element by descent to the
parent (`RootIsLargest`, by the least element of a set of numbers, since the
induction theorems of the library are out of reach).

**Contiguity_proofs.** From `RequestsAssumption` and `WorkManagerAssumption`.
`Exact` joins the types, `HeapInv`, and `CallInv`: how far the plan of the call
has come, and that the quit flag is up exactly when all is handed over. Proved:
`TypeOK`, `SortedPermutation` (for lists of any length), `QuitWithLastRun`,
`CountedAreAssigned`, `Balanced`. The sums and concatenations are recursive
functions, and their types follow from the least index at which they would fail;
so does what they compute (`ExtentSteps`, `PartExtent`).

The other properties speak of bytes. `Extent(a, n)` is the length of the first
`n` buffers. Buffers that follow each other lie as far apart as their extents
say (`ChainExtents`), so a block over a run moves exactly the bytes its buffers
move one by one (`SpanOfRun`). On that rest, in layers: `ArrayInv`, `PoolInv`
(`merged` holds the arguments of this call, and where the pool is empty),
`OffsetInv` (the next implicit offset lies behind the buffers handed over),
`LastInv` (the last block ends where the last run does, and the next buffer does
not continue it) and `MovedInv` (what has been moved and what waits in the pool
for a thread is what the buffers before `start` have at their places, but for the
stranded ones; a run goes to the open block only if it is stranded,
`RunStranded`). They give `OffsetFollowsData` (with `KeptInv`: a call with explicit
offsets leaves the implicit one alone), `RunsAreMaximal`, `BlocksAreRuns` and
`MovesWhatWasAsked`. If no buffer is stranded (`NoneStranded`), what is moved is
exactly what was asked for (`AllBuffersMovedHolds`), and offsets are honoured
(`MovedToItsOffset`).

Two hypotheses are about the program's requests. `EvenRuns`: the buffers of a
run, but the last one, have one length; otherwise the length of the run is wrong
(`UnequalRuns`, finding 3). `HintsHold`: buffers that the caller's hint declares
contiguous are contiguous; the code does not look at them again. Calls of equal
buffers satisfy `EvenRuns` however they lie (`EqualBuffersRunEvenly`), as those of
`test/test.c` do, and every request of the run `PlannedCalls` satisfies both.
`AllBuffersMoved` needs `NoneStranded` as well (`OpenBlocks`, finding 4), and
`MovedToItsOffset` also that interfaces with offsets merge by them, which
`omp_file_read_at_all` does not (`ReadAtOffset`, finding 5).

**Transfers_proofs.** From `TransfersAssumption`. `ThreadInv` says how far the
loop has come: `offset` and `bytes_remaining` together are the range, and the
buffer pointer is right as long as at most one `pwrite` was short. Every
invariant of the run is proved.

**FileTable_proofs.** From `FileTableAssumption`, in any program, whether or not
`open()` fails. How many team barriers a thread has passed in its call
(`Passed`) and the number there are (`Barriers`) put the threads in order:
a thread that is a call ahead of another has the other at its last stretch,
behind the last barrier (`Ordered`). `InStepHolds` follows: only threads in the
same place of the same call release one another.

The other theorems assume what the run `OpenClose` assumes (`~MayFail`,
`~AnyOrder`), for any number of threads, files and calls. The lockless table is
right only because of where the threads are in the script, so the invariant
`Lifo` says what the state is from there. The script is `Lawful`; the files open
after its first `n` calls are `OpenAfter(script, n)`. What the table holds and
which FSs are alive (`Tabled`, `Living`) is this set at the MASTER's place;
which slots are filled in and which descriptors are open (`Opened`, `Closed`)
depends on the place of each thread. `TableInv`, `RowInv` and `LookInv` tie the
variables to these. By `Ordered`, between the MASTER's place and that of a
thread that looks up a file there are only flushes, so the file is in the table
(`TableWhileLooking`), and every entry before it belongs to a file that all
threads have opened (`Lookable`): its slots are filled in with other
descriptors, and the lookup passes it (`Finds`). Proved from `Lifo`:
`FindsItsFile`, `NoUseAfterFree`, `ReachesItsFile`, `ImplementsOpenFiles`, and,
with `KernelInv` (no descriptor without a slot), `NothingLeft`.

`NoDeadlock` needs `BarrierInv`: someone of the team is not at the team barrier,
and while a thread is in a transfer, all active threads of its file are, with one
of them not yet at the file's barrier. So if everyone waits, nobody is at a file's
barrier, and a thread that is not at the team barrier has made all calls begun so
far; by `Ordered` it cannot have got past the barrier the others wait at.

Without the assumptions: the run `CloseOrder` shows a lookup that goes wrong in a program
that closes its files in another order; and a thread whose `open()` fails leaves
its slot as `malloc` returned it, which a later lookup may take for any
descriptor (`Compare`). `NoDeadlock` needs them too: with `AnyOrder = TRUE`, or
with `MayFail = TRUE`, TLC finds threads of one call at the barriers of different
files, where each waits for the others for ever.

Every invariant and every refinement that a passing run checks is also a theorem.
Only model-checked is liveness, which is out of TLAPS's reach: `EveryCallReturns`
of `CollectiveIO` and of `FileTable`, and `EveryTransferEnds`. `NoDeadlock` is the
safety part of the first two. That `Waits(t)` is when no action of `t` is enabled
is not proved either (`ENABLED` is out of reach); it is read off the guards.

## 5. Mutants

Next to some definitions stands a second one under "Seeded bug": the definition
as a plausible mistake would have it. Replacing the one by the other must break
the property `PROJECT.json` names; no specification uses them otherwise.

## 6. Not modelled, and why

- PLFS (not compiled), `stripe_handler.c`, `io_preface.c` and the memory maps
  (called by no live code), debug counters, Fortran string conversion.
- The parsing of `fs.config`, and a missing one: it leaves `active_threads`,
  `max_write_block_size` and `plfs` uninitialised. Values below 1 are not
  clamped by the code; the assumptions exclude them.
- The size of the team barrier: the program sets it, as `test/test.c` does.
- `ioprms->contig`: set only by the common BUF interfaces, for which it is not
  read.
- `ioprms` itself is written by the MASTER when it enters a call, at a time when
  no active thread is inside the library.
- Failure of `malloc` and of the pthread functions, which the code ignores.
- Empty lists, which `contiguity_analyzer.c:16` excludes, and so a heap sort of
  nothing.
- Programs in which threads make different calls.
- A `pwrite` that returns 0.

## 7. Plan

Done, in this order: `CollectiveIO` with `Collective`; its proofs;
`WorkManager`, `Interfaces`, `DivideTasks`, `Contiguity`; proofs of
`DivideTasks`; `FileTable` with `OpenFiles`; `Transfers`; `HeapSort`; proofs of
`Contiguity`, `HeapSort`, `Transfers`, `FileTable` and of both refinements; proofs
about the bytes of runs and that nobody waits in vain.

Left:

The composition of `Transfers` with the walk through the pool, so that a
short transfer meets the error code that the walk returns.
