----------------------------- MODULE Contiguity -----------------------------
(***************************************************************************)
(* The interfaces where every thread passes its own buffer or list of      *)
(* buffers, and the common LIST interfaces: _base merges the arguments,    *)
(* has HeapSort sort them if they carry offsets, and contiguity_analyzer.c *)
(* finds the runs that are contiguous in the file and in memory, each of   *)
(* which becomes one call of work_manager.  The threads transfer blocks    *)
(* while the MASTER is still analyzing.                                    *)
(***************************************************************************)
EXTENDS WorkManager, Interfaces, HeapSort

CONSTANTS
  NumThreads,  \* omp_get_num_threads()
  Programs     \* sequences of requests, each the calls of one program

Threads == 0..(NumThreads - 1)

\* A request: the interface, the hint, and the buffers of each thread (BUF: a
\* list of one).  contiguity_analyzer.c:16: "This function cannot handle an
\* empty buf_store".
Requests == [prms : BufInterfaces \cup ListInterfaces, hint : Int,
             lists : [Threads -> Seq(ThreadArg) \ {<<>>}]]

ASSUME RequestsAssumption ==
  /\ NumThreads \in Nat /\ ActiveThreads \in 1..NumThreads
  /\ Programs \subseteq Seq(Requests) \ {<<>>}
  /\ \A p \in Programs : \A k \in DOMAIN p :
       p[k].prms.input_type = "BUF" => \A t \in Threads : Len(p[k].lists[t]) = 1

VARIABLES
  program, \* the calls the program makes
  calls,   \* how many of them it has begun
  step,    \* idle, merge, sort, analyze or work (all handed over)
  start,   \* index of the first buffer not handed over
  base     \* ghost: where the implicit offsets of this call begin

vars == <<wmVars, heapVars, program, calls, step, start, base>>

\* The call being made; before the first, the first.
req == program[IF calls = 0 THEN 1 ELSE calls]

Init ==
  /\ WorkManagerInit
  /\ HeapInit
  /\ program \in Programs
  /\ step = "idle" /\ calls = 0
  /\ start = 1 /\ base = 0

\* The interface stores the arguments, _base lowers the quit flag.
Call ==
  /\ step = "idle" /\ calls < Len(program)
  /\ step' = "merge" /\ calls' = calls + 1
  /\ base' = Start(program[calls + 1].prms)
  /\ all_quit_flag' = FALSE /\ transferred' = {}
  /\ UNCHANGED <<internal_offset, position, listiopool, nxt_slave, listlen,
                 completed, heapVars, program, start>>

\* merge_args_lists: joined[n] holds the lists of the first n threads.
MergeArgsLists(lists) ==
  LET joined[n \in 0..NumThreads] ==
        IF n = 0 THEN <<>> ELSE joined[n - 1] \o lists[n - 1]
  IN  joined[NumThreads]

\* Common parameters: the MASTER's; else those of all threads in their order.
MergedArgs(r) ==
  IF r.prms.same_prms THEN r.lists[MASTER] ELSE MergeArgsLists(r.lists)

Merge ==
  /\ step = "merge"
  /\ \/ /\ req.prms.merge_type = "ALL"
        /\ StartSort(MergedArgs(req))
        /\ step' = IF phase' = "sorted" THEN "analyze" ELSE "sort"
     \/ /\ req.prms.merge_type = "MEM"
        /\ merged' = MergedArgs(req) /\ phase' = "none"
        /\ step' = "analyze"
        /\ UNCHANGED <<heapLocals, original>>
  /\ start' = 1
  /\ UNCHANGED <<wmVars, program, calls, base>>

Sort ==
  /\ step = "sort"
  /\ SortStep
  /\ step' = IF phase' = "sorted" THEN "analyze" ELSE "sort"
  /\ UNCHANGED <<wmVars, program, calls, start, base>>

\* from and all of the lengths after it.
Total(from, lengths) ==
  LET sum[n \in 0..Len(lengths)] == IF n = 0 THEN from ELSE sum[n - 1] + lengths[n]
  IN  sum[Len(lengths)]

\* total_buflen
SumOfLengths(seq) == Total(0, [n \in DOMAIN seq |-> seq[n].buflen])

\* A single buffer, or buffers the caller's hint declares contiguous.
HandOverAll ==
  /\ step = "analyze"
  /\ Len(merged) = 1 \/ req.hint > 0
  /\ WorkManager(req.prms, merged[1].bufptr, SumOfLengths(merged), merged[1].offset,
                 "FINISH")
  /\ step' = "work"
  /\ start' = Len(merged) + 1
  /\ UNCHANGED <<heapVars, program, calls, base>>

-----------------------------------------------------------------------------
(* contiguity_analyzer.c *)

Adjacent(a, b) == a.bufptr + a.buflen = b.bufptr

AdjacentInFile(a, b) == a.offset + a.buflen = b.offset

\* The indices whose buffer continues in the next one, in memory and in the file.
JoinsNext == {n \in 1..(Len(merged) - 1) : Adjacent(merged[n], merged[n + 1])}

JoinsNextInFile ==
  {n \in 1..(Len(merged) - 1) : AdjacentInFile(merged[n], merged[n + 1])}

\* The first index from `from` on at which a run ends.
RunEnd(from, to, joins) ==
  CHOOSE k \in from..to : (k = to \/ k \notin joins) /\ from..(k - 1) \subseteq joins

\* Seeded bug: with explicit offsets, only memory is looked at.
FileRunEndIgnored == Len(merged)

\* file_offset_contiguity_analyzer; implicit offsets make one run of all.
FileRunEnd ==
  IF req.prms.merge_type = "ALL" THEN RunEnd(start, Len(merged), JoinsNextInFile)
  ELSE Len(merged)

\* Seeded bug: no two buffers are ever joined.
BufRunEndLone == start

\* buffer_contiguity_analyzer, within one run of the file.
BufRunEnd == RunEnd(start, FileRunEnd, JoinsNext)

\* The loop adds the length of the run's first buffer for every buffer but the
\* last one, whose own length is added at the end.
RunLength == (BufRunEnd - start) * merged[start].buflen + merged[BufRunEnd].buflen

\* Seeded bug: the end of every run of the file is taken for the last one.
RunSignalEarly ==
  IF BufRunEnd < FileRunEnd
  THEN IF req.prms.input_type = "BUF" THEN "CONTINUE" ELSE "CONTIG_FILE_BLOCK"
  ELSE "FINISH"

RunSignal ==
  IF BufRunEnd < FileRunEnd
  THEN IF req.prms.input_type = "BUF" THEN "CONTINUE" ELSE "CONTIG_FILE_BLOCK"
  ELSE IF FileRunEnd < Len(merged) THEN "CONTINUE"
  ELSE IF BufRunEnd = start THEN "FINISH" ELSE "CONTIG_AND_FINISH"

\* One call of work_manager: the run that begins at `start`.
HandOverRun ==
  /\ step = "analyze" /\ Len(merged) > 1 /\ req.hint <= 0
  /\ WorkManager(req.prms, merged[start].bufptr, RunLength, merged[start].offset,
                 RunSignal)
  /\ start' = BufRunEnd + 1
  /\ step' = IF BufRunEnd = Len(merged) THEN "work" ELSE "analyze"
  /\ UNCHANGED <<heapVars, program, calls, base>>

-----------------------------------------------------------------------------
(* The threads *)

\* The file position after the first n buffers of a block.
After(block, n) == Total(block.offset, [k \in 1..n |-> block.iov[k].iov_len])

\* _writev and _readv move the buffers of a block one after the other.
ListBytes(block) ==
  UNION {{<<After(block, n - 1) + d, block.iov[n].iov_base + d>> :
            d \in 0..(block.iov[n].iov_len - 1)} : n \in DOMAIN block.iov}

BytesOf(block) ==
  IF req.prms.input_type = "LIST" THEN ListBytes(block) ELSE BufBytes(block)

\* access_work_assignment, in any active thread, while the MASTER goes on.  The
\* lseek and writev of a LIST interface move the descriptor, pwrite does not.
Work(t) ==
  /\ \E k \in DOMAIN listiopool :
       LET block == listiopool[k] IN
       /\ Transfer(t, k, BytesOf(block))
       /\ position' = IF t = MASTER /\ req.prms.input_type = "LIST"
                      THEN After(block, Len(block.iov)) ELSE position
  /\ UNCHANGED <<heapVars, program, calls, step, start, base>>

\* The end of _base.
Return ==
  /\ step = "work"
  /\ FreePool
  /\ step' = "idle"
  /\ UNCHANGED <<heapVars, program, calls, start, base>>

Terminating == step = "idle" /\ calls = Len(program) /\ UNCHANGED vars

Next ==
  \/ Call \/ Merge \/ Sort \/ HandOverAll \/ HandOverRun
  \/ \E t \in Active : Work(t)
  \/ Return
  \/ Terminating

Spec == Init /\ [][Next]_vars

-----------------------------------------------------------------------------
(* Properties *)

\* Types of the state of _base, work_manager.c and heap_sort.c.
TypeOK ==
  /\ WorkManagerTypeOK
  /\ HeapTypeOK
  /\ calls \in 0..Len(program)
  /\ step \in {"idle", "merge", "sort", "analyze", "work"}
  /\ start \in 1..(Len(merged) + 1) /\ base \in Nat

Returned == step = "idle" /\ calls > 0

\* The bytes of the n-th buffer of the sequence a at its place in the file: behind
\* those before it, or at the offset the ioprms say it has.
Bytes(a, n) ==
  LET pos == IF req.prms.merge_type = "ALL" THEN a[n].offset
             ELSE base + SumOfLengths(SubSeq(a, 1, n - 1))
  IN  {<<pos + d, a[n].bufptr + d>> : d \in 0..(a[n].buflen - 1)}

\* What the threads asked for, in the order in which they passed it.
Asked == UNION {Bytes(MergedArgs(req), n) : n \in DOMAIN MergedArgs(req)}

FollowsInFile(r, a, b) == r.prms.merge_type = "ALL" => AdjacentInFile(a, b)

\* A LIST call loses the buffers of a run, n among them, if the file goes on behind
\* the run with a buffer that is somewhere else in memory: the run ends up in the
\* open block of CONTIG_FILE_BLOCK, which gets no thread (AllBuffersMoved).
Stranded(r, a, n) ==
  /\ r.prms.input_type = "LIST" /\ r.hint <= 0
  /\ \E k \in n..(Len(a) - 1) :
       /\ \A x \in n..k : FollowsInFile(r, a[x], a[x + 1])
       /\ ~Adjacent(a[k], a[k + 1])

Lost == UNION {Bytes(merged, n) : n \in {k \in DOMAIN merged : Stranded(req, merged, k)}}

\* Merging, sorting, cutting into runs and dealing them out to threads that work
\* in any order moves nothing but what was asked for, each byte to its place in
\* the file, and all of it but what a LIST call strands.  BUF calls strand nothing.
MovesWhatWasAsked ==
  Returned => transferred \subseteq Asked /\ Asked \subseteq transferred \cup Lost

\* The next implicit offset follows on the data of this call, whichever way it
\* was cut up; a call with explicit offsets does not disturb it.
OffsetFollowsData ==
  Returned =>
    IF req.prms.merge_type = "MEM"
    THEN internal_offset = base + SumOfLengths(MergedArgs(req))
    ELSE internal_offset \in {-1, base}

\* Two runs that could have been one transfer are handed over as one: no block
\* continues the one before it both in memory and in the file.
RunsAreMaximal ==
  req.prms.input_type = "BUF" =>
    \A k \in 1..(Len(listiopool) - 1) :
      LET last == listiopool[k].iov[1]
          next == listiopool[k + 1]
      IN  ~ /\ last.iov_base + last.iov_len = next.iov[1].iov_base
            /\ listiopool[k].offset + last.iov_len = next.offset

\* The quit flag comes with the last run and not before: slaves leave on it.
QuitWithLastRun ==
  step # "idle" => (all_quit_flag <=> step = "work")

\* contiguity_analyzer.c:165: "Call WM for each contig block found".  Every
\* block spans exactly buffers that follow each other in memory.
BlocksAreRuns ==
  \A k \in DOMAIN listiopool : \A n \in DOMAIN listiopool[k].iov :
    \E from, to \in DOMAIN merged :
      /\ merged[from].bufptr = listiopool[k].iov[n].iov_base
      /\ \A x \in from..(to - 1) : Adjacent(merged[x], merged[x + 1])
      /\ listiopool[k].iov[n].iov_len = SumOfLengths(SubSeq(merged, from, to))

\* work_manager.c:222: "add to prev block and set slave".  The block opened by
\* CONTIG_FILE_BLOCK gets a thread, so that all buffers are moved.
AllBuffersMoved ==
  Returned => {b[2] : b \in Asked} \subseteq {b[2] : b \in transferred}

\* pthread_coll_io_base.c:71: "Heap sort if explicit offsets specified".  An
\* interface that takes offsets moves its data there.
MovedToItsOffset ==
  Returned /\ req.prms.offsets =>
    \A n \in DOMAIN MergedArgs(req) :
      LET arg == MergedArgs(req)[n] IN
      arg.buflen > 0 => <<arg.offset, arg.bufptr>> \in transferred

=============================================================================
