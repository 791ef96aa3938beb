---------------------------- MODULE MCContiguity ----------------------------
(***************************************************************************)
(* Requests for TLC: buffers laid out on a small grid, so that any two of  *)
(* them may or may not be contiguous in memory and in the file.            *)
(***************************************************************************)
EXTENDS Contiguity

Arg(at, len, off) == [bufptr |-> at, buflen |-> len, offset |-> off]

Request(prms, hint, lists) == [prms |-> prms, hint |-> hint, lists |-> lists]

\* Buffers of one length on a grid of that length.
Grid(len, places, offsets) ==
  {Arg(len * p, len, len * o) : p \in places, o \in offsets}

\* Every thread passes one buffer, all of the same length (as test/test.c does).
OneEach(args) == [Threads -> {<<a>> : a \in args}]

EqualBuffers ==
  {Request(p, 0, l) : p \in {ReadAll, WriteAll}, l \in OneEach(Grid(2, 0..2, {0}))}
  \cup {Request(WriteAtAll, 0, l) : l \in OneEach(Grid(2, 0..2, 0..2))}

\* Contiguous buffers of different lengths, with the hint that they are.
Hinted ==
  {Request(WriteAll, 1, [t \in Threads |-> <<Arg(IF t = 0 THEN 0 ELSE 2 * t + 1,
                                                IF t = 0 THEN 3 ELSE 2, 0)>>])}

\* Lists of one or two buffers of one length.
Lists == LET G == Grid(1, 0..1, 0..1) IN {<<a>> : a \in G} \cup {<<a, b>> : a, b \in G}

ManyLists ==
  {Request(p, 0, [t \in Threads |-> IF t = 0 THEN l ELSE k]) :
     p \in ListInterfaces, l \in Lists, k \in {<<Arg(0, 1, 0)>>, <<Arg(1, 1, 0), Arg(3, 1, 1)>>}}

\* Five buffers that go to any places of the file, two of them to the same.
Shuffled ==
  {Request(WriteListAtAll, 0,
     [t \in Threads |-> CASE t = 0 -> <<Arg(0, 1, o[1]), Arg(2, 1, o[2]), Arg(4, 1, o[3])>>
                         [] t = 1 -> <<Arg(6, 1, o[4])>>
                         [] OTHER -> <<Arg(8, 1, o[5])>>]) : o \in [1..5 -> 1..4]}

\* Programs of one call.
Each(requests) == {<<r>> : r \in requests}

\* Calls of different kinds in a row; the buffers of a LIST call are contiguous.
Mixed ==
  LET head == <<Arg(0, 1, 3)>>  next == <<Arg(1, 1, 1)>>  far == <<Arg(5, 1, 4)>>
      of(l, k) == [t \in Threads |-> IF t = 0 THEN l ELSE k]
  IN  {Request(p, 0, of(l, next)) :
         p \in {ReadAll, WriteAll, WriteAtAll}, l \in {head, far}}
      \cup {Request(p, 0, of(head, next)) : p \in {WriteListAll, ReadComListAll}}
      \cup {Request(WriteListAtAll, 0, of(far, next))}

Sequences3 == [1..3 -> Mixed]

\* All kinds of calls on their own, and short sequences of calls.
CallsAndSequences == Each(EqualBuffers \cup Hinted \cup ManyLists \cup Shuffled) \cup Sequences3

\* Buffers of different lengths.
UnequalBuffers ==
  {Request(WriteAll, 0, l) :
     l \in [Threads -> {<<Arg(p, len, 0)>> : p \in 0..3, len \in 1..2}]}

UnequalBufferCalls == Each(UnequalBuffers)

ReadsAtOffsets == {Request(ReadAtAll, 0, l) : l \in OneEach(Grid(1, 0..1, 0..2))}

ReadsAtOffsetsCalls == Each(ReadsAtOffsets)

ManyListsCalls == Each(ManyLists)

=============================================================================
