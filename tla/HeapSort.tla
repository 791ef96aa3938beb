------------------------------ MODULE HeapSort ------------------------------
(***************************************************************************)
(* heap_sort.c: sorting an array of arguments by their offsets, in place   *)
(* and one assignment to the array at a time.  The first stage makes a     *)
(* heap of the array, from its last parent down to the root; the second    *)
(* moves the root behind the heap until nothing is left of it.  Between    *)
(* two assignments the array holds one element twice, and the element that *)
(* is on its way is in local variables.                                    *)
(***************************************************************************)
EXTENDS Integers, Sequences, FiniteSets

\* thread_args: one buffer and its place in the file.
ThreadArg == [bufptr : Nat, buflen : Nat, offset : Nat]

VARIABLES
  merged,    \* the array targs, fs->merged_targs for its caller
  phase,     \* none, pick (the outer loop), sift (the inner loop) or sorted
  size,      \* n: the elements before it are the heap
  first,     \* i: the elements from it on are in heap order
  parent,    \* where the element on its way may go
  child,     \* the left child of parent
  held,      \* t, l and of: the element on its way
  original   \* ghost: the array as it was given

heapLocals == <<size, first, parent, child, held>>
heapVars == <<merged, phase, heapLocals, original>>

HeapInit ==
  /\ merged = <<>> /\ original = <<>> /\ phase = "none"
  /\ size = 0 /\ first = 0 /\ parent = 0 /\ child = 0
  /\ held = [bufptr |-> 0, buflen |-> 0, offset |-> 0]

\* targs[x]
At(x) == merged[x + 1]

\* heap_sort is called with the array args, which is not empty: with
\* array_size 0 the unsigned n-- of the second stage wraps around.
StartSort(args) ==
  /\ merged' = args /\ original' = args
  /\ size' = Len(args) /\ first' = Len(args) \div 2
  /\ phase' = IF Len(args) = 1 THEN "sorted" ELSE "pick"
  /\ UNCHANGED <<parent, child, held>>

\* The element at x is taken out, to be pushed down from position `from`.
TakeOut(x, from) ==
  /\ held' = At(x)
  /\ parent' = from /\ child' = 2 * from + 1
  /\ phase' = "sift"

\* First stage: the next parent.
PickParent ==
  /\ phase = "pick" /\ first > 0
  /\ first' = first - 1
  /\ TakeOut(first - 1, first - 1)
  /\ UNCHANGED <<merged, size, original>>

\* Second stage: the last element of the heap makes room for the root.
Extract ==
  /\ phase = "pick" /\ first = 0 /\ size > 1
  /\ size' = size - 1
  /\ TakeOut(size - 1, 0)
  /\ merged' = [merged EXCEPT ![size] = At(0)]
  /\ UNCHANGED <<first, original>>

\* Only the root is left.
Sorted ==
  /\ phase = "pick" /\ first = 0 /\ size = 1
  /\ size' = 0
  /\ phase' = "sorted"
  /\ UNCHANGED <<merged, first, parent, child, held, original>>

\* Seeded bug: the right child is never looked at.
LeftChild == child

LargestChild ==
  IF child + 1 < size /\ At(child + 1).offset > At(child).offset
  THEN child + 1 ELSE child

\* A child is larger: it moves up.
SiftDown ==
  /\ phase = "sift" /\ child < size
  /\ At(LargestChild).offset > held.offset
  /\ merged' = [merged EXCEPT ![parent + 1] = At(LargestChild)]
  /\ parent' = LargestChild /\ child' = 2 * LargestChild + 1
  /\ UNCHANGED <<phase, size, first, held, original>>

\* The element has found its place.
PutBack ==
  /\ phase = "sift"
  /\ child < size => At(LargestChild).offset <= held.offset
  /\ merged' = [merged EXCEPT ![parent + 1] = held]
  /\ phase' = "pick"
  /\ UNCHANGED <<heapLocals, original>>

SortStep == PickParent \/ Extract \/ Sorted \/ SiftDown \/ PutBack

-----------------------------------------------------------------------------
(* Properties *)

\* Types of the variables of heap_sort; the array keeps its length.
HeapTypeOK ==
  /\ merged \in Seq(ThreadArg) /\ original \in Seq(ThreadArg)
  /\ phase \in {"none", "pick", "sift", "sorted"}
  /\ size \in Nat /\ first \in Nat /\ parent \in Nat /\ child \in Nat
  /\ held \in ThreadArg

\* How often v is in array a.
Count(a, v) == Cardinality({x \in DOMAIN a : a[x] = v})

\* Array a holds the elements of b in another order.
IsPermutation(a, b) ==
  DOMAIN a = DOMAIN b /\ \A x \in DOMAIN b : Count(a, b[x]) = Count(b, b[x])

InOrder(a) == \A x, y \in DOMAIN a : x < y => a[x].offset <= a[y].offset

\* heap_sort loses no argument and doubles none, although it copies elements one
\* by one over each other, and it leaves them in the order of their offsets.
SortedPermutation ==
  phase = "sorted" => InOrder(merged) /\ IsPermutation(merged, original)

=============================================================================
