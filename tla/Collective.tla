----------------------------- MODULE Collective -----------------------------
(***************************************************************************)
(* What a collective call promises its callers, whatever the machinery     *)
(* behind it: the data of a call moves only after the whole team has       *)
(* entered that call, each thread's data moves exactly once, and nobody    *)
(* returns from a call before all of its data has moved.                   *)
(***************************************************************************)
EXTENDS Integers

CONSTANTS Threads, Calls

Args == Threads \X (1..Calls)

VARIABLES
  entered,   \* entered[t]: calls thread t has entered
  returned,  \* returned[t]: calls thread t has returned from
  moved      \* moved[<<t, k>>]: how often the data t passed to call k moved

vars == <<entered, returned, moved>>

Init ==
  /\ entered = [t \in Threads |-> 0]
  /\ returned = [t \in Threads |-> 0]
  /\ moved = [a \in Args |-> 0]

Enter(t) ==
  /\ returned[t] = entered[t] /\ entered[t] < Calls
  /\ entered' = [entered EXCEPT ![t] = @ + 1]
  /\ UNCHANGED <<returned, moved>>

\* Some threads' data of call k moves.
Move(k, T) ==
  /\ \A t \in Threads : entered[t] = k
  /\ \A t \in T : moved[<<t, k>>] = 0
  /\ moved' = [a \in Args |-> IF a \in T \X {k} THEN 1 ELSE moved[a]]
  /\ UNCHANGED <<entered, returned>>

\* The threads in T return from their call.
Return(T) ==
  /\ \A t \in T : /\ returned[t] < entered[t]
                  /\ \A u \in Threads : moved[<<u, entered[t]>>] = 1
  /\ returned' = [t \in Threads |-> IF t \in T THEN entered[t] ELSE returned[t]]
  /\ UNCHANGED <<entered, moved>>

Next ==
  \/ \E t \in Threads : Enter(t)
  \/ \E k \in 1..Calls, T \in SUBSET Threads : Move(k, T)
  \/ \E T \in SUBSET Threads : Return(T)

Spec == Init /\ [][Next]_vars

=============================================================================
