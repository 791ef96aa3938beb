----------------------------- MODULE OpenFiles ------------------------------
(***************************************************************************)
(* What the table of open files promises a team of threads: a file lives   *)
(* from one moment to another, a call works on the file it is about and    *)
(* while that file lives, and a file ends with nobody but the thread that  *)
(* ends it at work on it.                                                  *)
(***************************************************************************)
CONSTANTS
  Threads,
  Files,
  NoFile   \* none of them

VARIABLES
  live,   \* the files that are open
  about,  \* about[t]: the file the call of t is about
  using   \* using[t]: the file t is at work on

vars == <<live, about, using>>

Init ==
  /\ live = {}
  /\ about = [t \in Threads |-> NoFile]
  /\ using = [t \in Threads |-> NoFile]

Free(t) == using[t] = NoFile

\* t begins a call about file k.
Ask(t, k) ==
  /\ Free(t)
  /\ about' = [about EXCEPT ![t] = k]
  /\ UNCHANGED <<live, using>>

\* The file of t's call comes to life, and t is at work on it.
Create(t) ==
  /\ Free(t) /\ about[t] \in Files \ live
  /\ live' = live \cup {about[t]}
  /\ using' = [using EXCEPT ![t] = about[t]]
  /\ UNCHANGED about

\* t has found the file of its call.
Find(t) ==
  /\ Free(t) /\ about[t] \in live
  /\ using' = [using EXCEPT ![t] = about[t]]
  /\ UNCHANGED <<live, about>>

\* The threads in T are through with their files.
Leave(T) ==
  /\ using' = [t \in Threads |-> IF t \in T THEN NoFile ELSE using[t]]
  /\ UNCHANGED <<live, about>>

\* t ends the file of its call.
End(t) ==
  /\ using[t] \in live
  /\ \A u \in Threads \ {t} : using[u] # using[t]
  /\ live' = live \ {using[t]}
  /\ using' = [using EXCEPT ![t] = NoFile]
  /\ UNCHANGED about

Next ==
  \/ \E t \in Threads : Create(t) \/ Find(t) \/ End(t) \/ \E k \in Files : Ask(t, k)
  \/ \E T \in SUBSET Threads : Leave(T)

Spec == Init /\ [][Next]_vars

=============================================================================
