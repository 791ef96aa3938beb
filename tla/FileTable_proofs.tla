-------------------------- MODULE FileTable_proofs --------------------------
(***************************************************************************)
(* Proofs about FileTable for any number of threads, files and calls.      *)
(* There is only one OpenMP barrier, and it does not know what a thread    *)
(* waits for: that the threads are in step is shown by counting the        *)
(* barriers a thread has passed in its call.  The second half assumes that *)
(* open() never fails and that files are closed in the reverse order of    *)
(* opening them; it shows what the table then holds while every thread is  *)
(* at its own place of the script, and that lookups end at the right file. *)
(***************************************************************************)
EXTENDS FileTable, FiniteSetTheorems, TLAPS

-----------------------------------------------------------------------------
(* Where a thread is in its call *)

\* What a thread can be about to do in a call of kind c.
LabelsIn(t, c) ==
  CASE c = "open"  -> IF t = MASTER THEN {"insert", "create", "o1", "opened", "o2"}
                      ELSE {"o1", "look", "openfd", "o2"}
    [] c = "close" -> {"c1", "look", "closefd", "c2"}
                      \cup IF t = MASTER THEN {"remove", "free"} ELSE {}
    [] c = "io"    -> {"look", "store", "ompc", "base", "barr"}
    [] c = "fsync" -> IF t = MASTER THEN {"look", "sync"} ELSE {}

\* p and a are what pc and at are, or will be, and s what the script is.
Inside(p, a, s) ==
  \A t \in Threads : p[t] # "idle" =>
    a[t] \in 1..Len(s) /\ p[t] \in LabelsIn(t, s[a[t]].call)

\* The team barriers that a thread has passed in a call, and all of that call.
Passed(label, c) ==
  CASE c = "open"  -> IF label \in {"insert", "create", "o1"} THEN 0
                      ELSE IF label = "idle" THEN 2 ELSE 1
    [] c = "close" -> IF label = "c1" THEN 0
                      ELSE IF label \in {"look", "closefd", "c2"} THEN 1 ELSE 2
    [] c = "io"    -> IF label \in {"look", "store", "ompc"} THEN 0 ELSE 1
    [] c = "fsync" -> 0

Barriers(c) ==
  CASE c = "open" -> 2 [] c = "close" -> 2 [] c = "io" -> 1 [] c = "fsync" -> 0

\* A thread in an earlier call than another has passed all its barriers, the
\* other none in its call, and no call in between has one; two threads in one call
\* have passed equally many.
Ahead(p, a, s, t, u) ==
  a[t] < a[u] =>
    /\ a[t] > 0 => Passed(p[t], s[a[t]].call) = Barriers(s[a[t]].call)
    /\ Passed(p[u], s[a[u]].call) = 0
    /\ \A n \in 1..Len(s) : a[t] < n /\ n < a[u] => s[n].call = "fsync"

Abreast(p, a, s, t, u) ==
  a[t] = a[u] /\ a[t] > 0 => Passed(p[t], s[a[t]].call) = Passed(p[u], s[a[u]].call)

Together(p, a, s) ==
  \A t, u \in Threads : Ahead(p, a, s, t, u) /\ Abreast(p, a, s, t, u)

\* The types of what these are about.
Program(p, a, s) ==
  /\ s \in Seq(Call) /\ a \in [Threads -> 0..Len(s)] /\ p \in [Threads -> Labels]

-----------------------------------------------------------------------------
(* Moving on in a call *)

\* The n-th call of the script.
LEMMA CallFacts ==
  ASSUME NEW s \in Seq(Call), NEW n \in 1..Len(s)
  PROVE  s[n] \in Call /\ s[n].call \in {"open", "close", "io", "fsync"} /\ s[n].file \in Files
<1>1. s[n] \in Call
  OBVIOUS
<1> QED BY <1>1 DEF Call

\* A thread that is back has passed all barriers of its call, one that waits at a
\* barrier has not.
LEMMA PassedFacts ==
  ASSUME NEW c \in {"open", "close", "io", "fsync"}
  PROVE  /\ Passed("idle", c) = Barriers(c)
         /\ Barriers(c) = 0 => c = "fsync"
         /\ c = "fsync" => Barriers(c) = 0 /\ \A label : Passed(label, c) = 0
         /\ \A t : \A label \in LabelsIn(t, c) \cap TeamWait :
              Passed(label, c) # Barriers(c)
BY DEF Passed, Barriers, LabelsIn, TeamWait

\* Two threads at barriers of one call that have passed equally many are at the
\* same barrier.
LEMMA SameBarrier ==
  ASSUME NEW c \in {"open", "close", "io", "fsync"}, NEW t, NEW u,
         NEW l \in LabelsIn(t, c) \cap TeamWait, NEW m \in LabelsIn(u, c) \cap TeamWait,
         Passed(l, c) = Passed(m, c)
  PROVE  l = m
BY DEF Passed, LabelsIn, TeamWait

\* Threads that wait at the team barrier wait there in one call, at one place.
LEMMA WaitTogether ==
  ASSUME NEW p, NEW a, NEW s, Program(p, a, s), Inside(p, a, s), Together(p, a, s),
         NEW t \in Threads, NEW u \in Threads, p[t] \in TeamWait, p[u] \in TeamWait
  PROVE  a[t] = a[u] /\ p[t] = p[u]
<1>1. ASSUME NEW v \in Threads, p[v] \in TeamWait
      PROVE  /\ a[v] \in 1..Len(s) /\ p[v] \in LabelsIn(v, s[a[v]].call)
             /\ s[a[v]].call \in {"open", "close", "io", "fsync"}
             /\ Passed(p[v], s[a[v]].call) # Barriers(s[a[v]].call)
  <2>1. a[v] \in 1..Len(s) /\ p[v] \in LabelsIn(v, s[a[v]].call)
    BY <1>1 DEF Inside, TeamWait
  <2>2. s[a[v]].call \in {"open", "close", "io", "fsync"}
    BY <2>1, CallFacts DEF Program
  <2> QED BY <1>1, <2>1, <2>2, PassedFacts
<1>2. ~(a[t] < a[u]) /\ ~(a[u] < a[t])
  BY <1>1 DEF Together, Ahead
<1>3. a[t] = a[u]
  BY <1>1, <1>2
<1>4. Passed(p[t], s[a[t]].call) = Passed(p[u], s[a[t]].call)
  BY <1>1, <1>3 DEF Together, Abreast
<1> QED BY <1>1, <1>3, <1>4, SameBarrier

\* q is what p becomes when threads go on without passing a barrier.
GoesOn(p, q, a, s) ==
  \A t \in Threads :
    \/ q[t] = p[t]
    \/ /\ a[t] \in 1..Len(s)
       /\ q[t] = "idle" \/ q[t] \in LabelsIn(t, s[a[t]].call)
       /\ Passed(q[t], s[a[t]].call) = Passed(p[t], s[a[t]].call)

LEMMA GoingOn ==
  ASSUME NEW p, NEW q \in [Threads -> Labels], NEW a, NEW s,
         Program(p, a, s), Inside(p, a, s), Together(p, a, s), GoesOn(p, q, a, s)
  PROVE  Program(q, a, s) /\ Inside(q, a, s) /\ Together(q, a, s)
<1>1. \A t \in Threads : a[t] > 0 =>
        Passed(q[t], s[a[t]].call) = Passed(p[t], s[a[t]].call)
  BY DEF GoesOn
<1>2. \A t \in Threads : a[t] \in Nat
  BY DEF Program
<1>3. Inside(q, a, s)
  BY DEF Inside, GoesOn
<1>4. Together(q, a, s)
  <2> SUFFICES ASSUME NEW t \in Threads, NEW u \in Threads
               PROVE  Ahead(q, a, s, t, u) /\ Abreast(q, a, s, t, u)
    BY DEF Together
  <2>1. Ahead(p, a, s, t, u) /\ Abreast(p, a, s, t, u)
    BY DEF Together
  <2>2. Ahead(q, a, s, t, u)
    BY <1>1, <1>2, <2>1 DEF Ahead
  <2>3. Abreast(q, a, s, t, u)
    BY <1>1, <1>2, <2>1 DEF Abreast
  <2> QED BY <2>2, <2>3
<1> QED BY <1>3, <1>4 DEF Program

\* The last thread at the barrier lets all of them through.
LEMMA Released ==
  ASSUME NEW p, NEW q, NEW a, NEW s,
         Program(p, a, s), Inside(p, a, s), Together(p, a, s),
         \A t \in Threads : p[t] \in TeamWait,
         q = [t \in Threads |-> AfterWait(t, p[t])]
  PROVE  Program(q, a, s) /\ Inside(q, a, s) /\ Together(q, a, s)
<1>1. \A t, u \in Threads : a[t] = a[u] /\ p[t] = p[u]
  BY WaitTogether
<1>2. \A t \in Threads : /\ a[t] \in 1..Len(s) /\ p[t] \in LabelsIn(t, s[a[t]].call)
                         /\ s[a[t]].call \in {"open", "close", "io", "fsync"}
  <2> SUFFICES ASSUME NEW t \in Threads
               PROVE  /\ a[t] \in 1..Len(s) /\ p[t] \in LabelsIn(t, s[a[t]].call)
                      /\ s[a[t]].call \in {"open", "close", "io", "fsync"}
    OBVIOUS
  <2>1. a[t] \in 1..Len(s) /\ p[t] \in LabelsIn(t, s[a[t]].call)
    BY DEF Inside, TeamWait
  <2> QED BY <2>1, CallFacts DEF Program
<1>3. \A t \in Threads : /\ q[t] = "idle" \/ q[t] \in LabelsIn(t, s[a[t]].call)
                         /\ q[t] \in Labels
  BY <1>2 DEF AfterWait, LabelsIn, Labels, TeamWait
<1>4. \A t, u \in Threads : Passed(q[t], s[a[t]].call) = Passed(q[u], s[a[t]].call)
  <2> SUFFICES ASSUME NEW t \in Threads, NEW u \in Threads
               PROVE  Passed(q[t], s[a[t]].call) = Passed(q[u], s[a[t]].call)
    OBVIOUS
  <2>1. p[t] = p[u] /\ p[t] \in TeamWait
    BY <1>1
  <2>2. p[t] \in LabelsIn(t, s[a[t]].call) /\ s[a[t]].call \in {"open", "close", "io", "fsync"}
    BY <1>2
  <2> QED BY <2>1, <2>2 DEF AfterWait, LabelsIn, TeamWait, Passed
<1>5. Program(q, a, s)
  BY <1>3 DEF Program
<1>6. Inside(q, a, s)
  BY <1>2, <1>3 DEF Inside
<1>7. Together(q, a, s)
  BY <1>1, <1>2, <1>4 DEF Together, Ahead, Abreast
<1> QED BY <1>5, <1>6, <1>7

\* A thread that is back begins the next call.
LEMMA Entered ==
  ASSUME NEW p, NEW a, NEW s, NEW t \in Threads, NEW label \in Labels,
         Program(p, a, s), Inside(p, a, s), Together(p, a, s),
         p[t] = "idle", a[t] < Len(s),
         label = "idle" \/ label \in LabelsIn(t, s[a[t] + 1].call),
         Passed(label, s[a[t] + 1].call) = 0
  PROVE  LET q == [p EXCEPT ![t] = label]
             b == [a EXCEPT ![t] = a[t] + 1]
         IN  Program(q, b, s) /\ Inside(q, b, s) /\ Together(q, b, s)
<1> DEFINE q == [p EXCEPT ![t] = label]
           b == [a EXCEPT ![t] = a[t] + 1]
<1>1. /\ p \in [Threads -> Labels] /\ a \in [Threads -> 0..Len(s)] /\ s \in Seq(Call)
      /\ Len(s) \in Nat
  BY DEF Program
<1>2. /\ q \in [Threads -> Labels] /\ b \in [Threads -> 0..Len(s)]
      /\ q[t] = label /\ b[t] = a[t] + 1 /\ b[t] \in 1..Len(s)
      /\ \A u \in Threads \ {t} : q[u] = p[u] /\ b[u] = a[u]
  BY <1>1
<1> HIDE DEF q, b
<1>3. Inside(q, b, s)
  BY <1>1, <1>2 DEF Inside
<1>4. \A n \in 1..Len(s) : s[n].call \in {"open", "close", "io", "fsync"}
  BY <1>1, CallFacts
<1>5. a[t] > 0 => Passed(p[t], s[a[t]].call) = Barriers(s[a[t]].call)
  BY <1>1, <1>4, PassedFacts
<1>6. ASSUME NEW u \in Threads \ {t} PROVE Ahead(q, b, s, u, t) /\ Abreast(q, b, s, u, t)
  <2>1. Ahead(p, a, s, u, t) /\ Abreast(p, a, s, u, t) /\ Ahead(p, a, s, t, u)
    BY DEF Together
  <2>2. Passed(q[t], s[b[t]].call) = 0
    BY <1>2
  <2>3. ASSUME a[u] < a[t] + 1
        PROVE  /\ a[u] > 0 => Passed(p[u], s[a[u]].call) = Barriers(s[a[u]].call)
               /\ \A n \in 1..Len(s) : a[u] < n /\ n < a[t] + 1 => s[n].call = "fsync"
    <3>1. CASE a[u] = a[t]
      BY <1>1, <1>5, <2>1, <3>1 DEF Abreast
    <3>2. CASE a[u] < a[t]
      <4>1. Barriers(s[a[t]].call) = 0
        BY <1>1, <1>5, <2>1, <3>2 DEF Ahead
      <4>2. s[a[t]].call = "fsync"
        BY <1>1, <1>4, <3>2, <4>1, PassedFacts
      <4> QED BY <1>1, <2>1, <3>2, <4>2 DEF Ahead
    <3> QED BY <1>1, <2>3, <3>1, <3>2
  <2>4. Ahead(q, b, s, u, t)
    BY <1>2, <2>2, <2>3 DEF Ahead
  <2>5. Abreast(q, b, s, u, t)
    BY <1>1, <1>2, <2>1, <2>2 DEF Ahead, Abreast
  <2> QED BY <2>4, <2>5
<1>7. ASSUME NEW u \in Threads \ {t} PROVE Ahead(q, b, s, t, u) /\ Abreast(q, b, s, t, u)
  <2>1. Ahead(p, a, s, t, u)
    BY DEF Together
  <2>2. Abreast(q, b, s, t, u)
    BY <1>2, <1>6 DEF Abreast
  <2>3. ASSUME a[t] + 1 < a[u]
        PROVE  Passed(label, s[a[t] + 1].call) = Barriers(s[a[t] + 1].call)
    <3>1. s[a[t] + 1].call = "fsync"
      BY <1>1, <2>1, <2>3 DEF Ahead
    <3>2. Barriers(s[a[t] + 1].call) = 0
      BY <3>1 DEF Barriers
    <3> QED BY <3>2
  <2>4. Ahead(q, b, s, t, u)
    BY <1>1, <1>2, <2>1, <2>3 DEF Ahead
  <2> QED BY <2>2, <2>4
<1>8. Ahead(q, b, s, t, t) /\ Abreast(q, b, s, t, t)
  BY <1>2 DEF Ahead, Abreast
<1>9. ASSUME NEW u \in Threads \ {t}, NEW v \in Threads \ {t}
      PROVE  Ahead(q, b, s, u, v) /\ Abreast(q, b, s, u, v)
  <2>1. Ahead(p, a, s, u, v) /\ Abreast(p, a, s, u, v)
    BY DEF Together
  <2> QED BY <1>2, <2>1 DEF Ahead, Abreast
<1>10. Together(q, b, s)
  BY <1>6, <1>7, <1>8, <1>9 DEF Together
<1>11. Program(q, b, s)
  BY <1>1, <1>2 DEF Program
<1> QED BY <1>3, <1>10, <1>11 DEF q, b

\* The thread that is ahead adds a call to the script.
LEMMA Extended ==
  ASSUME NEW p, NEW a, NEW s, NEW c \in Call,
         Program(p, a, s), Inside(p, a, s), Together(p, a, s)
  PROVE  LET r == Append(s, c) IN Program(p, a, r) /\ Inside(p, a, r) /\ Together(p, a, r)
<1> DEFINE r == Append(s, c)
<1>1. /\ s \in Seq(Call) /\ a \in [Threads -> 0..Len(s)] /\ Len(s) \in Nat
  BY DEF Program
<1>2. r \in Seq(Call) /\ Len(r) = Len(s) + 1 /\ \A n \in 1..Len(s) : r[n] = s[n]
  BY <1>1
<1> HIDE DEF r
<1>3. Program(p, a, r)
  BY <1>1, <1>2 DEF Program
<1>4. Inside(p, a, r)
  BY <1>1, <1>2 DEF Inside
<1>5. Together(p, a, r)
  <2> SUFFICES ASSUME NEW t \in Threads, NEW u \in Threads
               PROVE  Ahead(p, a, r, t, u) /\ Abreast(p, a, r, t, u)
    BY DEF Together
  <2>1. Ahead(p, a, s, t, u) /\ Abreast(p, a, s, t, u)
    BY DEF Together
  <2>2. a[t] \in 0..Len(s) /\ a[u] \in 0..Len(s)
    BY <1>1
  <2>3. (a[t] > 0 => r[a[t]] = s[a[t]]) /\ (a[u] > 0 => r[a[u]] = s[a[u]])
    BY <1>1, <1>2, <2>2
  <2>4. \A n \in 1..Len(r) : n < a[u] => n \in 1..Len(s) /\ r[n] = s[n]
    BY <1>1, <1>2, <2>2
  <2>5. Ahead(p, a, r, t, u)
    BY <2>1, <2>2, <2>3, <2>4 DEF Ahead
  <2>6. Abreast(p, a, r, t, u)
    BY <2>1, <2>2, <2>3 DEF Abreast
  <2> QED BY <2>5, <2>6
<1> QED BY <1>3, <1>4, <1>5 DEF r

-----------------------------------------------------------------------------
(* The steps *)

Ordered ==
  Program(pc, at, script) /\ Inside(pc, at, script) /\ Together(pc, at, script)

\* A thread arrives at the team barrier; q is where all are before it lets go.
LEMMA Arrival ==
  ASSUME NEW t \in Threads, NEW label \in TeamWait, NEW q, Arrive(t, label),
         pc \in [Threads -> Labels], q = [pc EXCEPT ![t] = label],
         Program(q, at', script'), Inside(q, at', script'), Together(q, at', script')
  PROVE  Ordered'
<1>1. q[t] = label /\ \A u \in Threads \ {t} : q[u] = pc[u]
  OBVIOUS
<1>2. CASE \A u \in Threads \ {t} : pc[u] \in TeamWait
  <2>1. \A u \in Threads : q[u] \in TeamWait
    BY <1>1, <1>2
  <2>2. pc' = [u \in Threads |-> AfterWait(u, q[u])]
    BY <1>1, <1>2 DEF Arrive
  <2> QED BY <2>1, <2>2, Released DEF Ordered
<1>3. CASE ~\A u \in Threads \ {t} : pc[u] \in TeamWait
  <2>1. pc' = q
    BY <1>3 DEF Arrive
  <2> QED BY <2>1 DEF Ordered
<1> QED BY <1>2, <1>3

\* A thread in a call arrives at the barrier that is next in it.
LEMMA ArrivesInCall ==
  ASSUME NEW t \in Threads, NEW label \in TeamWait, Arrive(t, label), Ordered,
         pc[t] # "idle", UNCHANGED <<at, script>>,
         label \in LabelsIn(t, CallOf(t)),
         Passed(label, CallOf(t)) = Passed(pc[t], CallOf(t))
  PROVE  Ordered'
<1> DEFINE q == [pc EXCEPT ![t] = label]
<1>1. pc \in [Threads -> Labels] /\ label \in Labels
  BY DEF Ordered, Program, Labels
<1>2. q \in [Threads -> Labels] /\ q[t] = label /\ \A u \in Threads \ {t} : q[u] = pc[u]
  BY <1>1
<1>3. at[t] \in 1..Len(script)
  BY DEF Ordered, Inside
<1> HIDE DEF q
<1>4. GoesOn(pc, q, at, script)
  BY <1>2, <1>3 DEF GoesOn, CallOf
<1>5. Program(q, at, script) /\ Inside(q, at, script) /\ Together(q, at, script)
  BY <1>2, <1>4, GoingOn DEF Ordered
<1>6. q = [pc EXCEPT ![t] = label]
  BY DEF q
<1> QED BY <1>1, <1>5, <1>6, Arrival

\* A thread in a call moves on without a barrier.
LEMMA MovesInCall ==
  ASSUME NEW t \in Threads, NEW label \in Labels, pc' = [pc EXCEPT ![t] = label],
         Ordered, pc[t] # "idle", UNCHANGED <<at, script>>,
         label = "idle" \/ label \in LabelsIn(t, CallOf(t)),
         Passed(label, CallOf(t)) = Passed(pc[t], CallOf(t))
  PROVE  Ordered'
<1>1. pc \in [Threads -> Labels]
  BY DEF Ordered, Program
<1>2. pc' \in [Threads -> Labels] /\ pc'[t] = label /\ \A u \in Threads \ {t} : pc'[u] = pc[u]
  BY <1>1
<1>3. at[t] \in 1..Len(script)
  BY DEF Ordered, Inside
<1>4. GoesOn(pc, pc', at, script)
  BY <1>2, <1>3 DEF GoesOn, CallOf
<1> QED BY <1>2, <1>4, GoingOn DEF Ordered

\* A thread begins the call that script has for it next.
LEMMA EnterStep ==
  ASSUME NEW t \in Threads, NEW s, Program(pc, at, s), Inside(pc, at, s),
         Together(pc, at, s), script' = s, pc[t] = "idle", at[t] < Len(s),
         Enter(t, s[at[t] + 1])
  PROVE  Ordered'
<1> DEFINE c == s[at[t] + 1].call
<1>1. /\ pc \in [Threads -> Labels] /\ s \in Seq(Call)
      /\ at \in [Threads -> 0..Len(s)] /\ Len(s) \in Nat
  BY DEF Program
<1>2. at[t] + 1 \in 1..Len(s)
  BY <1>1
<1>3. c \in {"open", "close", "io", "fsync"}
  BY <1>1, <1>2, CallFacts
<1>4. at' = [at EXCEPT ![t] = @ + 1]
  BY DEF Enter
<1>5. ASSUME NEW label \in Labels, label = "idle" \/ label \in LabelsIn(t, c),
             Passed(label, c) = 0, NEW q, q = [pc EXCEPT ![t] = label]
      PROVE  Program(q, at', s) /\ Inside(q, at', s) /\ Together(q, at', s)
  <2>1. at' = [at EXCEPT ![t] = at[t] + 1]
    BY <1>4
  <2> HIDE DEF c
  <2>2. label = "idle" \/ label \in LabelsIn(t, s[at[t] + 1].call)
    BY <1>5 DEF c
  <2>3. Passed(label, s[at[t] + 1].call) = 0
    BY <1>5 DEF c
  <2> DEFINE b == [at EXCEPT ![t] = at[t] + 1]
  <2>4. Program([pc EXCEPT ![t] = label], b, s) /\ Inside([pc EXCEPT ![t] = label], b, s)
        /\ Together([pc EXCEPT ![t] = label], b, s)
    BY <1>5, <2>2, <2>3, Entered
  <2>5. b = at'
    BY <2>1
  <2> HIDE DEF b
  <2> QED BY <1>5, <2>4, <2>5
<1>6. ASSUME NEW label \in Labels, label = "idle" \/ label \in LabelsIn(t, c),
             Passed(label, c) = 0, pc' = [pc EXCEPT ![t] = label]
      PROVE  Ordered'
  BY <1>5, <1>6 DEF Ordered
<1>7. ASSUME NEW label \in TeamWait, label \in LabelsIn(t, c), Passed(label, c) = 0,
             Arrive(t, label)
      PROVE  Ordered'
  <2> DEFINE q == [pc EXCEPT ![t] = label]
  <2>0. label \in Labels
    BY DEF Labels
  <2> HIDE DEF c
  <2>1. q = [pc EXCEPT ![t] = label]
    OBVIOUS
  <2> HIDE DEF q
  <2>2. Program(q, at', s) /\ Inside(q, at', s) /\ Together(q, at', s)
    BY <1>5, <1>7, <2>0, <2>1
  <2> QED BY <1>1, <1>7, <2>1, <2>2, Arrival
<1>8. CASE c = "open"
  <2>1. CASE t = MASTER
    <3>1. pc' = [pc EXCEPT ![t] = "insert"]
      BY <1>8, <2>1 DEF Enter
    <3>2. "insert" \in Labels /\ "insert" \in LabelsIn(t, c) /\ Passed("insert", c) = 0
      BY <1>8, <2>1 DEF Labels, LabelsIn, Passed
    <3> HIDE DEF c
    <3> QED BY <1>6, <3>1, <3>2
  <2>2. CASE t # MASTER
    <3>1. Arrive(t, "o1")
      BY <1>8, <2>2 DEF Enter
    <3>2. "o1" \in TeamWait /\ "o1" \in LabelsIn(t, c) /\ Passed("o1", c) = 0
      BY <1>8, <2>2 DEF TeamWait, LabelsIn, Passed
    <3> HIDE DEF c
    <3> QED BY <1>7, <3>1, <3>2
  <2> QED BY <2>1, <2>2
<1>9. CASE c = "close"
  <2>1. Arrive(t, "c1")
    BY <1>9 DEF Enter, BeginClose
  <2>2. "c1" \in TeamWait /\ "c1" \in LabelsIn(t, c) /\ Passed("c1", c) = 0
    BY <1>9 DEF TeamWait, LabelsIn, Passed
  <2> HIDE DEF c
  <2> QED BY <1>7, <2>1, <2>2
<1>10. CASE c = "io"
  <2>1. pc' = [pc EXCEPT ![t] = "look"]
    BY <1>10 DEF Enter
  <2>2. "look" \in Labels /\ "look" \in LabelsIn(t, c) /\ Passed("look", c) = 0
    BY <1>10 DEF Labels, LabelsIn, Passed
  <2> HIDE DEF c
  <2> QED BY <1>6, <2>1, <2>2
<1>11. CASE c = "fsync"
  <2> DEFINE first == IF t = MASTER THEN "look" ELSE "idle"
  <2>1. pc' = [pc EXCEPT ![t] = first]
    BY <1>11 DEF Enter
  <2>2. /\ first \in Labels
        /\ first = "idle" \/ first \in LabelsIn(t, c)
        /\ Passed(first, c) = 0
    BY <1>11 DEF Labels, LabelsIn, Passed
  <2> HIDE DEF c, first
  <2> QED BY <1>6, <2>1, <2>2
<1> QED BY <1>3, <1>8, <1>9, <1>10, <1>11

\* What one thread does to all the rest: its own next label, or the barrier's.
LEMMA OrderedStep ==
  ASSUME Ordered, opened \in 0..Opens, files \subseteq Files, [Next]_vars
  PROVE  Ordered'
<1>0. /\ pc \in [Threads -> Labels] /\ at \in [Threads -> 0..Len(script)]
      /\ script \in Seq(Call) /\ MASTER \in Threads
  BY FileTableAssumption DEF Ordered, Program, MASTER, Threads
<1>in. ASSUME NEW t \in Threads, pc[t] # "idle"
       PROVE  /\ at[t] \in 1..Len(script) /\ pc[t] \in LabelsIn(t, CallOf(t))
              /\ CallOf(t) \in {"open", "close", "io", "fsync"}
  <2>1. at[t] \in 1..Len(script) /\ pc[t] \in LabelsIn(t, CallOf(t))
    BY <1>in DEF Ordered, Inside, CallOf
  <2> QED BY <1>0, <2>1, CallFacts DEF CallOf
<1>1. CASE Insert
  <2>1. pc[MASTER] = "insert" /\ pc' = [pc EXCEPT ![MASTER] = "create"] /\ UNCHANGED <<at, script>>
    BY <1>1 DEF Insert, Goto, program
  <2>2. /\ "create" \in LabelsIn(MASTER, CallOf(MASTER)) /\ "create" \in Labels
        /\ Passed("create", CallOf(MASTER)) = Passed(pc[MASTER], CallOf(MASTER))
    BY <1>0, <1>in, <2>1 DEF LabelsIn, Labels, Passed
  <2> QED BY <1>0, <2>1, <2>2, MovesInCall
<1>2. CASE Create
  <2>1. pc[MASTER] = "create" /\ Arrive(MASTER, "o1") /\ UNCHANGED <<at, script>>
    BY <1>2 DEF Create, program
  <2>2. /\ "o1" \in LabelsIn(MASTER, CallOf(MASTER)) /\ "o1" \in TeamWait
        /\ Passed("o1", CallOf(MASTER)) = Passed(pc[MASTER], CallOf(MASTER))
    BY <1>0, <1>in, <2>1 DEF LabelsIn, TeamWait, Passed
  <2> QED BY <1>0, <2>1, <2>2, ArrivesInCall
<1>3. CASE AwaitOpened
  <2>1. pc[MASTER] = "opened" /\ Arrive(MASTER, "o2") /\ UNCHANGED <<at, script>>
    BY <1>3 DEF AwaitOpened, program
  <2>2. /\ "o2" \in LabelsIn(MASTER, CallOf(MASTER)) /\ "o2" \in TeamWait
        /\ Passed("o2", CallOf(MASTER)) = Passed(pc[MASTER], CallOf(MASTER))
    BY <1>0, <1>in, <2>1 DEF LabelsIn, TeamWait, Passed
  <2> QED BY <1>0, <2>1, <2>2, ArrivesInCall
<1>4. CASE Remove
  <2>1. pc[MASTER] = "remove" /\ pc' = [pc EXCEPT ![MASTER] = "free"] /\ UNCHANGED <<at, script>>
    BY <1>4 DEF Remove, Goto, program
  <2>2. /\ "free" \in LabelsIn(MASTER, CallOf(MASTER)) /\ "free" \in Labels
        /\ Passed("free", CallOf(MASTER)) = Passed(pc[MASTER], CallOf(MASTER))
    BY <1>0, <1>in, <2>1 DEF LabelsIn, Labels, Passed
  <2> QED BY <1>0, <2>1, <2>2, MovesInCall
<1>5. ASSUME NEW t \in Threads, pc[t] \in {"free", "sync"}, UNCHANGED <<at, script>>,
             pc' = [pc EXCEPT ![t] = "idle"]
      PROVE  Ordered'
  <2>1. "idle" \in Labels /\ Passed("idle", CallOf(t)) = Passed(pc[t], CallOf(t))
    BY <1>in, <1>5 DEF LabelsIn, Labels, Passed
  <2> QED BY <1>5, <2>1, MovesInCall
<1>6. CASE Free \/ Sync
  BY <1>0, <1>5, <1>6 DEF Free, Sync, Goto, program
<1>7. ASSUME NEW t \in Threads, Lead(t) PROVE Ordered'
  <2>1. PICK c \in NextCalls : script' = Append(script, c) /\ Enter(t, c)
    BY <1>7 DEF Lead
  <2>2. c \in Call
    BY FileTableAssumption DEF NextCalls, Call, Files, Usable
  <2>3. Program(pc, at, script') /\ Inside(pc, at, script') /\ Together(pc, at, script')
    BY <2>1, <2>2, Extended DEF Ordered
  <2>4. /\ pc[t] = "idle" /\ at[t] < Len(script') /\ c = script'[at[t] + 1]
    BY <1>0, <1>7, <2>1, <2>2 DEF Lead
  <2> QED BY <2>1, <2>3, <2>4, EnterStep
<1>8. ASSUME NEW t \in Threads, Follow(t) PROVE Ordered'
  BY <1>8, EnterStep DEF Follow, Ordered
<1>9. ASSUME NEW t \in Threads, Look(t) PROVE Ordered'
  <2>1. CASE UNCHANGED <<pc, at, script>>
    BY <2>1 DEF Ordered, Program, Inside, Together, Ahead, Abreast
  <2>2. CASE ~UNCHANGED <<pc, at, script>>
    <3>1. /\ pc[t] = "look" /\ pc' = [pc EXCEPT ![t] = AfterLook(t)] /\ UNCHANGED <<at, script>>
      BY <1>9, <2>2 DEF Look, program
    <3>2. /\ AfterLook(t) \in LabelsIn(t, CallOf(t)) /\ AfterLook(t) \in Labels
          /\ Passed(AfterLook(t), CallOf(t)) = Passed(pc[t], CallOf(t))
      BY <1>in, <3>1 DEF AfterLook, LabelsIn, Labels, Passed
    <3> QED BY <3>1, <3>2, MovesInCall
  <2> QED BY <2>1, <2>2
<1>10. ASSUME NEW t \in Threads, NEW from, NEW label, Arrive(t, label), pc[t] = from,
              <<from, label>> \in {<<"openfd", "o2">>, <<"closefd", "c2">>, <<"store", "ompc">>},
              UNCHANGED <<at, script>>
       PROVE  Ordered'
  <2>1. /\ label \in LabelsIn(t, CallOf(t)) /\ label \in TeamWait
        /\ Passed(label, CallOf(t)) = Passed(pc[t], CallOf(t))
    BY <1>in, <1>10 DEF LabelsIn, TeamWait, Passed
  <2> QED BY <1>10, <2>1, ArrivesInCall
<1>11. ASSUME NEW t \in Threads, OpenFd(t) \/ CloseFd(t) \/ Store(t) PROVE Ordered'
  BY <1>10, <1>11 DEF OpenFd, CloseFd, EndClose, Store, program
<1>12. ASSUME NEW t \in Threads, Transfer(t) PROVE Ordered'
  <2>1. UNCHANGED <<at, script>> /\ pc[t] = "base"
    BY <1>12 DEF Transfer, program
  <2>2. pc' \in [Threads -> Labels] /\ \A u \in Threads :
          \/ pc'[u] = pc[u]
          \/ pc[u] \in {"base", "barr"} /\ pc'[u] \in {"idle", "barr"}
    BY <1>0, <1>12 DEF Transfer, AtBarr, Labels
  <2>3. ASSUME NEW u \in Threads, pc[u] \in {"base", "barr"}, NEW label \in {"idle", "barr"}
        PROVE  /\ at[u] \in 1..Len(script) /\ Passed(label, CallOf(u)) = Passed(pc[u], CallOf(u))
               /\ label = "idle" \/ label \in LabelsIn(u, CallOf(u))
    BY <1>in, <2>3 DEF LabelsIn, Passed
  <2>4. GoesOn(pc, pc', at, script)
    BY <2>2, <2>3 DEF GoesOn, CallOf
  <2> QED BY <2>1, <2>2, <2>4, GoingOn DEF Ordered
<1>13. CASE Terminating \/ UNCHANGED vars
  BY <1>13 DEF Terminating, vars, program, Ordered, Program, Inside, Together, Ahead, Abreast
<1> QED BY <1>1, <1>2, <1>3, <1>4, <1>6, <1>7, <1>8, <1>9, <1>11, <1>12, <1>13
        DEF Next, MasterStep, ThreadStep

-----------------------------------------------------------------------------
(* Types *)

\* The MASTER fills in the FS it has just inserted in the table.
Made == pc[MASTER] = "create" => fs[MASTER] \in Files

Sound == TypeOK /\ Ordered /\ Made

\* Only Insert brings the MASTER to where it fills in an FS.
LEMMA MadeStep ==
  ASSUME Sound, [Next]_vars
  PROVE  Made'
<1>0. pc \in [Threads -> Labels] /\ fs \in [Threads -> Files \cup {NoFile}] /\ MASTER \in Threads
  BY FileTableAssumption DEF Sound, TypeOK, MASTER, Threads
<1>1. ASSUME NEW t \in Threads, NEW label \in TeamWait, Arrive(t, label)
      PROVE  pc'[MASTER] # "create" \/ pc'[MASTER] = pc[MASTER]
  BY <1>0, <1>1 DEF Arrive, AfterWait, TeamWait
<1>b. "o1" \in TeamWait /\ "o2" \in TeamWait /\ "c1" \in TeamWait /\ "c2" \in TeamWait
       /\ "ompc" \in TeamWait
  BY DEF TeamWait
<1>2. CASE Insert
  <2>1. pc[MASTER] # "idle"
    BY <1>2 DEF Insert, Goto
  <2>2. at[MASTER] \in 1..Len(script)
    BY <1>0, <2>1 DEF Sound, Ordered, Inside
  <2>3. FileOf(MASTER) \in Files
    BY <2>2, CallFacts DEF Sound, TypeOK, FileOf
  <2> QED BY <1>0, <1>2, <2>3 DEF Insert, Made
<1>3. CASE Create \/ AwaitOpened
  BY <1>0, <1>1, <1>b, <1>3 DEF Sound, Create, AwaitOpened, Made
<1>4. CASE Remove \/ Free \/ Sync
  BY <1>0, <1>4 DEF Remove, Free, Sync, Goto, Made
<1>5. ASSUME NEW t \in Threads, NEW c \in Call, Enter(t, c) PROVE Made'
  <2>1. fs' = fs /\ c.call \in {"open", "close", "io", "fsync"}
    BY <1>5 DEF Enter, Call
  <2>2. CASE c.call \in {"open", "close"}
    <3>1. \/ pc' = [pc EXCEPT ![t] = "insert"]
          \/ Arrive(t, "o1") \/ Arrive(t, "c1")
      BY <1>5, <2>2 DEF Enter, BeginClose
    <3> QED BY <1>0, <1>1, <1>b, <2>1, <3>1 DEF Made, Sound
  <2>3. CASE c.call \in {"io", "fsync"}
    BY <1>0, <1>5, <2>1, <2>3 DEF Enter, Made, Sound
  <2> QED BY <2>1, <2>2, <2>3
<1>6. ASSUME NEW t \in Threads, Lead(t) PROVE Made'
  <2>1. PICK c \in NextCalls : Enter(t, c)
    BY <1>6 DEF Lead
  <2>2. c \in Call
    BY FileTableAssumption DEF NextCalls, Call, Files, Usable, Sound, TypeOK
  <2> QED BY <1>5, <2>1, <2>2
<1>7. ASSUME NEW t \in Threads, Follow(t) PROVE Made'
  <2>1. at[t] + 1 \in 1..Len(script) /\ Enter(t, script[at[t] + 1])
    BY <1>7 DEF Follow, Sound, TypeOK
  <2>2. script[at[t] + 1] \in Call
    BY <2>1, CallFacts DEF Sound, TypeOK
  <2> QED BY <1>5, <2>1, <2>2
<1>8. ASSUME NEW t \in Threads, Look(t) PROVE Made'
  <2>1. CASE t = MASTER
    <3>1. pc[t] = "look" /\ (pc' = pc \/ pc' = [pc EXCEPT ![t] = AfterLook(t)])
      BY <1>8 DEF Look
    <3>2. at[t] \in 1..Len(script)
      BY <3>1 DEF Sound, Ordered, Inside
    <3>3. AfterLook(t) # "create"
      BY <3>2, CallFacts DEF AfterLook, CallOf, Sound, TypeOK
    <3> QED BY <1>0, <2>1, <3>1, <3>3 DEF Made
  <2>2. CASE t # MASTER
    BY <1>0, <1>8, <2>2 DEF Look, Made, Sound
  <2> QED BY <2>1, <2>2
<1>9. ASSUME NEW t \in Threads, OpenFd(t) \/ CloseFd(t) \/ Store(t) PROVE Made'
  <2>1. fs' = fs /\ (Arrive(t, "o2") \/ Arrive(t, "c2") \/ Arrive(t, "ompc"))
    BY <1>9 DEF OpenFd, CloseFd, EndClose, Store, memory
  <2> QED BY <1>1, <1>b, <2>1 DEF Made, Sound
<1>10. ASSUME NEW t \in Threads, Transfer(t) PROVE Made'
  <2>1. fs' = fs /\ (pc'[MASTER] = pc[MASTER] \/ pc'[MASTER] # "create")
    BY <1>0, <1>10 DEF Transfer, AtBarr
  <2> QED BY <2>1 DEF Made, Sound
<1>11. CASE Terminating \/ UNCHANGED vars
  BY <1>11 DEF Terminating, vars, Made, Sound
<1> QED BY <1>2, <1>3, <1>4, <1>6, <1>7, <1>8, <1>9, <1>10, <1>11
        DEF Next, MasterStep, ThreadStep

\* What the calls leave in the table, in memory and in the process has its types.
LEMMA TypeStep ==
  ASSUME Sound, [Next]_vars
  PROVE  TypeOK'
<1>a. /\ NumThreads \in Nat \ {0} /\ Opens \in Nat /\ MASTER \in Threads
      /\ \A config \in Configs : config[LastLine(config)].value \in Nat \ {0}
  BY FileTableAssumption DEF MASTER, Threads
<1>t. /\ script \in Seq(Call) /\ opened \in 0..Opens /\ files \subseteq Files
      /\ at \in [Threads -> 0..Len(script)] /\ pc \in [Threads -> Labels]
      /\ table \in Seq(Files) /\ index \in [Threads -> Nat \ {0}]
      /\ fs \in [Threads -> Files \cup {NoFile}] /\ fd \in [Files -> [Threads -> Slot]]
      /\ active \in [Files -> 0..NumThreads] /\ handle \in [Files -> Slot]
      /\ alive \subseteq Files /\ kernel \in [Descriptors -> Files \cup {NoFile}]
  BY DEF Sound, TypeOK
<1>o. Ordered'
  BY OrderedStep DEF Sound, TypeOK
<1>p. /\ pc' \in [Threads -> Labels] /\ script' \in Seq(Call)
      /\ at' \in [Threads -> 0..Len(script')]
  BY <1>o DEF Ordered, Program
<1>f. ASSUME NEW t \in Threads, pc[t] # "idle" PROVE FileOf(t) \in Files
  <2>1. at[t] \in 1..Len(script)
    BY <1>f DEF Sound, Ordered, Inside
  <2> QED BY <1>t, <2>1, CallFacts DEF FileOf
<1>d. OpenResults \subseteq Slot /\ Descriptors \subseteq Slot /\ Unknown \in Slot
  BY DEF OpenResults, LowestFree, Slot
<1>1. CASE Insert
  <2>1. FileOf(MASTER) \in Files
    BY <1>1, <1>a, <1>f DEF Insert, Goto
  <2>2. /\ table' = Append(table, FileOf(MASTER)) /\ fs' = [fs EXCEPT ![MASTER] = FileOf(MASTER)]
        /\ UNCHANGED <<opened, files, index, fd, active, handle, alive, kernel>>
    BY <1>1 DEF Insert, program, memory
  <2>3. fs' \in [Threads -> Files \cup {NoFile}]
    BY <1>t, <2>1, <2>2
  <2> DEFINE k == FileOf(MASTER)
  <2> HIDE DEF k
  <2>4. Append(table, k) \in Seq(Files)
    BY <1>t, <2>1 DEF k
  <2>5. table' \in Seq(Files)
    BY <2>2, <2>4 DEF k
  <2> QED BY <1>t, <1>p, <2>2, <2>3, <2>5 DEF TypeOK
<1>2. CASE Create
  <2> DEFINE k == fs[MASTER]
  <2>1. k \in Files
    BY <1>2 DEF Create, Sound, Made
  <2> HIDE DEF k
  <2>2. PICK config \in Configs : active' = [active EXCEPT ![k] = ActiveThreads(config)]
    BY <1>2 DEF Create, k
  <2>3. PICK d \in OpenResults :
          /\ handle' = [handle EXCEPT ![k] = d] /\ fd' = [fd EXCEPT ![k][MASTER] = d]
          /\ kernel' = [e \in Descriptors |-> IF e = d THEN k ELSE kernel[e]]
    BY <1>2 DEF Create, k
  <2>4. ActiveThreads(config) \in 0..NumThreads
    BY <1>a, <2>2 DEF ActiveThreads
  <2>5. active' \in [Files -> 0..NumThreads]
    BY <1>t, <2>1, <2>2, <2>4
  <2>6. handle' \in [Files -> Slot] /\ fd' \in [Files -> [Threads -> Slot]]
    BY <1>a, <1>d, <1>t, <2>1, <2>3
  <2>7. kernel' \in [Descriptors -> Files \cup {NoFile}]
    BY <1>t, <2>1, <2>3
  <2>8. alive' \subseteq Files /\ UNCHANGED <<opened, files, table, index, fs>>
    BY <1>2, <1>t, <2>1 DEF Create, program, k
  <2> QED BY <1>t, <1>p, <2>5, <2>6, <2>7, <2>8 DEF TypeOK
<1>3. CASE AwaitOpened \/ Sync
  BY <1>3, <1>t, <1>p DEF AwaitOpened, Sync, program, memory, TypeOK
<1>4. CASE Remove
  <2>1. table' = SubSeq(table, 1, Len(table) - 1)
        /\ UNCHANGED <<opened, files, index, fs, fd, active, handle, alive, kernel>>
    BY <1>4 DEF Remove, AllButLast, program, memory
  <2>2. table' \in Seq(Files)
    BY <1>t, <2>1
  <2> QED BY <1>t, <1>p, <2>1, <2>2 DEF TypeOK
<1>5. CASE Free
  <2>1. /\ alive' = alive \ {fs[MASTER]}
        /\ fd' = [fd EXCEPT ![fs[MASTER]] = [t \in Threads |-> Unknown]]
        /\ UNCHANGED <<opened, files, table, index, fs, active, handle, kernel>>
    BY <1>5 DEF Free, program
  <2>2. [t \in Threads |-> Unknown] \in [Threads -> Slot]
    BY <1>d
  <2>3. fd' \in [Files -> [Threads -> Slot]] /\ alive' \subseteq Files
    BY <1>t, <2>1, <2>2
  <2> QED BY <1>t, <1>p, <2>1, <2>3 DEF TypeOK
<1>6. ASSUME NEW t \in Threads, Lead(t) PROVE TypeOK'
  <2>1. PICK c \in NextCalls :
          /\ Enter(t, c)
          /\ opened' = IF c.call = "open" THEN opened + 1 ELSE opened
          /\ files' = CASE c.call = "open" -> files \cup {c.file}
                       [] c.call = "close" -> files \ {c.file}
                       [] OTHER -> files
    BY <1>6 DEF Lead
  <2>2. c \in Call /\ (c.call = "open" => opened + 1 \in Files)
    BY <1>t DEF NextCalls, Call, Usable
  <2>3. opened' \in 0..Opens
    BY <1>a, <1>t, <2>1, <2>2 DEF Files
  <2>4. files' \subseteq Files
    BY <1>t, <2>1, <2>2 DEF Call
  <2>5. UNCHANGED <<table, index, fs, fd, active, handle, alive, kernel>>
    BY <2>1 DEF Enter, memory
  <2> QED BY <1>t, <1>p, <2>3, <2>4, <2>5 DEF TypeOK
<1>7. ASSUME NEW t \in Threads, Follow(t) PROVE TypeOK'
  BY <1>7, <1>t, <1>p DEF Follow, Enter, memory, TypeOK
<1>8. ASSUME NEW t \in Threads, Look(t) PROVE TypeOK'
  <2>1. table[index[t]] \in Files
    BY <1>8, <1>t DEF Look
  <2>2. fs' = fs \/ fs' = [fs EXCEPT ![t] = table[index[t]]]
    BY <1>8 DEF Look
  <2>3. index' = [index EXCEPT ![t] = 1] \/ index' = [index EXCEPT ![t] = index[t] + 1]
    BY <1>8 DEF Look
  <2>4. fs' \in [Threads -> Files \cup {NoFile}]
    BY <1>t, <2>1, <2>2
  <2>5. index[t] + 1 \in Nat \ {0} /\ 1 \in Nat \ {0}
    BY <1>t
  <2>6. index' \in [Threads -> Nat \ {0}]
    BY <1>t, <2>3, <2>5
  <2> QED BY <1>8, <1>t, <1>p, <2>4, <2>6 DEF Look, program, memory, TypeOK
<1>9. ASSUME NEW t \in Threads, OpenFd(t) PROVE TypeOK'
  <2>1. PICK d \in OpenResults :
          /\ fd' = IF d = Failed THEN fd ELSE [fd EXCEPT ![fs[t]][t] = d]
          /\ kernel' = [e \in Descriptors |-> IF e = d THEN FileOf(t) ELSE kernel[e]]
    BY <1>9 DEF OpenFd
  <2>2. fd' \in [Files -> [Threads -> Slot]]
    BY <1>d, <1>t, <2>1
  <2>3. kernel' \in [Descriptors -> Files \cup {NoFile}]
    BY <1>9, <1>f, <1>t, <2>1 DEF OpenFd
  <2> QED BY <1>9, <1>t, <1>p, <2>2, <2>3 DEF OpenFd, program, TypeOK
<1>10. ASSUME NEW t \in Threads, CloseFd(t) PROVE TypeOK'
  <2>1. kernel' \in [Descriptors -> Files \cup {NoFile}]
    BY <1>10, <1>t DEF CloseFd
  <2> QED BY <1>10, <1>t, <1>p, <2>1 DEF CloseFd, program, memory, TypeOK
<1>11. ASSUME NEW t \in Threads, Store(t) PROVE TypeOK'
  BY <1>11, <1>t, <1>p DEF Store, program, memory, TypeOK
<1>12. ASSUME NEW t \in Threads, Transfer(t) PROVE TypeOK'
  <2> DEFINE k == fs[t]
  <2>1. fd' = [fd EXCEPT ![k][t] = IF fd[k][t] = Failed THEN fd[k][MASTER] ELSE fd[k][t]]
    BY <1>12 DEF Transfer
  <2>2. fd' \in [Files -> [Threads -> Slot]]
    <3>1. CASE k \in Files
      <4>1. fd[k][MASTER] \in Slot /\ fd[k][t] \in Slot
        BY <1>a, <1>t, <3>1
      <4> HIDE DEF k
      <4> QED BY <1>t, <2>1, <3>1, <4>1
    <3>2. CASE k \notin Files
      <4> HIDE DEF k
      <4> QED BY <1>t, <2>1, <3>2
    <3> QED BY <3>1, <3>2
  <2> QED BY <1>12, <1>t, <1>p, <2>2 DEF Transfer, program, TypeOK
<1>13. CASE Terminating \/ UNCHANGED vars
  BY <1>13, <1>t DEF Terminating, vars, program, memory, TypeOK
<1> QED BY <1>1, <1>2, <1>3, <1>4, <1>5, <1>6, <1>7, <1>8, <1>9, <1>10, <1>11, <1>12, <1>13
        DEF Next, MasterStep, ThreadStep

-----------------------------------------------------------------------------
(* The theorems *)

\* At any time every thread is inside the call it has begun, and no thread has
\* passed a barrier that another has still before it.
THEOREM CallsKeepOrder == Spec => []Sound
<1>1. Init => Sound
  <2> SUFFICES ASSUME Init PROVE Sound
    OBVIOUS
  <2>1. TypeOK
    BY FileTableAssumption DEF Init, TypeOK, Labels, Slot, NoFile
  <2>2. Ordered
    BY DEF Init, Ordered, Program, Inside, Together, Ahead, Abreast, Labels
  <2> QED BY <2>1, <2>2, FileTableAssumption DEF Init, Sound, Made, MASTER, Threads
<1>2. Sound /\ [Next]_vars => Sound'
  <2> SUFFICES ASSUME Sound, [Next]_vars PROVE Sound'
    OBVIOUS
  <2>1. Ordered'
    BY OrderedStep DEF Sound, TypeOK
  <2> QED BY <2>1, TypeStep, MadeStep DEF Sound
<1> QED BY <1>1, <1>2, PTL DEF Spec

\* The table of open files, the FSs and the descriptors have their types.
THEOREM TypeCorrect == Spec => []TypeOK
<1>1. Sound => TypeOK
  BY DEF Sound
<1> QED BY <1>1, CallsKeepOrder, PTL

\* The one barrier of the team serves all calls, and different places of the code
\* in each: only threads in the same place of the same call release one another.
THEOREM InStepHolds == Spec => []InStep
<1>1. Sound => InStep
  BY WaitTogether DEF Sound, Ordered, InStep
<1> QED BY <1>1, CallsKeepOrder, PTL

-----------------------------------------------------------------------------
(* Where a thread is in the life of a file *)

\* The files open after the first n calls of s.
OpenAfter(s, n) ==
  {k \in Files : /\ \E m \in 1..n : s[m].call = "open" /\ s[m].file = k
                 /\ \A m \in 1..n : ~(s[m].call = "close" /\ s[m].file = k)}

\* A program that opens each file once, uses it while it is open, and closes the
\* file it has opened last.
Legal(s) ==
  \A n \in 1..Len(s) :
    /\ s[n].call = "open" =>
         \A m \in 1..(n - 1) : s[m].call = "open" => s[m].file < s[n].file
    /\ s[n].call # "open" => s[n].file \in OpenAfter(s, n - 1)
    /\ s[n].call = "close" => \A k \in OpenAfter(s, n - 1) : k <= s[n].file

\* The labels at which a thread has opened, or closed, the file in such a call.
OpenedNow(u, label) ==
  label \in {"o2", "idle"} \cup IF u = MASTER THEN {"o1", "opened"} ELSE {}

ClosedNow(label) == label \in {"c2", "remove", "free", "idle"}

HasOpened(p, a, s, u, k) ==
  \E m \in 1..a[u] : /\ s[m].call = "open" /\ s[m].file = k
                     /\ m = a[u] => OpenedNow(u, p[u])

HasClosed(p, a, s, u, k) ==
  \E m \in 1..a[u] : /\ s[m].call = "close" /\ s[m].file = k
                     /\ m = a[u] => ClosedNow(p[u])

\* Has the MASTER still to change the table (alive) in this call?
TableEarly(label, c) ==
  \/ c = "open" /\ label = "insert"
  \/ c = "close" /\ label \notin {"free", "idle"}

AliveEarly(label, c) ==
  \/ c = "open" /\ label \in {"insert", "create"}
  \/ c = "close" /\ label # "idle"

\* The files in the table, and the FSs that are alive.
TableSet(p, a, s) ==
  IF a[MASTER] > 0 /\ TableEarly(p[MASTER], s[a[MASTER]].call)
  THEN OpenAfter(s, a[MASTER] - 1) ELSE OpenAfter(s, a[MASTER])

AliveSet(p, a, s) ==
  IF a[MASTER] > 0 /\ AliveEarly(p[MASTER], s[a[MASTER]].call)
  THEN OpenAfter(s, a[MASTER] - 1) ELSE OpenAfter(s, a[MASTER])

\* Nothing of all that changes.
Same(p, a, s, q, b, r) ==
  /\ TableSet(q, b, r) = TableSet(p, a, s) /\ AliveSet(q, b, r) = AliveSet(p, a, s)
  /\ \A u \in Threads, k \in Files :
       /\ HasOpened(q, b, r, u, k) <=> HasOpened(p, a, s, u, k)
       /\ HasClosed(q, b, r, u, k) <=> HasClosed(p, a, s, u, k)

\* Opening, closing, and the other calls.
LEMMA OpenStep ==
  ASSUME NEW s \in Seq(Call), Legal(s), NEW n \in 1..Len(s)
  PROVE  /\ s[n].call = "open" => /\ OpenAfter(s, n) = OpenAfter(s, n - 1) \cup {s[n].file}
                                  /\ \A k \in OpenAfter(s, n - 1) : k < s[n].file
         /\ s[n].call = "close" => OpenAfter(s, n) = OpenAfter(s, n - 1) \ {s[n].file}
         /\ s[n].call \in {"io", "fsync"} => OpenAfter(s, n) = OpenAfter(s, n - 1)
<1>1. \A m \in 1..Len(s) : s[m].call \in {"open", "close", "io", "fsync"} /\ s[m].file \in Files
  BY CallFacts
<1>2. 1..n = 1..(n - 1) \cup {n} /\ n - 1 \in Nat /\ Len(s) \in Nat
  OBVIOUS
<1>3. CASE s[n].call = "open"
  <2>1. ASSUME NEW m \in 1..n PROVE ~(s[m].call = "close" /\ s[m].file = s[n].file)
    <3>1. SUFFICES ASSUME s[m].call = "close", s[m].file = s[n].file PROVE FALSE
      OBVIOUS
    <3>2. m \in 1..(n - 1) /\ m \in 1..Len(s)
      BY <1>2, <1>3, <3>1
    <3>3. s[n].file \in OpenAfter(s, m - 1)
      BY <3>1, <3>2 DEF Legal
    <3>4. PICK i \in 1..(m - 1) : s[i].call = "open" /\ s[i].file = s[n].file
      BY <3>3 DEF OpenAfter
    <3>5. i \in 1..(n - 1)
      BY <3>2, <3>4
    <3>6. s[i].file < s[n].file
      BY <1>3, <3>4, <3>5 DEF Legal
    <3> QED BY <1>1, <3>4, <3>6 DEF Files
  <2>2. OpenAfter(s, n) = OpenAfter(s, n - 1) \cup {s[n].file}
    BY <1>1, <1>2, <1>3, <2>1 DEF OpenAfter
  <2>3. \A k \in OpenAfter(s, n - 1) : k < s[n].file
    BY <1>3 DEF OpenAfter, Legal
  <2> QED BY <1>3, <2>2, <2>3
<1>4. CASE s[n].call = "close"
  BY <1>1, <1>2, <1>4 DEF OpenAfter
<1>5. CASE s[n].call \in {"io", "fsync"}
  BY <1>1, <1>2, <1>5 DEF OpenAfter
<1> QED BY <1>3, <1>4, <1>5

\* Calls of omp_file_fsync change nothing.
LEMMA NoneOpened ==
  ASSUME NEW s, NEW m \in Nat, NEW n \in Nat, m <= n,
         \A i \in 1..n : m < i => s[i].call \notin {"open", "close"}
  PROVE  OpenAfter(s, n) = OpenAfter(s, m)
BY DEF OpenAfter

\* A longer script leaves what has happened.
LEMMA SameExtended ==
  ASSUME NEW p, NEW a, NEW s, NEW c \in Call, Program(p, a, s), MASTER \in Threads
  PROVE  /\ \A n \in 0..Len(s) : OpenAfter(Append(s, c), n) = OpenAfter(s, n)
         /\ Same(p, a, s, p, a, Append(s, c))
<1> DEFINE r == Append(s, c)
<1>1. /\ s \in Seq(Call) /\ Len(s) \in Nat /\ a \in [Threads -> 0..Len(s)]
  BY DEF Program
<1>2. \A n \in 1..Len(s) : r[n] = s[n]
  BY <1>1
<1> HIDE DEF r
<1>3. \A n \in 0..Len(s) : OpenAfter(r, n) = OpenAfter(s, n)
  BY <1>1, <1>2 DEF OpenAfter
<1>4. \A u \in Threads : \A m \in 1..a[u] : r[m] = s[m]
  BY <1>1, <1>2
<1>5. /\ a[MASTER] \in 0..Len(s)
      /\ a[MASTER] > 0 => a[MASTER] - 1 \in 0..Len(s) /\ r[a[MASTER]] = s[a[MASTER]]
  BY <1>1, <1>2
<1>6. TableSet(p, a, r) = TableSet(p, a, s) /\ AliveSet(p, a, r) = AliveSet(p, a, s)
  BY <1>3, <1>5 DEF TableSet, AliveSet
<1>7. \A u \in Threads, k \in Files :
        /\ HasOpened(p, a, r, u, k) <=> HasOpened(p, a, s, u, k)
        /\ HasClosed(p, a, r, u, k) <=> HasClosed(p, a, s, u, k)
  BY <1>4 DEF HasOpened, HasClosed
<1>8. Same(p, a, s, p, a, r)
  BY <1>6, <1>7 DEF Same
<1> QED BY <1>3, <1>8 DEF r

\* u goes from label l to label m of a call of kind c without touching the file.
KeepsPlace(u, l, m, c) ==
  /\ c = "open" => (OpenedNow(u, l) <=> OpenedNow(u, m))
  /\ c = "close" => (ClosedNow(l) <=> ClosedNow(m))
  /\ u = MASTER => /\ TableEarly(l, c) <=> TableEarly(m, c)
                   /\ AliveEarly(l, c) <=> AliveEarly(m, c)

\* Threads that keep their place in this respect change nothing.
LEMMA SameMoved ==
  ASSUME NEW p, NEW q, NEW a, NEW s, Program(p, a, s), MASTER \in Threads,
         \A u \in Threads : a[u] > 0 => q[u] = p[u] \/ KeepsPlace(u, p[u], q[u], s[a[u]].call)
  PROVE  Same(p, a, s, q, a, s)
<1>1. \A u \in Threads : a[u] \in Nat
  BY DEF Program
<1>2. TableSet(q, a, s) = TableSet(p, a, s) /\ AliveSet(q, a, s) = AliveSet(p, a, s)
  BY <1>1 DEF TableSet, AliveSet, KeepsPlace
<1>3. ASSUME NEW u \in Threads, NEW k \in Files
      PROVE  /\ HasOpened(q, a, s, u, k) <=> HasOpened(p, a, s, u, k)
             /\ HasClosed(q, a, s, u, k) <=> HasClosed(p, a, s, u, k)
  <2>1. CASE q[u] = p[u]
    BY <2>1 DEF HasOpened, HasClosed
  <2>2. CASE a[u] > 0 /\ KeepsPlace(u, p[u], q[u], s[a[u]].call)
    BY <2>2 DEF HasOpened, HasClosed, KeepsPlace
  <2>3. CASE ~(a[u] > 0)
    BY <1>1, <2>3 DEF HasOpened, HasClosed
  <2> QED BY <2>1, <2>2, <2>3
<1> QED BY <1>2, <1>3 DEF Same

\* Nobody touches the file at a barrier.
LEMMA SameReleased ==
  ASSUME NEW p, NEW q, NEW a, NEW s, Program(p, a, s), Inside(p, a, s), MASTER \in Threads,
         \A t \in Threads : p[t] \in TeamWait,
         q = [t \in Threads |-> AfterWait(t, p[t])]
  PROVE  Same(p, a, s, q, a, s)
<1>1. ASSUME NEW t \in Threads PROVE KeepsPlace(t, p[t], q[t], s[a[t]].call)
  <2>1. p[t] \in LabelsIn(t, s[a[t]].call) /\ p[t] \in TeamWait
        /\ s[a[t]].call \in {"open", "close", "io", "fsync"}
    BY CallFacts DEF Inside, TeamWait, Program
  <2>2. q[t] = AfterWait(t, p[t])
    OBVIOUS
  <2> QED BY <2>1, <2>2 DEF KeepsPlace, OpenedNow, ClosedNow, TableEarly, AliveEarly,
                            LabelsIn, TeamWait, AfterWait
<1> QED BY <1>1, SameMoved

\* Nor when it begins a call.
LEMMA SameEntered ==
  ASSUME NEW p, NEW a, NEW s, NEW t \in Threads, NEW label \in Labels,
         Program(p, a, s), Legal(s), MASTER \in Threads, p[t] = "idle", a[t] < Len(s),
         s[a[t] + 1].call = "open" => label = IF t = MASTER THEN "insert" ELSE "o1",
         s[a[t] + 1].call = "close" => label = "c1"
  PROVE  Same(p, a, s, [p EXCEPT ![t] = label], [a EXCEPT ![t] = a[t] + 1], s)
<1> DEFINE q == [p EXCEPT ![t] = label]
           b == [a EXCEPT ![t] = a[t] + 1]
<1>1. /\ s \in Seq(Call) /\ Len(s) \in Nat
      /\ a \in [Threads -> 0..Len(s)] /\ p \in [Threads -> Labels]
  BY DEF Program
<1>2. /\ q[t] = label /\ b[t] = a[t] + 1 /\ b[t] \in 1..Len(s) /\ a[t] \in Nat
      /\ \A u \in Threads \ {t} : q[u] = p[u] /\ b[u] = a[u]
  BY <1>1
<1> HIDE DEF q, b
<1>3. s[b[t]].call \in {"open", "close", "io", "fsync"}
  BY <1>1, <1>2, CallFacts
<1>4. ASSUME NEW u \in Threads, NEW k \in Files
      PROVE  /\ HasOpened(q, b, s, u, k) <=> HasOpened(p, a, s, u, k)
             /\ HasClosed(q, b, s, u, k) <=> HasClosed(p, a, s, u, k)
  <2>1. CASE u = t
    <3>1. 1..b[t] = 1..a[t] \cup {b[t]} /\ b[t] \notin 1..a[t]
      BY <1>2
    <3>2. OpenedNow(t, p[t]) /\ ClosedNow(p[t])
      BY DEF OpenedNow, ClosedNow
    <3>3. /\ s[b[t]].call = "open" => ~OpenedNow(t, q[t])
          /\ s[b[t]].call = "close" => ~ClosedNow(q[t])
      BY <1>2 DEF OpenedNow, ClosedNow
    <3>4. HasOpened(q, b, s, t, k) <=> HasOpened(p, a, s, t, k)
      BY <3>1, <3>2, <3>3 DEF HasOpened
    <3>5. HasClosed(q, b, s, t, k) <=> HasClosed(p, a, s, t, k)
      BY <3>1, <3>2, <3>3 DEF HasClosed
    <3> QED BY <2>1, <3>4, <3>5
  <2>2. CASE u # t
    BY <1>2, <2>2 DEF HasOpened, HasClosed
  <2> QED BY <2>1, <2>2
<1>5. TableSet(q, b, s) = TableSet(p, a, s) /\ AliveSet(q, b, s) = AliveSet(p, a, s)
  <2>1. CASE t = MASTER
    <3>1. TableSet(p, a, s) = OpenAfter(s, a[t]) /\ AliveSet(p, a, s) = OpenAfter(s, a[t])
      BY <2>1 DEF TableSet, AliveSet, TableEarly, AliveEarly
    <3>2. CASE s[b[t]].call \in {"open", "close"}
      <4>1. TableEarly(q[t], s[b[t]].call) /\ AliveEarly(q[t], s[b[t]].call)
        BY <1>2, <2>1, <3>2 DEF TableEarly, AliveEarly
      <4> QED BY <1>2, <2>1, <3>1, <4>1 DEF TableSet, AliveSet
    <3>3. CASE s[b[t]].call \in {"io", "fsync"}
      <4>1. ~TableEarly(q[t], s[b[t]].call) /\ ~AliveEarly(q[t], s[b[t]].call)
        BY <3>3 DEF TableEarly, AliveEarly
      <4>2. OpenAfter(s, b[t]) = OpenAfter(s, b[t] - 1) /\ b[t] - 1 = a[t]
        BY <1>1, <1>2, <3>3, OpenStep
      <4> QED BY <1>2, <2>1, <3>1, <4>1, <4>2 DEF TableSet, AliveSet
    <3> QED BY <1>3, <3>2, <3>3
  <2>2. CASE t # MASTER
    BY <1>2, <2>2 DEF TableSet, AliveSet
  <2> QED BY <2>1, <2>2
<1>6. Same(p, a, s, q, b, s)
  BY <1>4, <1>5 DEF Same
<1> QED BY <1>6 DEF q, b

\* Steps that change nothing, one after the other, or none at all.
LEMMA SameTransitive ==
  ASSUME NEW p, NEW a, NEW s, NEW q, NEW b, NEW r, NEW x, NEW c, NEW y,
         Same(p, a, s, q, b, r), Same(q, b, r, x, c, y)
  PROVE  Same(p, a, s, x, c, y)
BY DEF Same

LEMMA SameSelf == ASSUME NEW p, NEW a, NEW s PROVE Same(p, a, s, p, a, s)
BY DEF Same

\* Nor when it arrives at the barrier, the last one or not.
LEMMA SameArrived ==
  ASSUME NEW t \in Threads, NEW label \in TeamWait, NEW q, Arrive(t, label),
         pc \in [Threads -> Labels], q = [pc EXCEPT ![t] = label],
         Program(q, at', script'), Inside(q, at', script'), MASTER \in Threads
  PROVE  Same(q, at', script', pc', at', script')
<1>1. q[t] = label /\ \A u \in Threads \ {t} : q[u] = pc[u]
  OBVIOUS
<1>2. CASE \A u \in Threads \ {t} : pc[u] \in TeamWait
  <2>1. \A u \in Threads : q[u] \in TeamWait
    BY <1>1, <1>2
  <2>2. pc' = [u \in Threads |-> AfterWait(u, q[u])]
    BY <1>1, <1>2 DEF Arrive
  <2> QED BY <2>1, <2>2, SameReleased
<1>3. CASE ~\A u \in Threads \ {t} : pc[u] \in TeamWait
  <2>1. pc' = q
    BY <1>3 DEF Arrive
  <2> QED BY <2>1, SameSelf
<1> QED BY <1>2, <1>3

\* A thread that is in a call.
LEMMA InCall ==
  ASSUME Sound, NEW t \in Threads, pc[t] # "idle"
  PROVE  /\ at[t] \in 1..Len(script) /\ at[t] - 1 \in 0..Len(script)
         /\ script[at[t]] \in Call /\ CallOf(t) = script[at[t]].call
         /\ FileOf(t) = script[at[t]].file
         /\ pc[t] \in LabelsIn(t, CallOf(t))
         /\ CallOf(t) \in {"open", "close", "io", "fsync"} /\ FileOf(t) \in Files
<1>1. at[t] \in 1..Len(script) /\ pc[t] \in LabelsIn(t, CallOf(t))
  BY DEF Sound, Ordered, Inside, CallOf
<1>2. script \in Seq(Call) /\ Len(script) \in Nat
  BY DEF Sound, TypeOK
<1>3. at[t] - 1 \in 0..Len(script)
  BY <1>1, <1>2
<1> QED BY <1>1, <1>2, <1>3, CallFacts DEF CallOf, FileOf

\* The thread moves to another label of its call.
LEMMA NextLabel ==
  ASSUME Sound, NEW t \in Threads, NEW label \in Labels, pc[t] # "idle",
         label = "idle" \/ label \in LabelsIn(t, CallOf(t))
  PROVE  LET q == [pc EXCEPT ![t] = label] IN
         /\ q \in [Threads -> Labels] /\ q[t] = label /\ \A u \in Threads \ {t} : q[u] = pc[u]
         /\ Program(q, at, script) /\ Inside(q, at, script)
<1> DEFINE q == [pc EXCEPT ![t] = label]
<1>1. pc \in [Threads -> Labels]
  BY DEF Sound, TypeOK
<1>2. q \in [Threads -> Labels] /\ q[t] = label /\ \A u \in Threads \ {t} : q[u] = pc[u]
  BY <1>1
<1> HIDE DEF q
<1>3. Program(q, at, script)
  BY <1>2 DEF Program, Sound, TypeOK
<1>4. at[t] \in 1..Len(script)
  BY InCall
<1>5. Inside(q, at, script)
  BY <1>2, <1>4 DEF Inside, Sound, Ordered, CallOf
<1> QED BY <1>2, <1>3, <1>5 DEF q

\* If none of that is of interest in its call, everything is as before.
LEMMA SameInCall ==
  ASSUME Sound, MASTER \in Threads, NEW t \in Threads, NEW label \in Labels, pc[t] # "idle",
         UNCHANGED <<at, script>>,
         label = "idle" \/ label \in LabelsIn(t, CallOf(t)),
         KeepsPlace(t, pc[t], label, CallOf(t)),
         \/ pc' = [pc EXCEPT ![t] = label]
         \/ label \in TeamWait /\ Arrive(t, label)
  PROVE  Same(pc, at, script, pc', at', script')
<1> DEFINE q == [pc EXCEPT ![t] = label]
<1>1. /\ q[t] = label /\ \A u \in Threads \ {t} : q[u] = pc[u]
      /\ Program(q, at, script) /\ Inside(q, at, script)
  BY NextLabel
<1>q. q = [pc EXCEPT ![t] = label]
  OBVIOUS
<1> HIDE DEF q
<1>2. \A u \in Threads : q[u] = pc[u] \/ KeepsPlace(u, pc[u], q[u], script[at[u]].call)
  BY <1>1 DEF CallOf
<1>3. Program(pc, at, script) /\ pc \in [Threads -> Labels]
  BY DEF Sound, Ordered, TypeOK
<1>4. Same(pc, at, script, q, at, script)
  BY <1>2, <1>3, SameMoved
<1>5. CASE pc' = q
  BY <1>4, <1>5
<1>6. CASE label \in TeamWait /\ Arrive(t, label)
  <2>1. Same(q, at', script', pc', at', script')
    BY <1>1, <1>3, <1>6, <1>q, SameArrived
  <2> QED BY <1>4, <2>1, SameTransitive
<1> QED BY <1>5, <1>6, <1>q

\* Beginning a call.
LEMMA SameEnter ==
  ASSUME NEW t \in Threads, MASTER \in Threads, NEW s, Program(pc, at, s),
         Inside(pc, at, s), Together(pc, at, s), Legal(s), script' = s, pc[t] = "idle",
         at[t] < Len(s), Enter(t, s[at[t] + 1])
  PROVE  Same(pc, at, s, pc', at', script')
<1> DEFINE c == s[at[t] + 1].call
<1>1. /\ pc \in [Threads -> Labels] /\ s \in Seq(Call)
      /\ at \in [Threads -> 0..Len(s)] /\ Len(s) \in Nat
  BY DEF Program
<1>2. at[t] + 1 \in 1..Len(s)
  BY <1>1
<1>3. c \in {"open", "close", "io", "fsync"}
  BY <1>1, <1>2, CallFacts
<1>4. at' = [at EXCEPT ![t] = at[t] + 1]
  BY DEF Enter
<1>5. ASSUME NEW label \in Labels, label = "idle" \/ label \in LabelsIn(t, c),
             Passed(label, c) = 0,
             c = "open" => label = IF t = MASTER THEN "insert" ELSE "o1",
             c = "close" => label = "c1",
             \/ pc' = [pc EXCEPT ![t] = label]
             \/ label \in TeamWait /\ Arrive(t, label)
      PROVE  Same(pc, at, s, pc', at', script')
  <2> DEFINE q == [pc EXCEPT ![t] = label]
             b == [at EXCEPT ![t] = at[t] + 1]
  <2>1. Program(q, b, s) /\ Inside(q, b, s)
    BY <1>5, Entered
  <2>2. Same(pc, at, s, q, b, s)
    BY <1>5, SameEntered
  <2>3. q = [pc EXCEPT ![t] = label] /\ b = at'
    BY <1>4
  <2> HIDE DEF q, b, c
  <2>4. CASE pc' = q
    BY <2>2, <2>3, <2>4
  <2>5. CASE label \in TeamWait /\ Arrive(t, label)
    <3>1. Same(q, at', script', pc', at', script')
      BY <1>1, <2>1, <2>3, <2>5, SameArrived
    <3> QED BY <2>2, <2>3, <3>1, SameTransitive
  <2> QED BY <1>5, <2>3, <2>4, <2>5
<1>6. CASE c = "open" /\ t = MASTER
  <2>1. pc' = [pc EXCEPT ![t] = "insert"]
    BY <1>6 DEF Enter
  <2>2. "insert" \in Labels /\ "insert" \in LabelsIn(t, c) /\ Passed("insert", c) = 0
    BY <1>6 DEF Labels, LabelsIn, Passed
  <2> HIDE DEF c
  <2> QED BY <1>5, <1>6, <2>1, <2>2
<1>7. CASE c = "open" /\ t # MASTER
  <2>1. Arrive(t, "o1")
    BY <1>7 DEF Enter
  <2>2. /\ "o1" \in Labels /\ "o1" \in LabelsIn(t, c) /\ Passed("o1", c) = 0
        /\ "o1" \in TeamWait
    BY <1>7 DEF Labels, LabelsIn, Passed, TeamWait
  <2> HIDE DEF c
  <2> QED BY <1>5, <1>7, <2>1, <2>2
<1>8. CASE c = "close"
  <2>1. Arrive(t, "c1")
    BY <1>8 DEF Enter, BeginClose
  <2>2. /\ "c1" \in Labels /\ "c1" \in LabelsIn(t, c) /\ Passed("c1", c) = 0
        /\ "c1" \in TeamWait
    BY <1>8 DEF Labels, LabelsIn, Passed, TeamWait
  <2> HIDE DEF c
  <2> QED BY <1>5, <1>8, <2>1, <2>2
<1>9. CASE c \in {"io", "fsync"}
  <2> DEFINE label == IF c = "io" \/ t = MASTER THEN "look" ELSE "idle"
  <2>1. pc' = [pc EXCEPT ![t] = label]
    BY <1>9 DEF Enter
  <2>2. /\ label \in Labels /\ Passed(label, c) = 0
        /\ label = "idle" \/ label \in LabelsIn(t, c)
    BY <1>9 DEF Labels, LabelsIn, Passed
  <2> HIDE DEF c, label
  <2> QED BY <1>5, <1>9, <2>1, <2>2
<1> QED BY <1>3, <1>6, <1>7, <1>8, <1>9

-----------------------------------------------------------------------------
(* The program closes its files in the reverse order of opening them *)

Lawful ==
  /\ Legal(script) /\ files = OpenAfter(script, Len(script))
  /\ \A n \in 1..Len(script) : script[n].call = "open" => script[n].file <= opened

\* Every open() succeeds.
NeverFailed == \A k \in Files : handle[k] # Failed

\* Adding a call that makes sense.
LEMMA LegalExtended ==
  ASSUME ~AnyOrder, Sound, Lawful, NeverFailed, NEW c \in NextCalls
  PROVE  c \in Call /\ Legal(Append(script, c))
<1> DEFINE r == Append(script, c)
<1>1. /\ script \in Seq(Call) /\ Len(script) \in Nat /\ files \subseteq Files /\ opened \in 0..Opens
  BY DEF Sound, TypeOK
<1>2. Usable = files
  BY <1>1 DEF Usable, NeverFailed
<1>3. c \in Call
  BY <1>1, <1>2 DEF NextCalls, Call
<1>4. \/ c.call = "open" /\ c.file = opened + 1
      \/ c.call \in {"io", "fsync"} /\ c.file \in files
      \/ c.call = "close" /\ c.file \in files /\ \A m \in files : m <= c.file
  BY <1>1, <1>2 DEF NextCalls
<1>5. /\ r \in Seq(Call) /\ Len(r) = Len(script) + 1 /\ r[Len(script) + 1] = c
      /\ \A n \in 1..Len(script) : r[n] = script[n]
  BY <1>1, <1>3
<1> HIDE DEF r
<1>6. \A n \in 0..Len(script) : OpenAfter(r, n) = OpenAfter(script, n)
  BY <1>1, <1>5 DEF OpenAfter
<1>7. ASSUME NEW n \in 1..Len(script)
      PROVE  /\ r[n].call = "open" =>
                  \A m \in 1..(n - 1) : r[m].call = "open" => r[m].file < r[n].file
             /\ r[n].call # "open" => r[n].file \in OpenAfter(r, n - 1)
             /\ r[n].call = "close" => \A k \in OpenAfter(r, n - 1) : k <= r[n].file
  <2>1. n - 1 \in 0..Len(script) /\ \A m \in 1..(n - 1) : r[m] = script[m]
    BY <1>1, <1>5
  <2> QED BY <1>5, <1>6, <2>1 DEF Lawful, Legal
<1>8. ASSUME NEW n, n = Len(script) + 1
      PROVE  /\ r[n].call = "open" =>
                  \A m \in 1..(n - 1) : r[m].call = "open" => r[m].file < r[n].file
             /\ r[n].call # "open" => r[n].file \in OpenAfter(r, n - 1)
             /\ r[n].call = "close" => \A k \in OpenAfter(r, n - 1) : k <= r[n].file
  <2>1. n - 1 = Len(script) /\ r[n] = c /\ OpenAfter(r, n - 1) = files
    BY <1>1, <1>5, <1>6, <1>8 DEF Lawful
  <2>2. \A m \in 1..Len(script) : r[m].call = "open" => r[m].file <= opened /\ r[m].file \in Nat
    BY <1>1, <1>5, CallFacts DEF Lawful, Files
  <2> QED BY <1>1, <1>4, <2>1, <2>2
<1>9. \A n \in 1..Len(r) : n \in 1..Len(script) \/ n = Len(script) + 1
  BY <1>1, <1>5
<1>10. Legal(r)
  BY <1>7, <1>8, <1>9 DEF Legal
<1> QED BY <1>3, <1>10 DEF r

\* The script stays lawful, whatever call the thread that is ahead adds.
LEMMA LawfulStep ==
  ASSUME ~AnyOrder, Sound, Lawful, NeverFailed, [Next]_vars
  PROVE  Lawful'
<1>1. ASSUME NEW t \in Threads, Lead(t) PROVE Lawful'
  <2>1. PICK c \in NextCalls :
          /\ script' = Append(script, c)
          /\ opened' = IF c.call = "open" THEN opened + 1 ELSE opened
          /\ files' = CASE c.call = "open" -> files \cup {c.file}
                       [] c.call = "close" -> files \ {c.file}
                       [] OTHER -> files
    BY <1>1 DEF Lead
  <2>2. c \in Call /\ Legal(script')
    BY <2>1, LegalExtended
  <2>3. /\ script \in Seq(Call) /\ Len(script) \in Nat /\ opened \in Nat
    BY DEF Sound, TypeOK
  <2>4. /\ script' \in Seq(Call) /\ Len(script') = Len(script) + 1 /\ Len(script') - 1 = Len(script)
        /\ script'[Len(script')] = c /\ Len(script') \in 1..Len(script')
        /\ \A n \in 1..Len(script) : script'[n] = script[n]
    BY <2>1, <2>2, <2>3
  <2>5. OpenAfter(script', Len(script)) = OpenAfter(script, Len(script))
    BY <2>4 DEF OpenAfter
  <2>6. /\ c.call = "open" => OpenAfter(script', Len(script')) = files \cup {c.file}
        /\ c.call = "close" => OpenAfter(script', Len(script')) = files \ {c.file}
        /\ c.call \in {"io", "fsync"} => OpenAfter(script', Len(script')) = files
    BY <2>2, <2>4, <2>5, OpenStep DEF Lawful
  <2>7. c.call \in {"open", "close", "io", "fsync"}
    BY <2>2 DEF Call
  <2>8. files' = OpenAfter(script', Len(script'))
    BY <2>1, <2>6, <2>7
  <2>9. c.call = "open" => c.file = opened + 1
    BY <2>1 DEF NextCalls
  <2>10. ASSUME NEW n \in 1..Len(script'), script'[n].call = "open"
         PROVE  script'[n].file <= opened'
    <3>1. CASE n = Len(script')
      BY <2>1, <2>3, <2>4, <2>9, <2>10, <3>1
    <3>2. CASE n # Len(script')
      <4>1. n \in 1..Len(script)
        BY <2>3, <2>4, <3>2
      <4>2. script[n].file <= opened /\ script[n].file \in Nat
        BY <2>3, <2>4, <2>10, <4>1, CallFacts DEF Lawful, Files
      <4> QED BY <2>1, <2>3, <2>4, <4>1, <4>2
    <3> QED BY <3>1, <3>2
  <2> QED BY <2>2, <2>8, <2>10 DEF Lawful
<1>2. CASE UNCHANGED <<script, opened, files>>
  BY <1>2 DEF Lawful
<1>3. \/ \E t \in Threads : Lead(t)
      \/ UNCHANGED <<script, opened, files>>
  BY DEF Next, MasterStep, ThreadStep, Terminating, Insert, Create, AwaitOpened, Remove, Free,
         Sync, Follow, Look, OpenFd, CloseFd, Store, Transfer, program, vars
<1> QED BY <1>1, <1>2, <1>3

\* The steps that open and close nothing.
LEMMA SameStep ==
  ASSUME ~AnyOrder, Sound, Lawful, NeverFailed, [Next]_vars
  PROVE  \/ Insert \/ Create \/ Remove \/ Free
         \/ \E t \in Threads : OpenFd(t) \/ CloseFd(t)
         \/ Same(pc, at, script, pc', at', script')
<1>0. /\ pc \in [Threads -> Labels] /\ at \in [Threads -> 0..Len(script)]
      /\ script \in Seq(Call) /\ Len(script) \in Nat /\ MASTER \in Threads
  BY FileTableAssumption DEF Sound, TypeOK, MASTER, Threads
<1>m. ASSUME NEW t \in Threads, NEW label \in Labels, pc[t] # "idle", UNCHANGED <<at, script>>,
             label = "idle" \/ label \in LabelsIn(t, CallOf(t)),
             KeepsPlace(t, pc[t], label, CallOf(t)),
             \/ pc' = [pc EXCEPT ![t] = label]
             \/ label \in TeamWait /\ Arrive(t, label)
      PROVE  Same(pc, at, script, pc', at', script')
  BY <1>0, <1>m, SameInCall
<1>1. CASE AwaitOpened
  <2>1. pc[MASTER] = "opened" /\ Arrive(MASTER, "o2") /\ UNCHANGED <<at, script>>
    BY <1>1 DEF AwaitOpened, program
  <2>2. /\ "o2" \in LabelsIn(MASTER, CallOf(MASTER)) /\ "o2" \in TeamWait /\ "o2" \in Labels
        /\ KeepsPlace(MASTER, pc[MASTER], "o2", CallOf(MASTER))
    BY <1>0, <2>1, InCall DEF LabelsIn, TeamWait, Labels, KeepsPlace, OpenedNow, ClosedNow,
                              TableEarly, AliveEarly
  <2> QED BY <1>0, <1>m, <2>1, <2>2
<1>2. CASE Sync
  <2>1. pc[MASTER] = "sync" /\ pc' = [pc EXCEPT ![MASTER] = "idle"] /\ UNCHANGED <<at, script>>
    BY <1>2 DEF Sync, Goto, program
  <2>2. "idle" \in Labels /\ KeepsPlace(MASTER, pc[MASTER], "idle", CallOf(MASTER))
    BY <1>0, <2>1, InCall DEF LabelsIn, Labels, KeepsPlace, TableEarly, AliveEarly
  <2> QED BY <1>0, <1>m, <2>1, <2>2
<1>3. ASSUME NEW t \in Threads, Lead(t) PROVE Same(pc, at, script, pc', at', script')
  <2>1. PICK c \in NextCalls : script' = Append(script, c) /\ Enter(t, c)
    BY <1>3 DEF Lead
  <2>2. c \in Call /\ Legal(script')
    BY <2>1, LegalExtended
  <2>3. Program(pc, at, script') /\ Inside(pc, at, script') /\ Together(pc, at, script')
    BY <2>1, <2>2, Extended DEF Sound, Ordered
  <2>4. pc[t] = "idle" /\ at[t] < Len(script') /\ c = script'[at[t] + 1]
    BY <1>0, <1>3, <2>1, <2>2 DEF Lead
  <2>5. Same(pc, at, script', pc', at', script')
    BY <1>0, <2>1, <2>2, <2>3, <2>4, SameEnter
  <2>6. Same(pc, at, script, pc, at, script')
    BY <1>0, <2>1, <2>2, SameExtended DEF Sound, Ordered
  <2> QED BY <2>5, <2>6, SameTransitive
<1>4. ASSUME NEW t \in Threads, Follow(t) PROVE Same(pc, at, script, pc', at', script')
  BY <1>0, <1>4, SameEnter DEF Follow, Sound, Ordered, Lawful
<1>5. ASSUME NEW t \in Threads, Look(t) PROVE Same(pc, at, script, pc', at', script')
  <2>1. CASE UNCHANGED <<pc, at, script>>
    BY <2>1, SameSelf
  <2>2. CASE ~UNCHANGED <<pc, at, script>>
    <3>1. /\ pc[t] = "look" /\ pc' = [pc EXCEPT ![t] = AfterLook(t)] /\ UNCHANGED <<at, script>>
      BY <1>5, <2>2 DEF Look, program
    <3>2. /\ AfterLook(t) \in LabelsIn(t, CallOf(t)) /\ AfterLook(t) \in Labels
          /\ KeepsPlace(t, pc[t], AfterLook(t), CallOf(t))
      BY <3>1, InCall DEF AfterLook, LabelsIn, Labels, KeepsPlace, OpenedNow, ClosedNow,
                          TableEarly, AliveEarly
    <3> QED BY <1>m, <3>1, <3>2
  <2> QED BY <2>1, <2>2
<1>6. ASSUME NEW t \in Threads, Store(t) PROVE Same(pc, at, script, pc', at', script')
  <2>1. pc[t] = "store" /\ Arrive(t, "ompc") /\ UNCHANGED <<at, script>>
    BY <1>6 DEF Store, program
  <2>2. /\ "ompc" \in LabelsIn(t, CallOf(t)) /\ "ompc" \in TeamWait /\ "ompc" \in Labels
        /\ KeepsPlace(t, pc[t], "ompc", CallOf(t))
    BY <2>1, InCall DEF LabelsIn, TeamWait, Labels, KeepsPlace, TableEarly, AliveEarly
  <2> QED BY <1>m, <2>1, <2>2
<1>7. ASSUME NEW t \in Threads, Transfer(t) PROVE Same(pc, at, script, pc', at', script')
  <2>1. UNCHANGED <<at, script>> /\ pc[t] = "base"
    BY <1>7 DEF Transfer, program
  <2>2. \A u \in Threads :
          \/ pc'[u] = pc[u]
          \/ pc[u] \in {"base", "barr"} /\ pc'[u] \in {"idle", "barr"}
    BY <1>0, <1>7 DEF Transfer, AtBarr
  <2>3. ASSUME NEW u \in Threads, pc[u] \in {"base", "barr"}, NEW label \in {"idle", "barr"}
        PROVE  KeepsPlace(u, pc[u], label, script[at[u]].call)
    <3>1. CallOf(u) = script[at[u]].call /\ CallOf(u) = "io"
      BY <1>0, <2>3, InCall DEF LabelsIn
    <3> QED BY <3>1 DEF KeepsPlace, TableEarly, AliveEarly
  <2>4. \A u \in Threads : pc'[u] = pc[u] \/ KeepsPlace(u, pc[u], pc'[u], script[at[u]].call)
    BY <2>2, <2>3
  <2> QED BY <1>0, <2>1, <2>4, SameMoved DEF Sound, Ordered
<1>8. CASE Terminating \/ UNCHANGED vars
  <2>1. UNCHANGED <<pc, at, script>>
    BY <1>8 DEF Terminating, vars, program
  <2> QED BY <2>1, SameSelf
<1> QED BY <1>1, <1>2, <1>3, <1>4, <1>5, <1>6, <1>7, <1>8 DEF Next, MasterStep, ThreadStep

-----------------------------------------------------------------------------
(* The steps that open and close something *)

Tabled == TableSet(pc, at, script)
Living == AliveSet(pc, at, script)
Opened(u, k) == HasOpened(pc, at, script, u, k)
Closed(u, k) == HasClosed(pc, at, script, u, k)

\* One thread goes from one label to another in its call, without opening or
\* closing the file ...
LEMMA NothingDone ==
  ASSUME NEW p, NEW q, NEW a, NEW s, NEW t \in Threads, Program(p, a, s),
         \A u \in Threads \ {t} : q[u] = p[u],
         s[a[t]].call = "open" => (OpenedNow(t, p[t]) <=> OpenedNow(t, q[t])),
         s[a[t]].call = "close" => (ClosedNow(p[t]) <=> ClosedNow(q[t]))
  PROVE  \A u \in Threads, k \in Files :
           /\ HasOpened(q, a, s, u, k) <=> HasOpened(p, a, s, u, k)
           /\ HasClosed(q, a, s, u, k) <=> HasClosed(p, a, s, u, k)
BY DEF HasOpened, HasClosed

\* ... or opening it ...
LEMMA OpenedByOne ==
  ASSUME NEW p, NEW q, NEW a, NEW s, NEW t \in Threads, Program(p, a, s), a[t] \in 1..Len(s),
         \A u \in Threads \ {t} : q[u] = p[u],
         s[a[t]].call = "open", ~OpenedNow(t, p[t]), OpenedNow(t, q[t])
  PROVE  \A u \in Threads, k \in Files :
           /\ HasOpened(q, a, s, u, k) <=>
                HasOpened(p, a, s, u, k) \/ (u = t /\ k = s[a[t]].file)
           /\ HasClosed(q, a, s, u, k) <=> HasClosed(p, a, s, u, k)
<1>1. a[t] \in 1..a[t]
  OBVIOUS
<1> QED BY <1>1 DEF HasOpened, HasClosed

\* ... or closing it.
LEMMA ClosedByOne ==
  ASSUME NEW p, NEW q, NEW a, NEW s, NEW t \in Threads, Program(p, a, s), a[t] \in 1..Len(s),
         \A u \in Threads \ {t} : q[u] = p[u],
         s[a[t]].call = "close", ~ClosedNow(p[t]), ClosedNow(q[t])
  PROVE  \A u \in Threads, k \in Files :
           /\ HasOpened(q, a, s, u, k) <=> HasOpened(p, a, s, u, k)
           /\ HasClosed(q, a, s, u, k) <=>
                HasClosed(p, a, s, u, k) \/ (u = t /\ k = s[a[t]].file)
<1>1. a[t] \in 1..a[t]
  OBVIOUS
<1> QED BY <1>1 DEF HasOpened, HasClosed

\* The step of one thread as two: to its next label, and, if it is the last one at
\* the barrier, away from it with the others.
LEMMA TwoSteps ==
  ASSUME Sound, MASTER \in Threads, NEW t \in Threads, NEW label \in Labels, pc[t] # "idle",
         UNCHANGED <<at, script>>, label = "idle" \/ label \in LabelsIn(t, CallOf(t)),
         \/ pc' = [pc EXCEPT ![t] = label]
         \/ label \in TeamWait /\ Arrive(t, label)
  PROVE  \E q \in [Threads -> Labels] :
           /\ q[t] = label /\ \A u \in Threads \ {t} : q[u] = pc[u]
           /\ Same(q, at, script, pc', at', script')
<1> DEFINE q == [pc EXCEPT ![t] = label]
<1>1. /\ q \in [Threads -> Labels]
      /\ q[t] = label /\ \A u \in Threads \ {t} : q[u] = pc[u]
      /\ Program(q, at, script) /\ Inside(q, at, script)
  BY NextLabel
<1>q. q = [pc EXCEPT ![t] = label]
  OBVIOUS
<1> HIDE DEF q
<1>2. pc \in [Threads -> Labels]
  BY DEF Sound, TypeOK
<1>3. CASE pc' = q
  <2>1. Same(q, at, script, pc', at', script')
    BY <1>3, SameSelf
  <2> QED BY <1>1, <2>1
<1>4. CASE label \in TeamWait /\ Arrive(t, label)
  <2>1. Same(q, at', script', pc', at', script')
    BY <1>1, <1>2, <1>4, <1>q, SameArrived
  <2> QED BY <1>1, <2>1
<1> QED BY <1>3, <1>4, <1>q

\* Inserting a file puts it last into the table.
LEMMA InsertDoes ==
  ASSUME Sound, Lawful, Insert
  PROVE  /\ CallOf(MASTER) = "open" /\ FileOf(MASTER) \in Files
         /\ Tabled' = Tabled \cup {FileOf(MASTER)}
         /\ \A j \in Tabled : j < FileOf(MASTER)
         /\ Living' = Living
         /\ \A u \in Threads, j \in Files : /\ Opened(u, j)' <=> Opened(u, j)
                                            /\ Closed(u, j)' <=> Closed(u, j)
<1> DEFINE n == at[MASTER]
<1>0. MASTER \in Threads /\ pc[MASTER] = "insert" /\ UNCHANGED <<at, script>>
  BY FileTableAssumption DEF MASTER, Threads, Insert, Goto, program
<1>1. /\ n \in 1..Len(script) /\ script[n].call = "open" /\ script[n].file = FileOf(MASTER)
      /\ CallOf(MASTER) = "open" /\ FileOf(MASTER) \in Files /\ script \in Seq(Call)
  BY <1>0, InCall DEF LabelsIn, Sound, TypeOK
<1>2. pc'[MASTER] = "create" /\ \A u \in Threads \ {MASTER} : pc'[u] = pc[u]
  BY <1>0 DEF Insert, Goto, Sound, TypeOK
<1>3. /\ Tabled = OpenAfter(script, n - 1) /\ Living = OpenAfter(script, n - 1)
      /\ Tabled' = OpenAfter(script, n) /\ Living' = OpenAfter(script, n - 1)
  BY <1>0, <1>1, <1>2 DEF Tabled, Living, TableSet, AliveSet, TableEarly, AliveEarly
<1>4. /\ OpenAfter(script, n) = OpenAfter(script, n - 1) \cup {FileOf(MASTER)}
      /\ \A k \in OpenAfter(script, n - 1) : k < FileOf(MASTER)
  BY <1>1, OpenStep DEF Lawful
<1>5. OpenedNow(MASTER, pc[MASTER]) <=> OpenedNow(MASTER, pc'[MASTER])
  BY <1>0, <1>2 DEF OpenedNow
<1>6. \A u \in Threads, j \in Files : /\ Opened(u, j)' <=> Opened(u, j)
                                      /\ Closed(u, j)' <=> Closed(u, j)
  <2>1. Program(pc, at, script) /\ at[MASTER] \in 1..Len(script)
    BY <1>1 DEF Sound, Ordered
  <2>2. \A u \in Threads, j \in Files :
          /\ HasOpened(pc', at, script, u, j) <=> HasOpened(pc, at, script, u, j)
          /\ HasClosed(pc', at, script, u, j) <=> HasClosed(pc, at, script, u, j)
    BY <1>0, <1>1, <1>2, <1>5, <2>1, NothingDone
  <2> QED BY <1>0, <2>2 DEF Opened, Closed
<1> QED BY <1>1, <1>3, <1>4, <1>6

\* The entry that is removed is the one of the file being closed.
LEMMA RemoveDoes ==
  ASSUME Sound, Lawful, Remove
  PROVE  /\ FileOf(MASTER) \in Tabled
         /\ Tabled' = Tabled \ {FileOf(MASTER)}
         /\ \A j \in Tabled : j <= FileOf(MASTER)
         /\ Living' = Living
         /\ \A u \in Threads, j \in Files : /\ Opened(u, j)' <=> Opened(u, j)
                                            /\ Closed(u, j)' <=> Closed(u, j)
<1> DEFINE n == at[MASTER]
<1>0. MASTER \in Threads /\ pc[MASTER] = "remove" /\ UNCHANGED <<at, script>>
  BY FileTableAssumption DEF MASTER, Threads, Remove, Goto, program
<1>1. /\ n \in 1..Len(script) /\ script[n].call = "close" /\ script[n].file = FileOf(MASTER)
      /\ script \in Seq(Call)
  BY <1>0, InCall DEF LabelsIn, Sound, TypeOK
<1>2. pc'[MASTER] = "free" /\ \A u \in Threads \ {MASTER} : pc'[u] = pc[u]
  BY <1>0 DEF Remove, Goto, Sound, TypeOK
<1>3. /\ Tabled = OpenAfter(script, n - 1) /\ Living = OpenAfter(script, n - 1)
      /\ Tabled' = OpenAfter(script, n) /\ Living' = OpenAfter(script, n - 1)
  BY <1>0, <1>1, <1>2 DEF Tabled, Living, TableSet, AliveSet, TableEarly, AliveEarly
<1>4. OpenAfter(script, n) = OpenAfter(script, n - 1) \ {FileOf(MASTER)}
  BY <1>1, OpenStep DEF Lawful
<1>5. /\ FileOf(MASTER) \in OpenAfter(script, n - 1)
      /\ \A k \in OpenAfter(script, n - 1) : k <= FileOf(MASTER)
  BY <1>1 DEF Lawful, Legal
<1>6. ClosedNow(pc[MASTER]) <=> ClosedNow(pc'[MASTER])
  BY <1>0, <1>2 DEF ClosedNow
<1>7. \A u \in Threads, j \in Files : /\ Opened(u, j)' <=> Opened(u, j)
                                      /\ Closed(u, j)' <=> Closed(u, j)
  <2>1. Program(pc, at, script) /\ at[MASTER] \in 1..Len(script)
    BY <1>1 DEF Sound, Ordered
  <2>2. \A u \in Threads, j \in Files :
          /\ HasOpened(pc', at, script, u, j) <=> HasOpened(pc, at, script, u, j)
          /\ HasClosed(pc', at, script, u, j) <=> HasClosed(pc, at, script, u, j)
    BY <1>0, <1>1, <1>2, <1>6, <2>1, NothingDone
  <2> QED BY <1>0, <2>2 DEF Opened, Closed
<1> QED BY <1>3, <1>4, <1>5, <1>7

\* Freeing the FS ends the life of the file being closed.
LEMMA FreeDoes ==
  ASSUME Sound, Lawful, Free
  PROVE  /\ FileOf(MASTER) \in Files
         /\ Tabled' = Tabled
         /\ Living' = Living \ {FileOf(MASTER)}
         /\ \A u \in Threads, j \in Files : /\ Opened(u, j)' <=> Opened(u, j)
                                            /\ Closed(u, j)' <=> Closed(u, j)
<1> DEFINE n == at[MASTER]
<1>0. MASTER \in Threads /\ pc[MASTER] = "free" /\ UNCHANGED <<at, script>>
  BY FileTableAssumption DEF MASTER, Threads, Free, Goto, program
<1>1. /\ n \in 1..Len(script) /\ script[n].call = "close" /\ script[n].file = FileOf(MASTER)
      /\ script \in Seq(Call) /\ FileOf(MASTER) \in Files
  BY <1>0, InCall DEF LabelsIn, Sound, TypeOK
<1>2. pc'[MASTER] = "idle" /\ \A u \in Threads \ {MASTER} : pc'[u] = pc[u]
  BY <1>0 DEF Free, Goto, Sound, TypeOK
<1>3. /\ Tabled = OpenAfter(script, n) /\ Living = OpenAfter(script, n - 1)
      /\ Tabled' = OpenAfter(script, n) /\ Living' = OpenAfter(script, n)
  BY <1>0, <1>1, <1>2 DEF Tabled, Living, TableSet, AliveSet, TableEarly, AliveEarly
<1>4. OpenAfter(script, n) = OpenAfter(script, n - 1) \ {FileOf(MASTER)}
  BY <1>1, OpenStep DEF Lawful
<1>6. ClosedNow(pc[MASTER]) <=> ClosedNow(pc'[MASTER])
  BY <1>0, <1>2 DEF ClosedNow
<1>7. \A u \in Threads, j \in Files : /\ Opened(u, j)' <=> Opened(u, j)
                                      /\ Closed(u, j)' <=> Closed(u, j)
  <2>1. Program(pc, at, script) /\ at[MASTER] \in 1..Len(script)
    BY <1>1 DEF Sound, Ordered
  <2>2. \A u \in Threads, j \in Files :
          /\ HasOpened(pc', at, script, u, j) <=> HasOpened(pc, at, script, u, j)
          /\ HasClosed(pc', at, script, u, j) <=> HasClosed(pc, at, script, u, j)
    BY <1>0, <1>1, <1>2, <1>6, <2>1, NothingDone
  <2> QED BY <1>0, <2>2 DEF Opened, Closed
<1> QED BY <1>1, <1>3, <1>4, <1>7

\* A thread that is in the middle of a call: those behind have all barriers behind
\* them, it has none; those ahead have none, it has all.
LEMMA Between ==
  ASSUME Sound, NEW t \in Threads, at[t] > 0, NEW u \in Threads
  PROVE  /\ at[t] \in 1..Len(script) /\ at[u] \in 0..Len(script)
         /\ at[u] < at[t] =>
              /\ Passed(pc[t], script[at[t]].call) = 0
              /\ at[u] > 0 => Passed(pc[u], script[at[u]].call) = Barriers(script[at[u]].call)
              /\ \A n \in 1..Len(script) : at[u] < n /\ n < at[t] => script[n].call = "fsync"
         /\ at[u] > at[t] =>
              /\ at[u] > 0 /\ Passed(pc[u], script[at[u]].call) = 0
              /\ Passed(pc[t], script[at[t]].call) = Barriers(script[at[t]].call)
              /\ \A n \in 1..Len(script) : at[t] < n /\ n < at[u] => script[n].call = "fsync"
         /\ at[u] = at[t] => Passed(pc[u], script[at[t]].call) = Passed(pc[t], script[at[t]].call)
<1>1. Ahead(pc, at, script, t, u) /\ Ahead(pc, at, script, u, t) /\ Abreast(pc, at, script, u, t)
  BY DEF Sound, Ordered, Together
<1>2. at[t] \in 0..Len(script) /\ at[u] \in 0..Len(script) /\ Len(script) \in Nat
  BY DEF Sound, TypeOK
<1> QED BY <1>1, <1>2 DEF Ahead, Abreast

\* Labels of omp_file_open_all, by the barriers passed.
LEMMA OpenLabels ==
  ASSUME Sound, NEW u \in Threads, at[u] > 0, script[at[u]].call = "open"
  PROVE  /\ Passed(pc[u], "open") = 2 <=> pc[u] = "idle"
         /\ Passed(pc[u], "open") = 0 /\ u # MASTER => pc[u] = "o1"
         /\ Passed(pc[u], "open") = 0 /\ u = MASTER => pc[u] \in {"insert", "create", "o1"}
         /\ Passed(pc[u], "open") = 1 => pc[u] \in {"opened", "o2", "look", "openfd"}
         /\ Passed(pc[u], "open") = 1 /\ u = MASTER => pc[u] \in {"opened", "o2"}
<1>1. pc[u] # "idle" => pc[u] \in LabelsIn(u, "open")
  BY InCall
<1> QED BY <1>1 DEF LabelsIn, Passed

\* And those of omp_file_close_all.
LEMMA CloseLabels ==
  ASSUME Sound, NEW u \in Threads, at[u] > 0, script[at[u]].call = "close"
  PROVE  /\ Passed(pc[u], "close") = 0 <=> pc[u] = "c1"
         /\ Passed(pc[u], "close") = 1 <=> pc[u] \in {"look", "closefd", "c2"}
         /\ Passed(pc[u], "close") = 2 <=> pc[u] \in {"remove", "free", "idle"}
         /\ pc[u] \in {"remove", "free"} => u = MASTER
<1>1. pc[u] # "idle" => pc[u] \in LabelsIn(u, "close")
  BY InCall
<1> QED BY <1>1 DEF LabelsIn, Passed

\* The file that the MASTER is about to fill in is new to everybody.
LEMMA NotYetOpened ==
  ASSUME Sound, Lawful, MASTER \in Threads, pc[MASTER] = "create", NEW u \in Threads
  PROVE  ~Opened(u, FileOf(MASTER))
<1> DEFINE n == at[MASTER]
<1>1. /\ n \in 1..Len(script) /\ script[n].call = "open" /\ script[n].file = FileOf(MASTER)
      /\ script \in Seq(Call) /\ Passed(pc[MASTER], "open") = 0
  BY InCall DEF LabelsIn, Sound, TypeOK, Passed
<1>2. SUFFICES ASSUME NEW m \in 1..at[u], script[m].call = "open",
                      script[m].file = FileOf(MASTER), m = at[u] => OpenedNow(u, pc[u])
               PROVE  FALSE
  BY DEF Opened, HasOpened
<1>3. at[u] \in 0..Len(script) /\ ~(at[u] > n)
  BY <1>1, Between DEF Barriers
<1>4. m \in 1..Len(script) /\ m <= n
  BY <1>1, <1>3
<1>5. ~(m < n)
  <2>1. SUFFICES ASSUME m < n PROVE FALSE
    OBVIOUS
  <2>2. m \in 1..(n - 1)
    BY <1>1, <1>4, <2>1
  <2>3. script[m].file < script[n].file /\ script[n].file \in Files
    BY <1>1, <1>2, <2>2, CallFacts DEF Lawful, Legal
  <2> QED BY <1>1, <1>2, <2>3 DEF Files
<1>6. at[u] = n /\ m = n
  BY <1>1, <1>3, <1>4, <1>5
<1>7. Passed(pc[u], "open") = 0
  BY <1>1, <1>6, Between
<1>8. CASE u = MASTER
  BY <1>2, <1>6, <1>8 DEF OpenedNow
<1>9. CASE u # MASTER
  <2>1. pc[u] = "o1"
    BY <1>1, <1>6, <1>7, <1>9, OpenLabels
  <2> QED BY <1>2, <1>6, <1>9, <2>1 DEF OpenedNow
<1> QED BY <1>8, <1>9

\* Filling in the FS brings the file to life, opened by the MASTER alone.
LEMMA CreateDoes ==
  ASSUME Sound, Lawful, Create
  PROVE  /\ FileOf(MASTER) \in Files \ Living
         /\ Tabled' = Tabled
         /\ Living' = Living \cup {FileOf(MASTER)}
         /\ \A u \in Threads, j \in Files :
              /\ Opened(u, j)' <=> Opened(u, j) \/ (u = MASTER /\ j = FileOf(MASTER))
              /\ Closed(u, j)' <=> Closed(u, j)
<1> DEFINE n == at[MASTER]
<1>0. /\ MASTER \in Threads /\ pc[MASTER] = "create" /\ UNCHANGED <<at, script>>
      /\ Arrive(MASTER, "o1")
  BY FileTableAssumption DEF MASTER, Threads, Create, program
<1>1. /\ n \in 1..Len(script) /\ script[n].call = "open" /\ script[n].file = FileOf(MASTER)
      /\ CallOf(MASTER) = "open" /\ FileOf(MASTER) \in Files /\ script \in Seq(Call)
  BY <1>0, InCall DEF LabelsIn, Sound, TypeOK
<1>2. "o1" \in Labels /\ "o1" \in TeamWait /\ "o1" \in LabelsIn(MASTER, CallOf(MASTER))
  BY <1>1 DEF Labels, TeamWait, LabelsIn
<1>3. PICK q \in [Threads -> Labels] :
        /\ q[MASTER] = "o1" /\ \A u \in Threads \ {MASTER} : q[u] = pc[u]
        /\ Same(q, at, script, pc', at', script')
  BY <1>0, <1>2, TwoSteps
<1>4. /\ Tabled = OpenAfter(script, n) /\ Living = OpenAfter(script, n - 1)
      /\ TableSet(q, at, script) = OpenAfter(script, n)
      /\ AliveSet(q, at, script) = OpenAfter(script, n)
  BY <1>0, <1>1, <1>3 DEF Tabled, Living, TableSet, AliveSet, TableEarly, AliveEarly
<1>5. /\ OpenAfter(script, n) = OpenAfter(script, n - 1) \cup {FileOf(MASTER)}
      /\ \A k \in OpenAfter(script, n - 1) : k < FileOf(MASTER)
  BY <1>1, OpenStep DEF Lawful
<1>6. FileOf(MASTER) \notin OpenAfter(script, n - 1)
  BY <1>1, <1>5 DEF Files
<1>7. \A u \in Threads, j \in Files :
        /\ HasOpened(q, at, script, u, j) <=>
             Opened(u, j) \/ (u = MASTER /\ j = FileOf(MASTER))
        /\ HasClosed(q, at, script, u, j) <=> Closed(u, j)
  <2>1. ~OpenedNow(MASTER, pc[MASTER]) /\ OpenedNow(MASTER, q[MASTER])
    BY <1>0, <1>3 DEF OpenedNow
  <2>2. Program(pc, at, script)
    BY DEF Sound, Ordered
  <2> HIDE DEF n
  <2>3. \A u \in Threads, j \in Files :
          /\ HasOpened(q, at, script, u, j) <=>
               HasOpened(pc, at, script, u, j) \/ (u = MASTER /\ j = script[at[MASTER]].file)
          /\ HasClosed(q, at, script, u, j) <=> HasClosed(pc, at, script, u, j)
    BY <1>0, <1>1, <1>3, <2>1, <2>2, OpenedByOne DEF n
  <2> QED BY <1>1, <2>3 DEF n, Opened, Closed
<1>8. Tabled' = Tabled /\ Living' = Living \cup {FileOf(MASTER)}
  BY <1>3, <1>4, <1>5 DEF Same, Tabled, Living
<1>9. \A u \in Threads, j \in Files :
        /\ Opened(u, j)' <=> Opened(u, j) \/ (u = MASTER /\ j = FileOf(MASTER))
        /\ Closed(u, j)' <=> Closed(u, j)
  BY <1>3, <1>7 DEF Same, Opened, Closed
<1> QED BY <1>1, <1>4, <1>6, <1>8, <1>9

\* Another thread opens it.
LEMMA OpenFdDoes ==
  ASSUME Sound, Lawful, NEW t \in Threads, OpenFd(t)
  PROVE  /\ t # MASTER /\ FileOf(t) \in Files
         /\ Tabled' = Tabled /\ Living' = Living
         /\ \A u \in Threads, j \in Files :
              /\ Opened(u, j)' <=> Opened(u, j) \/ (u = t /\ j = FileOf(t))
              /\ Closed(u, j)' <=> Closed(u, j)
<1>0. MASTER \in Threads /\ pc[t] = "openfd" /\ UNCHANGED <<at, script>> /\ Arrive(t, "o2")
  BY FileTableAssumption DEF MASTER, Threads, OpenFd, program
<1>1. /\ at[t] \in 1..Len(script) /\ script[at[t]].call = "open"
      /\ script[at[t]].file = FileOf(t) /\ t # MASTER
      /\ CallOf(t) = "open" /\ FileOf(t) \in Files /\ script \in Seq(Call)
  BY <1>0, InCall DEF LabelsIn, Sound, TypeOK
<1>2. "o2" \in Labels /\ "o2" \in TeamWait /\ "o2" \in LabelsIn(t, CallOf(t))
  BY <1>1 DEF Labels, TeamWait, LabelsIn
<1>3. PICK q \in [Threads -> Labels] :
        /\ q[t] = "o2" /\ \A u \in Threads \ {t} : q[u] = pc[u]
        /\ Same(q, at, script, pc', at', script')
  BY <1>0, <1>2, TwoSteps
<1>4. q[MASTER] = pc[MASTER]
  BY <1>0, <1>1, <1>3
<1>5. /\ TableSet(q, at, script) = Tabled
      /\ AliveSet(q, at, script) = Living
  BY <1>4 DEF Tabled, Living, TableSet, AliveSet
<1>7. \A u \in Threads, j \in Files :
        /\ HasOpened(q, at, script, u, j) <=> Opened(u, j) \/ (u = t /\ j = FileOf(t))
        /\ HasClosed(q, at, script, u, j) <=> Closed(u, j)
  <2>1. ~OpenedNow(t, pc[t]) /\ OpenedNow(t, q[t])
    BY <1>0, <1>1, <1>3 DEF OpenedNow
  <2>2. Program(pc, at, script)
    BY DEF Sound, Ordered
  <2>3. \A u \in Threads, j \in Files :
          /\ HasOpened(q, at, script, u, j) <=>
               HasOpened(pc, at, script, u, j) \/ (u = t /\ j = script[at[t]].file)
          /\ HasClosed(q, at, script, u, j) <=> HasClosed(pc, at, script, u, j)
    BY <1>1, <1>3, <2>1, <2>2, OpenedByOne
  <2> QED BY <1>1, <2>3 DEF Opened, Closed
<1>8. Tabled' = Tabled /\ Living' = Living
  BY <1>3, <1>5 DEF Same, Tabled, Living
<1>9. \A u \in Threads, j \in Files :
        /\ Opened(u, j)' <=> Opened(u, j) \/ (u = t /\ j = FileOf(t))
        /\ Closed(u, j)' <=> Closed(u, j)
  BY <1>3, <1>7 DEF Same, Opened, Closed
<1> QED BY <1>1, <1>8, <1>9

\* A thread closes its descriptor of the file.
LEMMA CloseFdDoes ==
  ASSUME Sound, Lawful, NEW t \in Threads, CloseFd(t)
  PROVE  /\ FileOf(t) \in Files
         /\ Tabled' = Tabled /\ Living' = Living
         /\ \A u \in Threads, j \in Files :
              /\ Opened(u, j)' <=> Opened(u, j)
              /\ Closed(u, j)' <=> Closed(u, j) \/ (u = t /\ j = FileOf(t))
<1>0. MASTER \in Threads /\ pc[t] = "closefd" /\ UNCHANGED <<at, script>> /\ Arrive(t, "c2")
  BY FileTableAssumption DEF MASTER, Threads, CloseFd, EndClose, program
<1>1. /\ at[t] \in 1..Len(script) /\ script[at[t]].call = "close"
      /\ script[at[t]].file = FileOf(t)
      /\ CallOf(t) = "close" /\ FileOf(t) \in Files /\ script \in Seq(Call)
  BY <1>0, InCall DEF LabelsIn, Sound, TypeOK
<1>2. "c2" \in Labels /\ "c2" \in TeamWait /\ "c2" \in LabelsIn(t, CallOf(t))
  BY <1>1 DEF Labels, TeamWait, LabelsIn
<1>3. PICK q \in [Threads -> Labels] :
        /\ q[t] = "c2" /\ \A u \in Threads \ {t} : q[u] = pc[u]
        /\ Same(q, at, script, pc', at', script')
  BY <1>0, <1>2, TwoSteps
<1>4. \/ q[MASTER] = pc[MASTER]
      \/ t = MASTER
  BY <1>0, <1>3
<1>5. /\ TableSet(q, at, script) = Tabled
      /\ AliveSet(q, at, script) = Living
  BY <1>0, <1>1, <1>3, <1>4 DEF Tabled, Living, TableSet, AliveSet, TableEarly, AliveEarly
<1>7. \A u \in Threads, j \in Files :
        /\ HasOpened(q, at, script, u, j) <=> Opened(u, j)
        /\ HasClosed(q, at, script, u, j) <=> Closed(u, j) \/ (u = t /\ j = FileOf(t))
  <2>1. ~ClosedNow(pc[t]) /\ ClosedNow(q[t])
    BY <1>0, <1>3 DEF ClosedNow
  <2>2. Program(pc, at, script)
    BY DEF Sound, Ordered
  <2>3. \A u \in Threads, j \in Files :
          /\ HasOpened(q, at, script, u, j) <=> HasOpened(pc, at, script, u, j)
          /\ HasClosed(q, at, script, u, j) <=>
               HasClosed(pc, at, script, u, j) \/ (u = t /\ j = script[at[t]].file)
    BY <1>1, <1>3, <2>1, <2>2, ClosedByOne
  <2> QED BY <1>1, <2>3 DEF Opened, Closed
<1>8. Tabled' = Tabled /\ Living' = Living
  BY <1>3, <1>5 DEF Same, Tabled, Living
<1>9. \A u \in Threads, j \in Files :
        /\ Opened(u, j)' <=> Opened(u, j)
        /\ Closed(u, j)' <=> Closed(u, j) \/ (u = t /\ j = FileOf(t))
  BY <1>3, <1>7 DEF Same, Opened, Closed
<1> QED BY <1>1, <1>8, <1>9

-----------------------------------------------------------------------------
(* What a thread finds *)

\* The part of the script behind the MASTER and the one before it.
LEMMA Spans ==
  ASSUME Sound, Lawful, NEW n \in 1..Len(script)
  PROVE  /\ n - 1 \in 0..Len(script) /\ script[n] \in Call
         /\ script[n].call # "open" => script[n].file \in OpenAfter(script, n - 1)
         /\ script[n].call \in {"io", "fsync"} =>
              OpenAfter(script, n) = OpenAfter(script, n - 1)
         /\ script[n].call = "open" =>
              /\ OpenAfter(script, n) = OpenAfter(script, n - 1) \cup {script[n].file}
              /\ \A k \in OpenAfter(script, n - 1) : k < script[n].file
         /\ script[n].call = "close" =>
              /\ OpenAfter(script, n) = OpenAfter(script, n - 1) \ {script[n].file}
              /\ \A k \in OpenAfter(script, n - 1) : k <= script[n].file
<1>1. script \in Seq(Call) /\ Len(script) \in Nat
  BY DEF Sound, TypeOK
<1>2. n - 1 \in 0..Len(script) /\ script[n] \in Call
  BY <1>1
<1> QED BY <1>1, <1>2, OpenStep DEF Lawful, Legal

\* The calls between two threads, all of them omp_file_fsync.
LEMMA Flushes ==
  ASSUME Sound, NEW m \in 0..Len(script), NEW n \in 0..Len(script), m <= n,
         \A i \in 1..Len(script) : m < i /\ i <= n => script[i].call = "fsync"
  PROVE  OpenAfter(script, n) = OpenAfter(script, m)
<1>1. Len(script) \in Nat
  BY DEF Sound, TypeOK
<1>2. m \in Nat /\ n \in Nat
  BY <1>1
<1>3. \A i \in 1..n : m < i => script[i].call \notin {"open", "close"}
  BY <1>1
<1> QED BY <1>2, <1>3, NoneOpened

\* A file opened in an earlier call than that of t is open to everyone: nobody is
\* still busy opening it.
LEMMA OpenedEarlier ==
  ASSUME Sound, NEW t \in Threads, NEW u \in Threads, NEW k \in Files, at[t] > 0,
         NEW i \in 1..(at[t] - 1), script[i].call = "open", script[i].file = k
  PROVE  Opened(u, k)
<1>1. /\ at[t] \in 1..Len(script) /\ at[u] \in 0..Len(script) /\ Len(script) \in Nat
      /\ i \in 1..Len(script) /\ i < at[t]
  <2>1. at[t] \in 1..Len(script) /\ at[u] \in 0..Len(script) /\ Len(script) \in Nat
    BY Between DEF Sound, TypeOK
  <2> QED BY <2>1
<1>2. CASE i < at[u]
  <2>1. i \in 1..at[u] /\ i # at[u]
    BY <1>1, <1>2
  <2> QED BY <2>1 DEF Opened, HasOpened
<1>3. CASE i = at[u]
  <2>1. Passed(pc[u], script[at[u]].call) = Barriers(script[at[u]].call) /\ at[u] > 0
    BY <1>1, <1>3, Between
  <2>2. pc[u] = "idle"
    BY <1>3, <2>1, OpenLabels DEF Barriers
  <2> QED BY <1>1, <1>3, <2>2 DEF Opened, HasOpened, OpenedNow
<1>4. CASE at[u] < i
  <2>1. script[i].call = "fsync"
    BY <1>1, <1>4, Between
  <2> QED BY <2>1
<1> QED BY <1>1, <1>2, <1>3, <1>4

\* While a thread opens a file, no file that lives has been closed by anyone.
LEMMA NoneClosed ==
  ASSUME Sound, Lawful, MASTER \in Threads, NEW t \in Threads,
         pc[t] \in {"create", "openfd"}, t = MASTER \/ pc[t] = "openfd",
         NEW k \in Files, k \in Living, NEW u \in Threads
  PROVE  ~Closed(u, k)
<1>1. /\ at[t] \in 1..Len(script) /\ script[at[t]].call = "open" /\ Len(script) \in Nat
      /\ pc[t] \in LabelsIn(t, "open")
  <2>1. /\ at[t] \in 1..Len(script) /\ CallOf(t) = script[at[t]].call
        /\ CallOf(t) \in {"open", "close", "io", "fsync"}
        /\ pc[t] \in LabelsIn(t, CallOf(t))
    BY InCall
  <2>2. CallOf(t) = "open"
    BY <2>1 DEF LabelsIn
  <2> QED BY <2>1, <2>2 DEF Sound, TypeOK
<1>2. /\ Passed(pc[t], "open") \in {0, 1}
      /\ t # MASTER => Passed(pc[t], "open") = 1
  BY <1>1 DEF Passed, LabelsIn
<1>3. at[MASTER] = at[t]
  <2>1. /\ at[MASTER] \in 0..Len(script)
        /\ ~(at[MASTER] > at[t])
        /\ at[MASTER] < at[t] => Passed(pc[t], "open") = 0
    BY <1>1, <1>2, Between DEF Barriers
  <2> QED BY <1>1, <1>2, <2>1
<1>4. at[u] \in 0..Len(script) /\ ~(at[u] > at[t])
  BY <1>1, <1>2, Between DEF Barriers
<1>5. SUFFICES ASSUME NEW m \in 1..at[u], script[m].call = "close", script[m].file = k
               PROVE  FALSE
  BY DEF Closed, HasClosed
<1>6. m # at[t]
  BY <1>1, <1>5
<1>7. m \in 1..(at[t] - 1) /\ m \in 1..at[t]
  BY <1>1, <1>4, <1>6
<1>8. k \notin OpenAfter(script, at[t] - 1) /\ k \notin OpenAfter(script, at[t])
  BY <1>5, <1>7 DEF OpenAfter
<1> QED BY <1>3, <1>8 DEF Living, AliveSet

\* The sets, by what the MASTER is about to do.
LEMMA Sets ==
  ASSUME Sound, MASTER \in Threads
  PROVE  LET m == at[MASTER] IN
         /\ m = 0 => Tabled = OpenAfter(script, 0) /\ Living = OpenAfter(script, 0)
         /\ m > 0 =>
              /\ script[m].call \in {"io", "fsync"} =>
                   Tabled = OpenAfter(script, m) /\ Living = OpenAfter(script, m)
              /\ script[m].call = "open" =>
                   /\ Passed(pc[MASTER], "open") # 0 =>
                        Tabled = OpenAfter(script, m) /\ Living = OpenAfter(script, m)
                   /\ Living \in {OpenAfter(script, m), OpenAfter(script, m - 1)}
              /\ script[m].call = "close" =>
                   /\ Passed(pc[MASTER], "close") \in {0, 1} =>
                        Tabled = OpenAfter(script, m - 1) /\ Living = OpenAfter(script, m - 1)
                   /\ pc[MASTER] = "remove" =>
                        Tabled = OpenAfter(script, m - 1) /\ Living = OpenAfter(script, m - 1)
                   /\ pc[MASTER] = "free" =>
                        Tabled = OpenAfter(script, m) /\ Living = OpenAfter(script, m - 1)
                   /\ pc[MASTER] = "idle" =>
                        Tabled = OpenAfter(script, m) /\ Living = OpenAfter(script, m)
BY DEF Tabled, Living, TableSet, AliveSet, TableEarly, AliveEarly, Passed

\* A thread at work on a file, or about to look for it, in a call that uses or
\* closes it; if the MASTER is behind, t has not passed a barrier in its call.
LEMMA FileLives ==
  ASSUME Sound, Lawful, MASTER \in Threads, NEW t \in Threads, pc[t] # "idle",
         \/ CallOf(t) = "open" /\ (t = MASTER => pc[t] \in {"o1", "opened", "o2"})
              /\ (t # MASTER => Passed(pc[t], "open") = 1)
         \/ CallOf(t) = "close" /\ Passed(pc[t], "close") = 1
         \/ CallOf(t) = "close" /\ pc[t] \in {"remove", "free"}
         \/ CallOf(t) \in {"io", "fsync"}
  PROVE  FileOf(t) \in Living
<1> DEFINE n == at[t]
           m == at[MASTER]
<1>1. /\ n \in 1..Len(script) /\ script[n].call = CallOf(t) /\ script[n].file = FileOf(t)
      /\ script \in Seq(Call) /\ Len(script) \in Nat /\ m \in 0..Len(script)
      /\ CallOf(t) \in {"open", "close", "io", "fsync"} /\ pc[t] \in LabelsIn(t, CallOf(t))
  BY InCall DEF Sound, TypeOK
<1>2. CASE CallOf(t) = "open"
  <2>1. t # MASTER => m = n /\ Passed(pc[MASTER], "open") = 1
    BY <1>1, <1>2, Between DEF Barriers
  <2>2. pc[t] \in {"o1", "opened", "o2"} /\ t = MASTER => Living = OpenAfter(script, n)
    BY <1>1, <1>2 DEF Living, AliveSet, AliveEarly
  <2>3. Living = OpenAfter(script, n)
    BY <1>1, <1>2, <2>1, <2>2, Sets
  <2> QED BY <1>1, <1>2, <2>3, Spans
<1>3. CASE CallOf(t) = "close"
  <2>1. t = MASTER \/ Passed(pc[t], "close") = 1
    BY <1>1, <1>3 DEF LabelsIn
  <2>2. t # MASTER => m = n /\ Passed(pc[MASTER], "close") = 1
    BY <1>1, <1>3, <2>1, Between DEF Barriers
  <2>3. Living = OpenAfter(script, n - 1)
    BY <1>1, <1>3, <2>1, <2>2, Sets
  <2> QED BY <1>1, <1>3, <2>3, Spans
<1>4. CASE CallOf(t) \in {"io", "fsync"}
  <2>0. FileOf(t) \in OpenAfter(script, n - 1) /\ FileOf(t) \in OpenAfter(script, n)
    BY <1>1, <1>4, Spans
  <2>1. CASE m = n
    BY <1>1, <1>4, <2>0, <2>1, Sets
  <2>2. CASE m < n
    <3>1. /\ m > 0 => Passed(pc[MASTER], script[m].call) = Barriers(script[m].call)
          /\ \A i \in 1..Len(script) : m < i /\ i < n => script[i].call = "fsync"
      BY <1>1, <2>2, Between
    <3>2. OpenAfter(script, n - 1) = OpenAfter(script, m)
      <4>1. n - 1 \in 0..Len(script) /\ m <= n - 1
            /\ \A i \in 1..Len(script) : m < i /\ i <= n - 1 => script[i].call = "fsync"
        BY <1>1, <2>2, <3>1
      <4> QED BY <1>1, <4>1, Flushes
    <3>3. CASE m = 0
      BY <2>0, <3>2, <3>3, Sets
    <3>4. CASE m > 0
      <4>1. m \in 1..Len(script)
        BY <1>1, <3>4
      <4>2. script[m].call \in {"open", "close", "io", "fsync"}
        BY <1>1, <4>1, CallFacts
      <4>3. CASE script[m].call = "open"
        BY <2>0, <3>1, <3>2, <3>4, <4>3, Sets DEF Barriers
      <4>4. CASE script[m].call = "close"
        <5>1. pc[MASTER] \in {"remove", "free", "idle"}
          BY <3>1, <3>4, <4>4, CloseLabels DEF Barriers
        <5>2. OpenAfter(script, m) \subseteq OpenAfter(script, m - 1)
          BY <4>1, <4>4, Spans
        <5>3. Living \in {OpenAfter(script, m), OpenAfter(script, m - 1)}
          BY <3>4, <4>4, <5>1, Sets
        <5> QED BY <2>0, <3>2, <5>2, <5>3
      <4>5. CASE script[m].call \in {"io", "fsync"}
        BY <2>0, <3>2, <3>4, <4>5, Sets
      <4> QED BY <4>2, <4>3, <4>4, <4>5
    <3> QED BY <1>1, <3>3, <3>4
  <2>3. CASE m > n
    <3>1. /\ m > 0 /\ Passed(pc[MASTER], script[m].call) = 0
          /\ \A i \in 1..Len(script) : n < i /\ i < m => script[i].call = "fsync"
      BY <1>1, <2>3, Between
    <3>2. OpenAfter(script, m - 1) = OpenAfter(script, n)
      <4>1. m - 1 \in 0..Len(script) /\ n <= m - 1 /\ n \in 0..Len(script)
            /\ \A i \in 1..Len(script) : n < i /\ i <= m - 1 => script[i].call = "fsync"
        BY <1>1, <2>3, <3>1
      <4> QED BY <4>1, Flushes
    <3>3. m \in 1..Len(script)
      BY <1>1, <3>1
    <3>4. script[m].call \in {"open", "close", "io", "fsync"}
      BY <1>1, <3>3, CallFacts
    <3>5. Living \in {OpenAfter(script, m), OpenAfter(script, m - 1)}
      BY <3>1, <3>4, CloseLabels, Sets
    <3>6. script[m].call = "close" => Living = OpenAfter(script, m - 1)
      BY <3>1, Sets
    <3>7. script[m].call # "close" => OpenAfter(script, m - 1) \subseteq OpenAfter(script, m)
      BY <3>3, <3>4, Spans
    <3> QED BY <2>0, <3>2, <3>5, <3>6, <3>7
  <2> QED BY <1>1, <2>1, <2>2, <2>3
<1> QED BY <1>1, <1>2, <1>3, <1>4

\* What the table holds while t looks for its file: that file, and files that are
\* alive; all have been opened in earlier calls, or in this one.
LEMMA TableWhileLooking ==
  ASSUME Sound, Lawful, MASTER \in Threads, NEW t \in Threads, pc[t] = "look"
  PROVE  /\ FileOf(t) \in Tabled /\ Tabled \subseteq Living
         /\ \/ CallOf(t) = "open" /\ Tabled = OpenAfter(script, at[t])
            \/ \E x \in 0..(at[t] - 1) : Tabled = OpenAfter(script, x)
<1> DEFINE n == at[t]
           m == at[MASTER]
<1>1. /\ n \in 1..Len(script) /\ script[n].call = CallOf(t) /\ script[n].file = FileOf(t)
      /\ script \in Seq(Call) /\ Len(script) \in Nat /\ m \in 0..Len(script)
      /\ CallOf(t) \in {"open", "close", "io", "fsync"} /\ pc[t] \in LabelsIn(t, CallOf(t))
      /\ n - 1 \in 0..(n - 1)
  BY InCall DEF Sound, TypeOK
<1>2. CASE CallOf(t) = "open"
  <2>1. Passed(pc[t], "open") = 1
    BY DEF Passed
  <2>2. m = n /\ Passed(pc[MASTER], "open") = 1
    BY <1>1, <1>2, <2>1, Between DEF Barriers
  <2>3. Tabled = OpenAfter(script, n) /\ Living = OpenAfter(script, n)
    BY <1>1, <1>2, <2>2, Sets
  <2>4. FileOf(t) \in OpenAfter(script, n)
    BY <1>1, <1>2, Spans
  <2> QED BY <1>2, <2>3, <2>4
<1>3. CASE CallOf(t) = "close"
  <2>1. Passed(pc[t], "close") = 1
    BY DEF Passed
  <2>2. m = n /\ Passed(pc[MASTER], "close") = 1
    BY <1>1, <1>3, <2>1, Between DEF Barriers
  <2>3. Tabled = OpenAfter(script, n - 1) /\ Living = OpenAfter(script, n - 1)
    BY <1>1, <1>3, <2>2, Sets
  <2>4. FileOf(t) \in OpenAfter(script, n - 1)
    BY <1>1, <1>3, Spans
  <2> QED BY <1>1, <2>3, <2>4
<1>4. CASE CallOf(t) \in {"io", "fsync"}
  <2>0. /\ FileOf(t) \in OpenAfter(script, n - 1)
        /\ OpenAfter(script, n) = OpenAfter(script, n - 1)
    BY <1>1, <1>4, Spans
  <2>1. CASE m = n
    BY <1>1, <1>4, <2>0, <2>1, Sets
  <2>2. CASE m < n
    <3>1. /\ m > 0 => Passed(pc[MASTER], script[m].call) = Barriers(script[m].call)
          /\ \A i \in 1..Len(script) : m < i /\ i < n => script[i].call = "fsync"
      BY <1>1, <2>2, Between
    <3>2. OpenAfter(script, n - 1) = OpenAfter(script, m) /\ m \in 0..(n - 1)
      <4>1. n - 1 \in 0..Len(script) /\ m <= n - 1 /\ m \in 0..(n - 1)
            /\ \A i \in 1..Len(script) : m < i /\ i <= n - 1 => script[i].call = "fsync"
        BY <1>1, <2>2, <3>1
      <4> QED BY <1>1, <4>1, Flushes
    <3>3. CASE m = 0
      BY <1>1, <2>0, <3>2, <3>3, Sets
    <3>4. CASE m > 0
      <4>1. m \in 1..Len(script) /\ m - 1 \in 0..(n - 1)
        BY <1>1, <2>2, <3>4
      <4>2. script[m].call \in {"open", "close", "io", "fsync"}
        BY <1>1, <4>1, CallFacts
      <4>3. CASE script[m].call = "open"
        BY <2>0, <3>1, <3>2, <3>4, <4>3, Sets DEF Barriers
      <4>4. CASE script[m].call = "close"
        <5>1. pc[MASTER] \in {"remove", "free", "idle"}
          BY <3>1, <3>4, <4>4, CloseLabels DEF Barriers
        <5>2. OpenAfter(script, m) \subseteq OpenAfter(script, m - 1)
          BY <4>1, <4>4, Spans
        <5>3. CASE pc[MASTER] = "remove"
          BY <2>0, <3>2, <3>4, <4>1, <4>4, <5>2, <5>3, Sets
        <5>4. CASE pc[MASTER] = "free"
          BY <2>0, <3>2, <3>4, <4>4, <5>2, <5>4, Sets
        <5>5. CASE pc[MASTER] = "idle"
          BY <2>0, <3>2, <3>4, <4>4, <5>5, Sets
        <5> QED BY <5>1, <5>3, <5>4, <5>5
      <4>5. CASE script[m].call \in {"io", "fsync"}
        BY <2>0, <3>2, <3>4, <4>5, Sets
      <4> QED BY <4>2, <4>3, <4>4, <4>5
    <3> QED BY <1>1, <3>3, <3>4
  <2>3. ~(m > n)
    <3>1. CASE CallOf(t) = "io"
      BY <1>1, <3>1, Between DEF Barriers, Passed
    <3>2. CASE CallOf(t) = "fsync"
      <4>1. t = MASTER
        BY <1>1, <3>2 DEF LabelsIn
      <4> QED BY <1>1, <4>1
    <3> QED BY <1>4, <3>1, <3>2
  <2> QED BY <1>1, <2>1, <2>2, <2>3
<1> QED BY <1>1, <1>2, <1>3, <1>4

\* Every file that get_fs_from_table passes on the way has been opened by all
\* threads: each slot holds a descriptor of that file, and none what malloc left.
LEMMA Lookable ==
  ASSUME Sound, Lawful, MASTER \in Threads, NEW t \in Threads, pc[t] = "look",
         NEW j \in Tabled, j < FileOf(t), NEW u \in Threads
  PROVE  j \in Living /\ Opened(u, j)
<1>1. /\ at[t] \in 1..Len(script) /\ script[at[t]].file = FileOf(t) /\ FileOf(t) \in Files
      /\ Len(script) \in Nat
  BY InCall DEF Sound, TypeOK
<1>2. j \in Living
  BY TableWhileLooking
<1>3. PICK x \in 0..at[t] : j \in OpenAfter(script, x) /\ (x = at[t] => CallOf(t) = "open")
  <2>1. CASE CallOf(t) = "open" /\ Tabled = OpenAfter(script, at[t])
    <3>1. at[t] \in 0..at[t]
      BY <1>1
    <3> QED BY <2>1, <3>1
  <2>2. CASE \E x \in 0..(at[t] - 1) : Tabled = OpenAfter(script, x)
    <3>1. PICK x \in 0..(at[t] - 1) : Tabled = OpenAfter(script, x)
      BY <2>2
    <3>2. x \in 0..at[t] /\ x # at[t]
      BY <1>1, <3>1
    <3> QED BY <3>1, <3>2
  <2> QED BY <2>1, <2>2, TableWhileLooking
<1>4. PICK i \in 1..x : script[i].call = "open" /\ script[i].file = j /\ j \in Files
  BY <1>3 DEF OpenAfter
<1>5. i # at[t]
  BY <1>1, <1>4 DEF Files
<1>6. i \in 1..(at[t] - 1)
  BY <1>1, <1>3, <1>4, <1>5
<1> QED BY <1>1, <1>2, <1>4, <1>6, OpenedEarlier

\* A thread at work on a file works on one that lives.
LEMMA WorksOnLiving ==
  ASSUME Sound, Lawful, MASTER \in Threads, NEW t \in Threads, AtWork(t)
  PROVE  FileOf(t) \in Living
<1>1. pc[t] # "idle"
  BY DEF AtWork
<1>2. pc[t] \in LabelsIn(t, CallOf(t)) /\ CallOf(t) \in {"open", "close", "io", "fsync"}
  BY <1>1, InCall
<1>3. CASE CallOf(t) = "open"
  <2>1. t = MASTER => pc[t] \in {"o1", "opened", "o2"}
    BY <1>2, <1>3 DEF LabelsIn, AtWork
  <2>2. t # MASTER => Passed(pc[t], "open") = 1
    BY <1>2, <1>3 DEF LabelsIn, AtWork, Passed
  <2> QED BY <1>1, <1>3, <2>1, <2>2, FileLives
<1>4. CASE CallOf(t) = "close"
  <2>1. Passed(pc[t], "close") = 1 \/ pc[t] \in {"remove", "free"}
    BY <1>2, <1>4 DEF LabelsIn, AtWork, Passed
  <2> QED BY <1>1, <1>4, <2>1, FileLives
<1>5. CASE CallOf(t) \in {"io", "fsync"}
  BY <1>1, <1>5, FileLives
<1> QED BY <1>2, <1>3, <1>4, <1>5

\* The MASTER has opened every file that lives.
LEMMA MasterHasOpened ==
  ASSUME Sound, MASTER \in Threads, NEW k \in Files, k \in Living
  PROVE  Opened(MASTER, k)
<1> DEFINE m == at[MASTER]
<1>1. m \in 0..Len(script) /\ Len(script) \in Nat
  BY DEF Sound, TypeOK
<1>2. CASE m > 0 /\ AliveEarly(pc[MASTER], script[m].call)
  <2>1. k \in OpenAfter(script, m - 1)
    BY <1>2 DEF Living, AliveSet
  <2>2. PICK i \in 1..(m - 1) : script[i].call = "open" /\ script[i].file = k
    BY <2>1 DEF OpenAfter
  <2> QED BY <1>1, <1>2, <2>2, OpenedEarlier
<1>3. CASE ~(m > 0 /\ AliveEarly(pc[MASTER], script[m].call))
  <2>1. k \in OpenAfter(script, m)
    BY <1>3 DEF Living, AliveSet
  <2>2. PICK i \in 1..m : script[i].call = "open" /\ script[i].file = k
    BY <2>1 DEF OpenAfter
  <2>3. i = m => OpenedNow(MASTER, pc[MASTER])
    <3>1. SUFFICES ASSUME i = m PROVE OpenedNow(MASTER, pc[MASTER])
      OBVIOUS
    <3>2. m > 0 /\ script[m].call = "open" /\ pc[MASTER] \notin {"insert", "create"}
      BY <1>1, <1>3, <2>2, <3>1 DEF AliveEarly
    <3>3. CASE pc[MASTER] = "idle"
      BY <3>3 DEF OpenedNow
    <3>4. CASE pc[MASTER] # "idle"
      <4>1. pc[MASTER] \in LabelsIn(MASTER, "open")
        BY <3>2, <3>4, InCall
      <4> QED BY <3>2, <4>1 DEF LabelsIn, OpenedNow
    <3> QED BY <3>3, <3>4
  <2> QED BY <2>2, <2>3 DEF Opened, HasOpened
<1> QED BY <1>2, <1>3

-----------------------------------------------------------------------------
(* The table, the descriptors, and the lookups *)

\* The table holds the files in the order of opening them, each once.
TableInv ==
  /\ \A i, j \in DOMAIN table : i < j => table[i] < table[j]
  /\ Tabled = {table[i] : i \in DOMAIN table}
  /\ alive = Living

\* Slot u of file k: filled in from when u has opened the file until the FS is
\* freed, with a descriptor that refers to k until u closes it.
Row(k, u) ==
  /\ fd[k][u] \in Descriptors \cup {Unknown}
  /\ fd[k][u] # Unknown <=> k \in Living /\ Opened(u, k)
  /\ fd[k][u] # Unknown => kernel[fd[k][u]] = k \/ Closed(u, k)

Distinct ==
  \A k, j \in Files, u, v \in Threads :
    fd[k][u] # Unknown /\ fd[k][u] = fd[j][v] => k = j /\ u = v

RowInv ==
  /\ \A k \in Files : handle[k] \in Descriptors \cup {Unknown}
  /\ \A k \in Files : k \in Living => handle[k] = fd[k][MASTER]
  /\ \A k \in Files, u \in Threads : Row(k, u)
  /\ Distinct

\* A lookup has not passed the file it looks for; who is at work has found it.
LookInv ==
  \A t \in Threads :
    /\ pc[t] # "look" => index[t] = 1
    /\ pc[t] = "look" => \A i \in DOMAIN table : i < index[t] => table[i] # FileOf(t)
    /\ AtWork(t) => fs[t] = FileOf(t)
    /\ t = MASTER /\ pc[t] = "create" => fs[t] = FileOf(t)

Lifo == Sound /\ Lawful /\ TableInv /\ RowInv /\ LookInv

\* Slots of an FS never hold what a failed open() returns.
LEMMA NothingFails == ASSUME RowInv PROVE NeverFailed
BY FileTableAssumption DEF RowInv, NeverFailed, Descriptors, Failed, Unknown

\* There is a MASTER.
LEMMA IsThread == MASTER \in Threads
BY FileTableAssumption DEF MASTER, Threads

\* All other steps leave the table and the descriptors alone.
LEMMA QuietStep ==
  ASSUME ~AnyOrder, Lifo, [Next]_vars
  PROVE  \/ Insert \/ Create \/ Remove \/ Free
         \/ \E t \in Threads : OpenFd(t) \/ CloseFd(t)
         \/ /\ UNCHANGED <<table, alive, handle, kernel>>
            /\ UNCHANGED fd \/ \E t \in Threads : Transfer(t)
            /\ Tabled' = Tabled /\ Living' = Living
            /\ \A u \in Threads, k \in Files : /\ Opened(u, k)' <=> Opened(u, k)
                                               /\ Closed(u, k)' <=> Closed(u, k)
<1>1. \/ Insert \/ Create \/ Remove \/ Free
      \/ \E t \in Threads : OpenFd(t) \/ CloseFd(t)
      \/ /\ UNCHANGED <<table, alive, handle, kernel>>
         /\ UNCHANGED fd \/ \E t \in Threads : Transfer(t)
  BY DEF Next, MasterStep, ThreadStep, Terminating, AwaitOpened, Sync, Lead, Follow, Enter,
         Look, Store, Transfer, memory, vars
<1>2. \/ Insert \/ Create \/ Remove \/ Free
      \/ \E t \in Threads : OpenFd(t) \/ CloseFd(t)
      \/ Same(pc, at, script, pc', at', script')
  BY SameStep, NothingFails DEF Lifo
<1>3. Same(pc, at, script, pc', at', script') =>
        /\ Tabled' = Tabled /\ Living' = Living
        /\ \A u \in Threads, k \in Files : /\ Opened(u, k)' <=> Opened(u, k)
                                           /\ Closed(u, k)' <=> Closed(u, k)
  BY DEF Same, Tabled, Living, Opened, Closed
<1> QED BY <1>1, <1>2, <1>3

\* The table keeps its order.
LEMMA TableStep ==
  ASSUME ~AnyOrder, Lifo, [Next]_vars
  PROVE  TableInv'
<1>0. /\ table \in Seq(Files) /\ Len(table) \in Nat /\ DOMAIN table = 1..Len(table)
      /\ alive = Living /\ Tabled = {table[i] : i \in DOMAIN table} /\ MASTER \in Threads
      /\ \A i, j \in DOMAIN table : i < j => table[i] < table[j]
      /\ \A i \in DOMAIN table : table[i] \in Nat
  <2>1. table \in Seq(Files) /\ Files \subseteq Nat
    BY DEF Lifo, Sound, TypeOK, Files
  <2>2. /\ Len(table) \in Nat /\ DOMAIN table = 1..Len(table)
        /\ \A i \in DOMAIN table : table[i] \in Files
    BY <2>1
  <2>3. \A i \in DOMAIN table : table[i] \in Nat
    BY <2>1, <2>2
  <2> QED BY <2>1, <2>2, <2>3, IsThread DEF Lifo, TableInv
<1>1. CASE Insert
  <2> DEFINE k == FileOf(MASTER)
  <2>1. /\ k \in Files /\ Tabled' = Tabled \cup {k} /\ \A j \in Tabled : j < k
        /\ Living' = Living /\ table' = Append(table, FileOf(MASTER)) /\ alive' = alive
    BY <1>1, InsertDoes DEF Lifo, Insert, memory
  <2> HIDE DEF k
  <2>2. /\ DOMAIN table' = DOMAIN table \cup {Len(table) + 1} /\ Len(table) + 1 \notin DOMAIN table
        /\ \A i \in DOMAIN table : table'[i] = table[i]
        /\ table'[Len(table) + 1] = k
    BY <1>0, <2>1 DEF k
  <2>3. \A i \in DOMAIN table : table[i] < k /\ i < Len(table) + 1
    BY <1>0, <2>1
  <2>4. \A i, j \in DOMAIN table' : i < j => table'[i] < table'[j]
    BY <1>0, <2>2, <2>3
  <2>5. Tabled' = {table'[i] : i \in DOMAIN table'}
    BY <1>0, <2>1, <2>2
  <2> QED BY <1>0, <2>1, <2>4, <2>5 DEF TableInv
<1>2. CASE Remove
  <2> DEFINE k == FileOf(MASTER)
  <2>1. /\ k \in Tabled /\ Tabled' = Tabled \ {k} /\ \A j \in Tabled : j <= k
        /\ Living' = Living /\ table' = SubSeq(table, 1, Len(table) - 1) /\ alive' = alive
    BY <1>2, RemoveDoes DEF Lifo, Remove, AllButLast, memory
  <2> HIDE DEF k
  <2>2. PICK p \in DOMAIN table : table[p] = k
    BY <1>0, <2>1
  <2>3. Len(table) \in DOMAIN table /\ p <= Len(table)
    BY <1>0
  <2>4. table[Len(table)] <= k
    BY <1>0, <2>1, <2>3
  <2>5. p = Len(table)
    BY <1>0, <2>2, <2>3, <2>4
  <2>6. /\ DOMAIN table' = DOMAIN table \ {p}
        /\ \A i \in DOMAIN table' : table'[i] = table[i]
    BY <1>0, <2>1, <2>3, <2>5
  <2>7. \A i, j \in DOMAIN table' : i < j => table'[i] < table'[j]
    BY <1>0, <2>6
  <2>8. \A i \in DOMAIN table \ {p} : table[i] # k
    <3> SUFFICES ASSUME NEW i \in DOMAIN table \ {p} PROVE table[i] # k
      OBVIOUS
    <3>1. i < p
      BY <1>0, <2>5
    <3> QED BY <1>0, <2>2, <3>1
  <2>9. Tabled' = {table'[i] : i \in DOMAIN table'}
    BY <1>0, <2>1, <2>2, <2>6, <2>8
  <2> QED BY <1>0, <2>1, <2>7, <2>9 DEF TableInv
<1>3. CASE Create
  <2>1. Tabled' = Tabled /\ Living' = Living \cup {FileOf(MASTER)} /\ table' = table
    BY <1>3, CreateDoes DEF Lifo, Create
  <2>2. alive' = alive \cup {FileOf(MASTER)}
    BY <1>0, <1>3 DEF Lifo, LookInv, Create
  <2> QED BY <1>0, <2>1, <2>2 DEF TableInv
<1>4. CASE Free
  <2>1. Tabled' = Tabled /\ Living' = Living \ {FileOf(MASTER)} /\ table' = table
    BY <1>4, FreeDoes DEF Lifo, Free
  <2>2. pc[MASTER] = "free" /\ alive' = alive \ {fs[MASTER]}
    BY <1>4 DEF Free, Goto
  <2>3. fs[MASTER] = FileOf(MASTER)
    BY <1>0, <2>2 DEF Lifo, LookInv, AtWork
  <2> QED BY <1>0, <2>1, <2>2, <2>3 DEF TableInv
<1>5. ASSUME NEW t \in Threads, OpenFd(t) \/ CloseFd(t) PROVE TableInv'
  <2>1. Tabled' = Tabled /\ Living' = Living
    BY <1>5, OpenFdDoes, CloseFdDoes DEF Lifo
  <2>2. table' = table /\ alive' = alive
    BY <1>5 DEF OpenFd, CloseFd, memory
  <2> QED BY <1>0, <2>1, <2>2 DEF TableInv
<1>6. CASE UNCHANGED <<table, alive>> /\ Tabled' = Tabled /\ Living' = Living
  BY <1>0, <1>6 DEF TableInv
<1> QED BY <1>1, <1>2, <1>3, <1>4, <1>5, <1>6, QuietStep

\* The slots keep to their files and threads.
LEMMA RowStep ==
  ASSUME ~MayFail, ~AnyOrder, Lifo, [Next]_vars
  PROVE  RowInv'
<1>0. /\ MASTER \in Threads
      /\ fd \in [Files -> [Threads -> Slot]] /\ handle \in [Files -> Slot]
      /\ kernel \in [Descriptors -> Files \cup {NoFile}]
      /\ Unknown \notin Descriptors /\ Failed \notin Descriptors /\ Failed # Unknown
      /\ NoFile \notin Files /\ alive = Living
  BY IsThread DEF Lifo, Sound, TypeOK, Descriptors, Unknown, Failed, NoFile, Files, TableInv
<1>r. /\ \A k \in Files : handle[k] \in Descriptors \cup {Unknown}
      /\ \A k \in Files : k \in Living => handle[k] = fd[k][MASTER]
      /\ \A k \in Files, u \in Threads : Row(k, u)
      /\ Distinct
  BY DEF Lifo, RowInv
<1>f. ASSUME NEW d \in Descriptors, kernel[d] = NoFile,
             \A j \in Files, v \in Threads : j \in Living => ~Closed(v, j)
      PROVE  \A j \in Files, v \in Threads : fd[j][v] # d
  <2>1. SUFFICES ASSUME NEW j \in Files, NEW v \in Threads, fd[j][v] = d PROVE FALSE
    OBVIOUS
  <2>2. fd[j][v] # Unknown /\ Row(j, v)
    BY <1>0, <1>r, <2>1
  <2>3. j \in Living /\ kernel[d] = j
    BY <1>f, <2>1, <2>2 DEF Row
  <2> QED BY <1>0, <1>f, <2>3
<1>1. CASE Create
  <2> DEFINE k == FileOf(MASTER)
  <2>0. pc[MASTER] = "create" /\ fs[MASTER] = k
    BY <1>0, <1>1 DEF Create, Lifo, LookInv
  <2>1. /\ k \in Files /\ k \notin Living /\ Living' = Living \cup {k}
        /\ \A u \in Threads, j \in Files :
             /\ Opened(u, j)' <=> Opened(u, j) \/ (u = MASTER /\ j = k)
             /\ Closed(u, j)' <=> Closed(u, j)
        /\ \A u \in Threads : ~Opened(u, k)
    BY <1>0, <1>1, <2>0, CreateDoes, NotYetOpened DEF Lifo
  <2>2. PICK d \in OpenResults :
          /\ handle' = [handle EXCEPT ![k] = d] /\ fd' = [fd EXCEPT ![k][MASTER] = d]
          /\ kernel' = [e \in Descriptors |-> IF e = d THEN k ELSE kernel[e]]
    BY <1>1, <2>0 DEF Create
  <2>3. d \in Descriptors /\ kernel[d] = NoFile
    BY DEF OpenResults, LowestFree
  <2>4. \A j \in Files, v \in Threads : j \in Living => ~Closed(v, j)
    BY <1>0, <2>0, NoneClosed DEF Lifo
  <2>5. \A j \in Files, v \in Threads : fd[j][v] # d
    BY <1>f, <2>3, <2>4
  <2> HIDE DEF k
  <2>6. /\ fd'[k][MASTER] = d
        /\ \A j \in Files, v \in Threads : j # k \/ v # MASTER => fd'[j][v] = fd[j][v]
        /\ handle'[k] = d /\ \A j \in Files : j # k => handle'[j] = handle[j]
        /\ kernel'[d] = k /\ \A e \in Descriptors : e # d => kernel'[e] = kernel[e]
    BY <1>0, <2>1, <2>2, <2>3
  <2>7. \A j \in Files : handle'[j] \in Descriptors \cup {Unknown}
    BY <1>r, <2>3, <2>6
  <2>8. \A j \in Files : j \in Living' => handle'[j] = fd'[j][MASTER]
    BY <1>0, <1>r, <2>1, <2>6
  <2>9. ASSUME NEW j \in Files, NEW v \in Threads PROVE Row(j, v)'
    <3>1. CASE j = k /\ v = MASTER
      BY <2>1, <2>3, <2>6, <3>1, <1>0 DEF Row
    <3>2. CASE j = k /\ v # MASTER
      <4>1. fd'[j][v] = fd[j][v] /\ fd[j][v] = Unknown
        BY <1>r, <2>1, <2>6, <3>2 DEF Row
      <4>2. ~Opened(v, j)'
        BY <2>1, <3>2
      <4> QED BY <4>1, <4>2 DEF Row
    <3>3. CASE j # k
      <4>1. Row(j, v) /\ fd'[j][v] = fd[j][v] /\ fd[j][v] # d
        BY <1>r, <2>5, <2>6, <3>3
      <4>2. fd[j][v] \in Descriptors => kernel'[fd[j][v]] = kernel[fd[j][v]]
        BY <2>6, <4>1
      <4>3. (j \in Living' <=> j \in Living) /\ (Opened(v, j)' <=> Opened(v, j))
            /\ (Closed(v, j)' <=> Closed(v, j))
        BY <2>1, <3>3
      <4> QED BY <4>1, <4>2, <4>3 DEF Row
    <3> QED BY <3>1, <3>2, <3>3
  <2>10. Distinct'
    BY <1>0, <1>r, <2>5, <2>6 DEF Distinct
  <2> QED BY <2>7, <2>8, <2>9, <2>10 DEF RowInv
<1>2. CASE Free
  <2> DEFINE k == FileOf(MASTER)
  <2>0. pc[MASTER] = "free" /\ fs[MASTER] = k
    BY <1>0, <1>2 DEF Free, Goto, Lifo, LookInv, AtWork
  <2>1. /\ k \in Files /\ Living' = Living \ {k}
        /\ \A u \in Threads, j \in Files : /\ Opened(u, j)' <=> Opened(u, j)
                                           /\ Closed(u, j)' <=> Closed(u, j)
    BY <1>2, FreeDoes DEF Lifo
  <2>2. /\ fd' = [fd EXCEPT ![k] = [t \in Threads |-> Unknown]]
        /\ UNCHANGED <<handle, kernel>>
    BY <1>2, <2>0 DEF Free
  <2> HIDE DEF k
  <2>3. \A j \in Files, v \in Threads : fd'[j][v] = IF j = k THEN Unknown ELSE fd[j][v]
    BY <1>0, <2>1, <2>2
  <2>4. ASSUME NEW j \in Files, NEW v \in Threads PROVE Row(j, v)'
    <3>1. Row(j, v)
      BY <1>r
    <3> QED BY <2>1, <2>2, <2>3, <3>1 DEF Row
  <2>5. Distinct'
    BY <1>r, <2>3 DEF Distinct
  <2>6. \A j \in Files : j \in Living' => handle'[j] = fd'[j][MASTER]
    BY <1>0, <1>r, <2>1, <2>2, <2>3
  <2> QED BY <1>r, <2>2, <2>4, <2>5, <2>6 DEF RowInv
<1>3. ASSUME NEW t \in Threads, OpenFd(t) PROVE RowInv'
  <2> DEFINE k == FileOf(t)
  <2>0. pc[t] = "openfd" /\ fs[t] = k
    BY <1>3 DEF OpenFd, Lifo, LookInv, AtWork
  <2>1. /\ k \in Files /\ t # MASTER /\ Living' = Living
        /\ \A u \in Threads, j \in Files :
             /\ Opened(u, j)' <=> Opened(u, j) \/ (u = t /\ j = k)
             /\ Closed(u, j)' <=> Closed(u, j)
    BY <1>3, OpenFdDoes DEF Lifo
  <2>w. k \in Living
    BY <1>0, <2>0, WorksOnLiving DEF Lifo, AtWork
  <2>2. PICK d \in OpenResults :
          /\ fd' = IF d = Failed THEN fd ELSE [fd EXCEPT ![k][t] = d]
          /\ kernel' = [e \in Descriptors |-> IF e = d THEN k ELSE kernel[e]]
    BY <1>3, <2>0 DEF OpenFd
  <2>3. d \in Descriptors /\ kernel[d] = NoFile /\ handle' = handle
    BY <1>3 DEF OpenResults, LowestFree, OpenFd
  <2>4. \A j \in Files, v \in Threads : j \in Living => ~Closed(v, j)
    BY <1>0, <2>0, NoneClosed DEF Lifo
  <2>5. \A j \in Files, v \in Threads : fd[j][v] # d
    BY <1>f, <2>3, <2>4
  <2> HIDE DEF k
  <2>6. /\ fd'[k][t] = d
        /\ \A j \in Files, v \in Threads : j # k \/ v # t => fd'[j][v] = fd[j][v]
        /\ kernel'[d] = k /\ \A e \in Descriptors : e # d => kernel'[e] = kernel[e]
    BY <1>0, <2>1, <2>2, <2>3
  <2>8. \A j \in Files : j \in Living' => handle'[j] = fd'[j][MASTER]
    BY <1>0, <1>r, <2>1, <2>3, <2>6
  <2>9. ASSUME NEW j \in Files, NEW v \in Threads PROVE Row(j, v)'
    <3>1. CASE j = k /\ v = t
      BY <2>1, <2>w, <2>3, <2>6, <3>1, <1>0 DEF Row
    <3>3. CASE j # k \/ v # t
      <4>1. Row(j, v) /\ fd'[j][v] = fd[j][v] /\ fd[j][v] # d
        BY <1>r, <2>5, <2>6, <3>3
      <4>2. fd[j][v] \in Descriptors => kernel'[fd[j][v]] = kernel[fd[j][v]]
        BY <2>6, <4>1
      <4>3. (j \in Living' <=> j \in Living) /\ (Opened(v, j)' <=> Opened(v, j))
            /\ (Closed(v, j)' <=> Closed(v, j))
        BY <2>1, <3>3
      <4> QED BY <4>1, <4>2, <4>3 DEF Row
    <3> QED BY <3>1, <3>3
  <2>10. Distinct'
    BY <1>0, <1>r, <2>5, <2>6 DEF Distinct
  <2> QED BY <1>r, <2>3, <2>8, <2>9, <2>10 DEF RowInv
<1>4. ASSUME NEW t \in Threads, CloseFd(t) PROVE RowInv'
  <2> DEFINE k == FileOf(t)
  <2>0. pc[t] = "closefd" /\ fs[t] = k
    BY <1>4 DEF CloseFd, Lifo, LookInv, AtWork
  <2>1. /\ k \in Files /\ Living' = Living
        /\ \A u \in Threads, j \in Files :
             /\ Opened(u, j)' <=> Opened(u, j)
             /\ Closed(u, j)' <=> Closed(u, j) \/ (u = t /\ j = k)
    BY <1>4, CloseFdDoes DEF Lifo
  <2>2. /\ kernel' = [d \in Descriptors |-> IF d = fd[k][t] THEN NoFile ELSE kernel[d]]
        /\ UNCHANGED <<fd, handle>>
    BY <1>4, <2>0 DEF CloseFd, OwnFd, memory
  <2> HIDE DEF k
  <2>3. ASSUME NEW j \in Files, NEW v \in Threads PROVE Row(j, v)'
    <3>1. Row(j, v) /\ fd'[j][v] = fd[j][v]
      BY <1>r, <2>2
    <3>2. fd[j][v] # Unknown => (j = k /\ v = t) \/ kernel'[fd[j][v]] = kernel[fd[j][v]]
      BY <1>0, <1>r, <2>1, <2>2, <3>1 DEF Distinct, Row
    <3> QED BY <2>1, <3>1, <3>2 DEF Row
  <2>4. Distinct'
    BY <1>r, <2>2 DEF Distinct
  <2> QED BY <1>0, <1>r, <2>1, <2>2, <2>3, <2>4 DEF RowInv
<1>5. ASSUME UNCHANGED <<handle, kernel, fd>>, Living' = Living,
             \A u \in Threads, j \in Files : /\ Opened(u, j)' <=> Opened(u, j)
                                             /\ Closed(u, j)' <=> Closed(u, j)
      PROVE  RowInv'
  <2>1. ASSUME NEW j \in Files, NEW v \in Threads PROVE Row(j, v)'
    BY <1>r, <1>5 DEF Row
  <2>2. Distinct'
    BY <1>r, <1>5 DEF Distinct
  <2> QED BY <1>r, <1>5, <2>1, <2>2 DEF RowInv
<1>6. CASE Insert
  BY <1>5, <1>6, InsertDoes DEF Lifo, Insert, memory
<1>7. CASE Remove
  BY <1>5, <1>7, RemoveDoes DEF Lifo, Remove, memory
<1>8. ASSUME NEW t \in Threads, Transfer(t) PROVE UNCHANGED fd
  <2> DEFINE k == fs[t]
  <2>1. fd' = [fd EXCEPT ![k][t] = IF fd[k][t] = Failed THEN fd[k][MASTER] ELSE fd[k][t]]
    BY <1>8 DEF Transfer
  <2>2. fs[t] = FileOf(t) /\ pc[t] # "idle"
    BY <1>8 DEF Transfer, Lifo, LookInv, AtWork
  <2>3. k \in Files
    BY <2>2, InCall DEF Lifo
  <2> HIDE DEF k
  <2>4. fd[k][t] # Failed
    BY <1>0, <1>r, <2>3 DEF Row
  <2> QED BY <1>0, <2>1, <2>3, <2>4
<1> QED BY <1>1, <1>2, <1>3, <1>4, <1>5, <1>6, <1>7, <1>8, QuietStep

-----------------------------------------------------------------------------
(* Lookups *)

\* A thread finds a file where its own is, and nowhere before that.
LEMMA Finds ==
  ASSUME Lifo, NEW t \in Threads, pc[t] = "look", index[t] \in DOMAIN table,
         NEW found \in Compare(table[index[t]], handle[FileOf(t)])
  PROVE  found <=> table[index[t]] = FileOf(t)
<1> DEFINE k == table[index[t]]
           f == FileOf(t)
           d == handle[f]
<1>1. /\ MASTER \in Threads /\ k \in Files /\ f \in Files /\ k \in Nat /\ f \in Nat
      /\ \A i \in DOMAIN table : i \in Nat /\ table[i] \in Files
  <2>1. table \in Seq(Files) /\ index[t] \in Nat
    BY DEF Lifo, Sound, TypeOK
  <2>2. \A i \in DOMAIN table : i \in Nat /\ table[i] \in Files
    BY <2>1
  <2>3. f \in Files
    BY InCall DEF Lifo
  <2>4. Files \subseteq Nat
    BY DEF Files
  <2> QED BY <2>2, <2>3, <2>4, IsThread
<1>2. f \in Tabled /\ k \in Tabled /\ Tabled \subseteq Living
  BY <1>1, TableWhileLooking DEF Lifo, TableInv
<1>3. /\ \A j \in Files, u \in Threads : fd[j][u] # Unknown <=> j \in Living /\ Opened(u, j)
      /\ d = fd[f][MASTER] /\ d # Unknown
  <2>1. Opened(MASTER, f)
    BY <1>1, <1>2, MasterHasOpened DEF Lifo
  <2> QED BY <1>1, <1>2, <2>1 DEF Lifo, RowInv, Row
<1>4. PICK p \in DOMAIN table : table[p] = f
  BY <1>2 DEF Lifo, TableInv
<1>5. k <= f
  <2>1. index[t] <= p /\ index[t] \in Nat /\ p \in Nat
    BY <1>1, <1>4 DEF Lifo, LookInv
  <2>2. CASE index[t] = p
    <3>1. k = f
      BY <1>4, <2>2
    <3> QED BY <1>1, <3>1
  <2>3. CASE index[t] # p
    <3>1. index[t] < p
      BY <2>1, <2>3
    <3>2. k < table[p]
      BY <1>4, <3>1 DEF Lifo, TableInv
    <3>3. k < f
      BY <1>4, <3>2
    <3> QED BY <1>1, <3>3
  <2> QED BY <2>2, <2>3
<1> HIDE DEF k, f, d
<1>6. CASE k = f
  <2>1. fd[k][MASTER] = d
    BY <1>3, <1>6
  <2> QED BY <1>1, <1>6, <2>1 DEF Compare, k, f, d
<1>7. CASE k # f
  <2>1. k < f
    BY <1>1, <1>5, <1>7
  <2>2. \A u \in Threads : k \in Living /\ Opened(u, k)
    BY <1>1, <1>2, <2>1, Lookable DEF Lifo, f
  <2>3. \A u \in Threads : fd[k][u] # Unknown
    BY <1>1, <1>3, <2>2
  <2>4. \A u \in Threads : fd[k][u] # d
    BY <1>1, <1>3, <1>7, <2>3 DEF Lifo, RowInv, Distinct
  <2> QED BY <1>7, <2>3, <2>4 DEF Compare, k, f, d
<1> QED BY <1>6, <1>7

\* AtWork, by the label; and the ways to go on that need no lookup.
Working(u, label) ==
  \/ label \in {"openfd", "opened", "o2", "closefd", "c2", "remove", "free", "store",
                "ompc", "base", "barr", "sync"}
  \/ (label = "o1" /\ u = MASTER)

Plain(u, from, to) ==
  /\ from = "look" => to = "look"
  /\ Working(u, to) => Working(u, from) \/ (u = MASTER /\ from = "create")
  /\ u = MASTER /\ to = "create" => from = "create"

\* All threads go on plainly when one of them arrives at the barrier plainly ...
LEMMA PlainArrival ==
  ASSUME NEW t \in Threads, NEW label \in TeamWait, Arrive(t, label), pc \in [Threads -> Labels],
         Plain(t, pc[t], label)
  PROVE  \A u \in Threads : Plain(u, pc[u], pc'[u])
<1>1. \A u \in Threads : Plain(u, pc[u], pc[u])
  BY DEF Plain
<1>2. \A u \in Threads, w \in TeamWait : Plain(u, w, AfterWait(u, w))
  BY DEF Plain, Working, AfterWait, TeamWait
<1>3. Plain(t, pc[t], AfterWait(t, label))
  <2>1. Plain(t, label, AfterWait(t, label)) /\ label # "create" /\ label # "look"
    BY <1>2 DEF TeamWait
  <2> QED BY <2>1 DEF Plain
<1> QED BY <1>1, <1>2, <1>3 DEF Arrive

\* ... or when one of them moves.
LEMMA PlainMove ==
  ASSUME NEW t \in Threads, NEW label, pc' = [pc EXCEPT ![t] = label],
         pc \in [Threads -> Labels], Plain(t, pc[t], label)
  PROVE  \A u \in Threads : Plain(u, pc[u], pc'[u])
BY DEF Plain

\* What LookInv says of one thread, and when it goes on to hold.
Looking(u) ==
  /\ pc[u] # "look" => index[u] = 1
  /\ pc[u] = "look" => \A i \in DOMAIN table : i < index[u] => table[i] # FileOf(u)
  /\ AtWork(u) => fs[u] = FileOf(u)
  /\ u = MASTER /\ pc[u] = "create" => fs[u] = FileOf(u)

\* It goes on to hold of a thread that goes on plainly.
LEMMA StaysLooking ==
  ASSUME NEW u \in Threads, Looking(u), Plain(u, pc[u], pc'[u]),
         index'[u] = index[u], fs'[u] = fs[u], pc[u] # "idle" => FileOf(u)' = FileOf(u),
         DOMAIN table' \subseteq Nat \ {0},
         pc[u] = "look" => \A i \in DOMAIN table' : i < index[u] => table'[i] # FileOf(u)
  PROVE  Looking(u)'
<1>1. AtWork(u) <=> Working(u, pc[u])
  BY DEF AtWork, Working
<1>2. AtWork(u)' <=> Working(u, pc'[u])
  BY DEF AtWork, Working
<1>3. CASE pc[u] = "look"
  BY <1>1, <1>2, <1>3 DEF Looking, Plain, Working
<1>4. CASE pc[u] # "look"
  <2>1. index[u] = 1 /\ \A i \in DOMAIN table' : ~(i < 1)
    BY <1>4 DEF Looking
  <2>2. AtWork(u)' \/ (u = MASTER /\ pc'[u] = "create") =>
          fs'[u] = FileOf(u)'
    BY <1>1, <1>2 DEF Looking, Plain, Working
  <2> QED BY <2>1, <2>2 DEF Looking
<1> QED BY <1>3, <1>4

\* All steps but those of Insert and Look.
LEMMA PlainStep ==
  ASSUME Sound, [Next]_vars, ~Insert, \A t \in Threads : ~Look(t)
  PROVE  /\ UNCHANGED <<index, fs>> /\ (table' = table \/ Remove)
         /\ \A u \in Threads : /\ Plain(u, pc[u], pc'[u])
                               /\ pc[u] # "idle" => FileOf(u)' = FileOf(u)
<1>0. /\ MASTER \in Threads /\ pc \in [Threads -> Labels] /\ script \in Seq(Call)
      /\ at \in [Threads -> 0..Len(script)] /\ Len(script) \in Nat
  BY IsThread DEF Sound, TypeOK
<1>i. \A u \in Threads : pc[u] # "idle" => at[u] \in 1..Len(script)
  BY InCall
<1>k. UNCHANGED <<script, at>> => \A u \in Threads : FileOf(u)' = FileOf(u)
  BY DEF FileOf
<1>1. CASE Create
  <2>1. /\ pc[MASTER] = "create" /\ Arrive(MASTER, "o1")
        /\ UNCHANGED <<script, at, table, index, fs>>
    BY <1>1 DEF Create, program
  <2>2. Plain(MASTER, pc[MASTER], "o1") /\ "o1" \in TeamWait
    BY <2>1 DEF Plain, Working, TeamWait
  <2> QED BY <1>0, <1>k, <2>1, <2>2, PlainArrival
<1>2. CASE AwaitOpened
  <2>1. /\ pc[MASTER] = "opened" /\ Arrive(MASTER, "o2")
        /\ UNCHANGED <<script, at, table, index, fs>>
    BY <1>2 DEF AwaitOpened, program
  <2>2. Plain(MASTER, pc[MASTER], "o2") /\ "o2" \in TeamWait
    BY <2>1 DEF Plain, Working, TeamWait
  <2> QED BY <1>0, <1>k, <2>1, <2>2, PlainArrival
<1>3. ASSUME NEW t \in Threads, NEW label \in {"o2", "c2", "ompc"}, Arrive(t, label),
             pc[t] \in {"openfd", "closefd", "store"}
      PROVE  \A u \in Threads : Plain(u, pc[u], pc'[u])
  <2>1. Plain(t, pc[t], label) /\ label \in TeamWait
    BY <1>3 DEF Plain, Working, TeamWait
  <2> QED BY <1>0, <1>3, <2>1, PlainArrival
<1>4. ASSUME NEW t \in Threads, OpenFd(t) \/ CloseFd(t) \/ Store(t)
      PROVE  /\ UNCHANGED <<script, at, table, index, fs>>
             /\ \A u \in Threads : Plain(u, pc[u], pc'[u])
  <2>1. UNCHANGED <<script, at, table, index, fs>>
    BY <1>4 DEF OpenFd, CloseFd, Store, program
  <2>3. CASE OpenFd(t)
    <3>1. pc[t] = "openfd" /\ Arrive(t, "o2")
      BY <2>3 DEF OpenFd
    <3> QED BY <1>3, <2>1, <3>1
  <2>4. CASE CloseFd(t)
    <3>1. pc[t] = "closefd" /\ Arrive(t, "c2")
      BY <2>4 DEF CloseFd, EndClose
    <3> QED BY <1>3, <2>1, <3>1
  <2>5. CASE Store(t)
    <3>1. pc[t] = "store" /\ Arrive(t, "ompc")
      BY <2>5 DEF Store
    <3> QED BY <1>3, <2>1, <3>1
  <2> QED BY <1>4, <2>1, <2>3, <2>4, <2>5
<1>5. CASE Remove \/ Free \/ Sync
  <2>1. /\ UNCHANGED <<script, at, index, fs>> /\ (table' = table \/ Remove)
        /\ \/ pc[MASTER] = "remove" /\ pc' = [pc EXCEPT ![MASTER] = "free"]
           \/ pc[MASTER] = "free" /\ pc' = [pc EXCEPT ![MASTER] = "idle"]
           \/ pc[MASTER] = "sync" /\ pc' = [pc EXCEPT ![MASTER] = "idle"]
    BY <1>5 DEF Remove, Free, Sync, Goto, program
  <2>2. /\ Plain(MASTER, "remove", "free") /\ Plain(MASTER, "free", "idle")
        /\ Plain(MASTER, "sync", "idle")
    BY DEF Plain, Working
  <2> QED BY <1>0, <1>k, <2>1, <2>2, PlainMove
<1>6. ASSUME NEW t \in Threads, Transfer(t)
      PROVE  /\ UNCHANGED <<script, at, table, index, fs>>
             /\ \A u \in Threads : Plain(u, pc[u], pc'[u])
  <2>1. UNCHANGED <<script, at, table, index, fs>>
    BY <1>6 DEF Transfer, program
  <2>2. \A u \in Threads :
          \/ pc'[u] = pc[u]
          \/ pc[u] \in {"base", "barr"} /\ pc'[u] \in {"idle", "barr"}
    BY <1>0, <1>6 DEF Transfer, AtBarr
  <2> QED BY <2>1, <2>2 DEF Plain, Working
<1>7. ASSUME NEW t \in Threads, NEW c \in Call, pc[t] = "idle", Enter(t, c)
      PROVE  /\ UNCHANGED <<table, index, fs>> /\ at' = [at EXCEPT ![t] = @ + 1]
             /\ \A u \in Threads : Plain(u, pc[u], pc'[u])
  <2>1. UNCHANGED <<table, index, fs>> /\ at' = [at EXCEPT ![t] = @ + 1]
    BY <1>7 DEF Enter
  <2>2. \/ pc' = [pc EXCEPT ![t] = "insert"]
        \/ Arrive(t, "o1") /\ t # MASTER
        \/ Arrive(t, "c1") \/ pc' = [pc EXCEPT ![t] = "look"]
        \/ pc' = [pc EXCEPT ![t] = "idle"]
    <3>1. c.call \in {"open", "close", "io", "fsync"}
      BY DEF Call
    <3>2. CASE c.call = "open"
      BY <1>7, <3>2 DEF Enter
    <3>3. CASE c.call = "close"
      BY <1>7, <3>3 DEF Enter, BeginClose
    <3>4. CASE c.call = "io"
      BY <1>7, <3>4 DEF Enter
    <3>5. CASE c.call = "fsync"
      BY <1>7, <3>5 DEF Enter
    <3> QED BY <3>1, <3>2, <3>3, <3>4, <3>5
  <2>3. /\ Plain(t, pc[t], "insert")
        /\ t # MASTER => Plain(t, pc[t], "o1")
        /\ Plain(t, pc[t], "c1") /\ Plain(t, pc[t], "look") /\ Plain(t, pc[t], "idle")
        /\ "o1" \in TeamWait /\ "c1" \in TeamWait
    BY <1>7 DEF Plain, Working, TeamWait
  <2>4. CASE Arrive(t, "c1")
    BY <1>0, <1>7, <2>1, <2>3, <2>4, PlainArrival
  <2>6. CASE Arrive(t, "o1") /\ t # MASTER
    BY <1>0, <1>7, <2>1, <2>3, <2>6, PlainArrival
  <2>5. CASE \E label \in {"insert", "look", "idle"} : pc' = [pc EXCEPT ![t] = label]
    BY <1>0, <1>7, <2>1, <2>3, <2>5, PlainMove
  <2> QED BY <2>1, <2>2, <2>4, <2>5, <2>6
<1>8. ASSUME NEW t \in Threads, Lead(t)
      PROVE  /\ UNCHANGED <<table, index, fs>>
             /\ \A u \in Threads : /\ Plain(u, pc[u], pc'[u])
                                   /\ pc[u] # "idle" => FileOf(u)' = FileOf(u)
  <2>1. pc[t] = "idle"
    BY <1>8 DEF Lead
  <2>2. PICK c \in NextCalls : script' = Append(script, c) /\ Enter(t, c)
    BY <1>8 DEF Lead
  <2>3. c \in Call
    BY DEF NextCalls, Call, Usable, Sound, TypeOK
  <2>4. /\ UNCHANGED <<table, index, fs>> /\ at' = [at EXCEPT ![t] = @ + 1]
        /\ \A u \in Threads : Plain(u, pc[u], pc'[u])
    BY <1>7, <2>1, <2>2, <2>3
  <2>5. ASSUME NEW u \in Threads, pc[u] # "idle" PROVE FileOf(u)' = FileOf(u)
    <3>1. at'[u] = at[u] /\ at[u] \in 1..Len(script)
      BY <1>0, <1>i, <2>1, <2>4, <2>5
    <3>2. script'[at[u]] = script[at[u]]
      BY <1>0, <2>2, <2>3, <3>1
    <3> QED BY <3>1, <3>2 DEF FileOf
  <2> QED BY <2>4, <2>5
<1>9. ASSUME NEW t \in Threads, Follow(t)
      PROVE  /\ UNCHANGED <<table, index, fs>>
             /\ \A u \in Threads : /\ Plain(u, pc[u], pc'[u])
                                   /\ pc[u] # "idle" => FileOf(u)' = FileOf(u)
  <2>1. pc[t] = "idle" /\ at[t] < Len(script) /\ Enter(t, script[at[t] + 1]) /\ script' = script
    BY <1>9 DEF Follow
  <2>2. script[at[t] + 1] \in Call
    <3>1. at[t] + 1 \in 1..Len(script)
      BY <1>0, <2>1
    <3> QED BY <1>0, <3>1
  <2>3. /\ UNCHANGED <<table, index, fs>> /\ at' = [at EXCEPT ![t] = @ + 1]
        /\ \A u \in Threads : Plain(u, pc[u], pc'[u])
    BY <1>7, <2>1, <2>2
  <2>4. ASSUME NEW u \in Threads, pc[u] # "idle" PROVE FileOf(u)' = FileOf(u)
    <3>1. at'[u] = at[u]
      BY <1>0, <2>1, <2>3, <2>4
    <3> QED BY <2>1, <3>1 DEF FileOf
  <2> QED BY <2>3, <2>4
<1>10. CASE Terminating \/ UNCHANGED vars
  BY <1>k, <1>10 DEF Terminating, vars, program, Plain
<1> QED
  BY <1>k, <1>1, <1>2, <1>4, <1>5, <1>6, <1>8, <1>9, <1>10 DEF Next, MasterStep, ThreadStep

\* Lookups keep on their way, and threads on the files they have found.
LEMMA LookStep ==
  ASSUME ~AnyOrder, Lifo, [Next]_vars
  PROVE  LookInv'
<1>0. /\ MASTER \in Threads /\ pc \in [Threads -> Labels] /\ table \in Seq(Files)
      /\ index \in [Threads -> Nat \ {0}] /\ fs \in [Threads -> Files \cup {NoFile}]
      /\ DOMAIN table = 1..Len(table) /\ Len(table) \in Nat
      /\ \A u \in Threads : Looking(u)
  <2>1. /\ pc \in [Threads -> Labels] /\ table \in Seq(Files)
        /\ index \in [Threads -> Nat \ {0}] /\ fs \in [Threads -> Files \cup {NoFile}]
    BY DEF Lifo, Sound, TypeOK
  <2>2. \A u \in Threads : Looking(u)
    BY DEF Lifo, LookInv, Looking
  <2> QED BY <2>1, <2>2, IsThread
<1>1. SUFFICES ASSUME NEW u \in Threads PROVE Looking(u)'
  BY DEF LookInv, Looking
<1>2. CASE Insert
  <2> DEFINE k == FileOf(MASTER)
  <2>1. /\ pc[MASTER] = "insert" /\ pc' = [pc EXCEPT ![MASTER] = "create"]
        /\ table' = Append(table, k) /\ fs' = [fs EXCEPT ![MASTER] = k]
        /\ UNCHANGED <<script, at, index>>
    BY <1>2 DEF Insert, Goto, program
  <2>2. \A v \in Threads : FileOf(v)' = FileOf(v)
    BY <2>1 DEF FileOf
  <2>3. k \in Files /\ \A j \in Tabled : j < k
    BY <1>2, InsertDoes DEF Lifo
  <2> HIDE DEF k
  <2>4. /\ DOMAIN table' = 1..(Len(table) + 1)
        /\ \A i \in DOMAIN table' : (i \in DOMAIN table /\ table'[i] = table[i]) \/ table'[i] = k
    BY <1>0, <2>1, <2>3
  <2>5. CASE u = MASTER
    BY <1>0, <2>1, <2>2, <2>5 DEF Looking, AtWork, k
  <2>6. CASE u # MASTER
    <3>1. pc'[u] = pc[u] /\ index'[u] = index[u] /\ fs'[u] = fs[u]
      BY <1>0, <2>1, <2>6
    <3>2. Plain(u, pc[u], pc'[u])
      BY <3>1 DEF Plain
    <3>3. ASSUME pc[u] = "look", NEW i \in DOMAIN table', i < index[u]
          PROVE  table'[i] # FileOf(u)
      <4>1. i \in DOMAIN table /\ table'[i] = table[i] => table'[i] # FileOf(u)
        BY <1>0, <3>3 DEF Looking
      <4>2. FileOf(u) < k /\ FileOf(u) \in Nat /\ k \in Nat
        <5>1. FileOf(u) \in Tabled /\ FileOf(u) \in Files
          BY <1>0, <3>3, TableWhileLooking, InCall DEF Lifo
        <5> QED BY <2>3, <5>1 DEF Files
      <4>3. FileOf(u) # k
        BY <4>2
      <4> QED BY <2>4, <3>3, <4>1, <4>3
    <3>4. DOMAIN table' \subseteq Nat \ {0}
      BY <1>0, <2>4
    <3> QED BY <1>0, <2>2, <3>1, <3>2, <3>3, <3>4, StaysLooking
  <2> QED BY <2>5, <2>6
<1>3. ASSUME NEW t \in Threads, Look(t) PROVE Looking(u)'
  <2> DEFINE k == table[index[t]]
  <2>1. /\ pc[t] = "look" /\ index[t] \in DOMAIN table
        /\ UNCHANGED <<script, at, table>>
    BY <1>0, <1>3 DEF Look, program
  <2>2. PICK found \in Compare(k, handle[FileOf(t)]) :
          \/ /\ found
             /\ fs' = [fs EXCEPT ![t] = k]
             /\ index' = [index EXCEPT ![t] = 1]
             /\ pc' = [pc EXCEPT ![t] = AfterLook(t)]
          \/ /\ ~found
             /\ index' = [index EXCEPT ![t] = @ + 1]
             /\ UNCHANGED <<fs, pc>>
    BY <1>3 DEF Look
  <2>3. found <=> k = FileOf(t)
    BY <2>1, Finds
  <2>4. FileOf(u)' = FileOf(u)
    BY <2>1 DEF FileOf
  <2>5. CASE u # t
    <3>1. pc'[u] = pc[u] /\ index'[u] = index[u] /\ fs'[u] = fs[u]
      BY <1>0, <2>2, <2>5
    <3> QED BY <1>0, <2>1, <2>4, <3>1 DEF Looking, AtWork
  <2>6. CASE u = t /\ found
    <3>1. pc'[u] = AfterLook(t) /\ index'[u] = 1 /\ fs'[u] = k
      BY <1>0, <2>2, <2>6
    <3>2. AfterLook(t) # "look"
      <4>1. CallOf(t) \in {"open", "close", "io", "fsync"}
        BY <2>1, InCall DEF Lifo
      <4> QED BY <4>1 DEF AfterLook
    <3>3. fs'[u] = FileOf(u)'
      BY <2>3, <2>4, <2>6, <3>1
    <3> QED BY <3>1, <3>2, <3>3 DEF Looking
  <2>7. CASE u = t /\ ~found
    <3>1. pc'[u] = "look" /\ index'[u] = index[u] + 1 /\ index[u] \in Nat
      BY <1>0, <2>1, <2>2, <2>7
    <3>2. ASSUME NEW i \in DOMAIN table, i < index'[u] PROVE table[i] # FileOf(u)
      <4>1. i < index[u] \/ i = index[u]
        BY <1>0, <3>1, <3>2
      <4>2. table[index[u]] # FileOf(u)
        BY <2>3, <2>7
      <4> QED BY <1>0, <2>1, <2>7, <4>1, <4>2 DEF Looking
    <3> QED BY <2>1, <2>4, <3>1, <3>2 DEF Looking, AtWork
  <2> QED BY <2>5, <2>6, <2>7
<1>4. CASE ~Insert /\ \A t \in Threads : ~Look(t)
  <2>1. /\ UNCHANGED <<index, fs>> /\ (table' = table \/ Remove)
        /\ Plain(u, pc[u], pc'[u])
        /\ pc[u] # "idle" => FileOf(u)' = FileOf(u)
    BY <1>4, PlainStep DEF Lifo
  <2>2. /\ DOMAIN table' \subseteq DOMAIN table
        /\ \A i \in DOMAIN table' : table'[i] = table[i]
    <3>1. CASE Remove
      <4>1. table' = SubSeq(table, 1, Len(table) - 1) /\ Len(table) - 1 \in Int
        BY <1>0, <3>1 DEF Remove, AllButLast
      <4>2. Tabled # {}
        BY <3>1, RemoveDoes DEF Lifo
      <4>3. Len(table) # 0
        BY <1>0, <4>2 DEF Lifo, TableInv
      <4> QED BY <1>0, <4>1, <4>3
    <3> QED BY <2>1, <3>1
  <2>3. DOMAIN table' \subseteq Nat \ {0}
    BY <1>0, <2>2
  <2>4. pc[u] = "look" => \A i \in DOMAIN table' : i < index[u] => table'[i] # FileOf(u)
    BY <1>0, <2>2 DEF Looking
  <2> QED BY <1>0, <2>1, <2>3, <2>4, StaysLooking
<1> QED BY <1>2, <1>3, <1>4

\* At any time the table holds the files between their opening and their closing,
\* each slot of an FS the descriptor of a thread that has opened the file, and each
\* thread works on the file of its call.
THEOREM FilesKeepOrder == ASSUME ~MayFail, ~AnyOrder PROVE Spec => []Lifo
<1>1. Init => Lifo
  <2> SUFFICES ASSUME Init PROVE Lifo
    OBVIOUS
  <2>0. MASTER \in Threads
    BY IsThread
  <2>1. Sound
    <3>1. TypeOK
      BY FileTableAssumption DEF Init, TypeOK, Labels, Slot, NoFile
    <3>2. Ordered
      BY DEF Init, Ordered, Program, Inside, Together, Ahead, Abreast, Labels
    <3> QED BY <2>0, <3>1, <3>2 DEF Init, Sound, Made
  <2>2. /\ Len(script) = 0 /\ \A t \in Threads : at[t] = 0 /\ pc[t] = "idle"
        /\ \A n \in 1..0 : FALSE
    BY DEF Init
  <2>3. OpenAfter(script, 0) = {}
    BY <2>2 DEF OpenAfter
  <2>4. Lawful
    BY <2>2, <2>3 DEF Init, Lawful, Legal
  <2>5. Tabled = {} /\ Living = {}
    BY <2>0, <2>2, <2>3 DEF Tabled, Living, TableSet, AliveSet
  <2>6. TableInv
    BY <2>5 DEF Init, TableInv
  <2>7. RowInv
    BY <2>0, <2>5 DEF Init, RowInv, Row, Distinct
  <2>8. LookInv
    BY <2>2 DEF Init, LookInv, AtWork
  <2> QED BY <2>1, <2>4, <2>6, <2>7, <2>8 DEF Lifo
<1>2. Lifo /\ [Next]_vars => Lifo'
  <2> SUFFICES ASSUME Lifo, [Next]_vars PROVE Lifo'
    OBVIOUS
  <2>1. Ordered'
    BY OrderedStep DEF Lifo, Sound, TypeOK
  <2>2. Sound'
    BY <2>1, TypeStep, MadeStep DEF Lifo, Sound
  <2>3. Lawful'
    BY LawfulStep, NothingFails DEF Lifo
  <2> QED BY <2>2, <2>3, TableStep, RowStep, LookStep DEF Lifo
<1> QED BY <1>1, <1>2, PTL DEF Spec

\* Closing files in the reverse order of opening them, with no failing open(): the
\* lookup of a descriptor in the table ends at the file of the call.
THEOREM FindsItsFileHolds == ASSUME ~MayFail, ~AnyOrder PROVE Spec => []FindsItsFile
<1>1. Lifo => FindsItsFile
  BY DEF Lifo, LookInv, FindsItsFile
<1> QED BY <1>1, FilesKeepOrder, PTL

\* ... and on its way reads no FS that is not initialised or already freed; nor does
\* a thread that has found its FS.
THEOREM NoUseAfterFreeHolds == ASSUME ~MayFail, ~AnyOrder PROVE Spec => []NoUseAfterFree
<1>1. Lifo => NoUseAfterFree
  <2> SUFFICES ASSUME Lifo, NEW t \in Threads
               PROVE  /\ pc[t] = "look" => index[t] \in DOMAIN table /\ table[index[t]] \in alive
                      /\ AtWork(t) => fs[t] \in alive
    BY DEF NoUseAfterFree
  <2>0. MASTER \in Threads /\ alive = Living
    BY IsThread DEF Lifo, TableInv
  <2>1. AtWork(t) => fs[t] \in alive
    BY <2>0, WorksOnLiving DEF Lifo, LookInv
  <2>2. ASSUME pc[t] = "look" PROVE index[t] \in DOMAIN table /\ table[index[t]] \in alive
    <3>1. FileOf(t) \in Tabled /\ Tabled \subseteq Living
      BY <2>0, <2>2, TableWhileLooking DEF Lifo
    <3>2. PICK p \in DOMAIN table : table[p] = FileOf(t)
      BY <3>1 DEF Lifo, TableInv
    <3>3. ~(p < index[t])
      BY <2>2, <3>2 DEF Lifo, LookInv
    <3>4. index[t] \in DOMAIN table
      <4>1. index[t] \in Nat \ {0} /\ DOMAIN table = 1..Len(table) /\ Len(table) \in Nat
        <5>1. table \in Seq(Files) /\ index \in [Threads -> Nat \ {0}]
          BY DEF Lifo, Sound, TypeOK
        <5> QED BY <5>1
      <4> QED BY <3>2, <3>3, <4>1
    <3> QED BY <2>0, <3>1, <3>4 DEF Lifo, TableInv
  <2> QED BY <2>1, <2>2
<1> QED BY <1>1, FilesKeepOrder, PTL

\* A thread that transfers data, closes or flushes uses slots that have been filled
\* in and whose descriptors are open.
LEMMA InUse ==
  ASSUME Sound, Lawful, NEW t \in Threads, pc[t] \in {"base", "closefd", "sync"},
         NEW u \in Threads, u = t \/ pc[t] = "sync"
  PROVE  Opened(u, FileOf(t)) /\ ~Closed(u, FileOf(t))
<1> DEFINE n == at[t]
           k == FileOf(t)
<1>1. /\ n \in 1..Len(script) /\ script[n].call = CallOf(t) /\ script[n].file = k /\ k \in Files
      /\ Len(script) \in Nat /\ at[u] \in 0..Len(script)
      /\ pc[t] \in LabelsIn(t, CallOf(t)) /\ CallOf(t) \in {"open", "close", "io", "fsync"}
  BY InCall DEF Sound, TypeOK
<1>2. /\ CallOf(t) # "open"
      /\ pc[t] = "sync" => CallOf(t) = "fsync"
      /\ CallOf(t) = "close" => pc[t] = "closefd"
  BY <1>1 DEF LabelsIn
<1>3. k \in OpenAfter(script, n - 1)
  BY <1>1, <1>2, Spans
<1> HIDE DEF k
<1>4. Opened(u, k)
  <2>1. PICK i \in 1..(n - 1) : script[i].call = "open" /\ script[i].file = k
    BY <1>3 DEF OpenAfter
  <2>2. n > 0
    BY <1>1
  <2> QED BY <1>1, <2>1, <2>2, OpenedEarlier
<1>5. ASSUME NEW m \in 1..at[u], script[m].call = "close", script[m].file = k,
             m = at[u] => ClosedNow(pc[u])
      PROVE  FALSE
  <2>1. m \notin 1..(n - 1) /\ m \in 1..Len(script)
    BY <1>1, <1>3, <1>5 DEF OpenAfter
  <2>2. m = n \/ m > n
    BY <1>1, <2>1
  <2>3. m = n => pc[t] = "closefd"
    BY <1>1, <1>2, <1>5
  <2>4. CASE u = t
    <3>1. m = n /\ m = at[u]
      BY <1>1, <1>5, <2>2, <2>4
    <3> QED BY <1>5, <2>3, <2>4, <3>1 DEF ClosedNow
  <2>5. CASE u # t
    <3>1. pc[t] = "sync" /\ m > n
      BY <2>2, <2>3, <2>5
    <3>2. at[u] > n /\ n > 0
      BY <1>1, <1>5, <3>1
    <3>3. /\ Passed(pc[u], script[at[u]].call) = 0
          /\ \A i \in 1..Len(script) : n < i /\ i < at[u] => script[i].call = "fsync"
      BY <3>2, Between
    <3>4. m = at[u]
      BY <1>1, <1>5, <2>1, <3>1, <3>3
    <3>5. pc[u] = "c1"
      BY <1>5, <3>2, <3>3, <3>4, CloseLabels
    <3> QED BY <1>5, <3>4, <3>5 DEF ClosedNow
  <2> QED BY <2>4, <2>5
<1> QED BY <1>4, <1>5 DEF Closed, HasClosed, k

\* ... and each slot that a thread closes, flushes or transfers through holds a
\* descriptor of the file of its call.
THEOREM ReachesItsFileHolds == ASSUME ~MayFail, ~AnyOrder PROVE Spec => []ReachesItsFile
<1>1. Lifo => ReachesItsFile
  <2> SUFFICES ASSUME Lifo, NEW t \in Threads, NEW u \in Threads,
                      pc[t] \in {"base", "closefd", "sync"}, u = t \/ pc[t] = "sync"
               PROVE  Reaches(t, u)
    BY DEF ReachesItsFile
  <2>1. FileOf(t) \in Living /\ fs[t] = FileOf(t) /\ FileOf(t) \in Files
    BY IsThread, WorksOnLiving, InCall DEF Lifo, LookInv, AtWork
  <2>2. Opened(u, FileOf(t)) /\ ~Closed(u, FileOf(t))
    BY InUse DEF Lifo
  <2> QED BY <2>1, <2>2 DEF Lifo, RowInv, Row, Reaches
<1> QED BY <1>1, FilesKeepOrder, PTL

-----------------------------------------------------------------------------
(* What the table promises *)

\* The values of the variables of the promise.
About == [t \in Threads |-> IF at[t] = 0 THEN NoFile ELSE FileOf(t)]
Using == [t \in Threads |-> IF AtWork(t) THEN fs[t] ELSE NoFile]

\* Each action of the promise, in these terms.
LEMMA Asks ==
  ASSUME NEW t \in Threads, NEW k \in Files, Using[t] = NoFile,
         About' = [About EXCEPT ![t] = k], alive' = alive, Using' = Using
  PROVE  Promise!Next
BY DEF Promise!Next, Promise!Ask, Promise!Free, About, Using

\* The file comes to life.
LEMMA Creates ==
  ASSUME NEW t \in Threads, Using[t] = NoFile, About[t] \in Files \ alive,
         alive' = alive \cup {About[t]}, Using' = [Using EXCEPT ![t] = About[t]], About' = About
  PROVE  Promise!Next
BY DEF Promise!Next, Promise!Create, Promise!Free, About, Using

\* The file is found.
LEMMA FindsIt ==
  ASSUME NEW t \in Threads, Using[t] = NoFile, About[t] \in alive,
         Using' = [Using EXCEPT ![t] = About[t]], UNCHANGED <<alive, About>>
  PROVE  Promise!Next
BY DEF Promise!Next, Promise!Find, Promise!Free, About, Using

\* Threads are through.
LEMMA Leaves ==
  ASSUME NEW T \in SUBSET Threads,
         Using' = [t \in Threads |-> IF t \in T THEN NoFile ELSE Using[t]],
         UNCHANGED <<alive, About>>
  PROVE  Promise!Next
BY DEF Promise!Next, Promise!Leave, About, Using

\* The file ends.
LEMMA Ends ==
  ASSUME NEW t \in Threads, Using[t] \in alive, \A u \in Threads \ {t} : Using[u] # Using[t],
         alive' = alive \ {Using[t]}, Using' = [Using EXCEPT ![t] = NoFile], About' = About
  PROVE  Promise!Next
BY DEF Promise!Next, Promise!End, About, Using

\* Nothing of interest happens.
LEMMA Stutters ==
  ASSUME UNCHANGED <<alive, About, Using>>
  PROVE  UNCHANGED Promise!vars
BY DEF Promise!vars, About, Using

\* Using, by the labels.
LEMMA UsingIs ==
  /\ Using = [t \in Threads |-> IF Working(t, pc[t]) THEN fs[t] ELSE NoFile]
  /\ Using' = [t \in Threads |-> IF Working(t, pc'[t]) THEN fs'[t] ELSE NoFile]
BY DEF Using, AtWork, Working

\* A thread in a call stays with its file.
LEMMA AboutStays == ASSUME UNCHANGED <<at, script>> PROVE About' = About
BY DEF About, FileOf

\* Releasing a barrier at the beginning of a call changes nobody's work.
LEMMA ReleasedAlike ==
  ASSUME NEW t \in Threads, NEW label \in {"o1", "c1"}, Arrive(t, label),
         pc \in [Threads -> Labels],
         \A u \in Threads \ {t} : pc[u] \in TeamWait => pc[u] = label
  PROVE  /\ \A u \in Threads \ {t} : Working(u, pc'[u]) <=> Working(u, pc[u])
         /\ Working(t, pc'[t]) <=> Working(t, label)
<1>1. \A u \in Threads : Working(u, AfterWait(u, label)) <=> Working(u, label)
  BY DEF Working, AfterWait
<1>2. CASE \A u \in Threads \ {t} : pc[u] \in TeamWait
  <2>1. \A u \in Threads : pc'[u] = AfterWait(u, label)
    BY <1>2 DEF Arrive
  <2> QED BY <1>1, <1>2, <2>1
<1>3. CASE ~\A u \in Threads \ {t} : pc[u] \in TeamWait
  <2>1. pc' = [pc EXCEPT ![t] = label]
    BY <1>3 DEF Arrive
  <2> QED BY <2>1
<1> QED BY <1>2, <1>3

\* A thread that enters the library lets nobody go who is at work.
LEMMA EnterAlike ==
  ASSUME NEW t \in Threads, NEW s, Program(pc, at, s), Inside(pc, at, s), Together(pc, at, s),
         pc[t] = "idle", at[t] < Len(s), Enter(t, s[at[t] + 1])
  PROVE  \A u \in Threads : Working(u, pc'[u]) <=> Working(u, pc[u])
<1> DEFINE c == s[at[t] + 1].call
<1>1. /\ pc \in [Threads -> Labels] /\ s \in Seq(Call)
      /\ at \in [Threads -> 0..Len(s)] /\ Len(s) \in Nat
  BY DEF Program
<1>2. c \in {"open", "close", "io", "fsync"}
  <2>1. at[t] + 1 \in 1..Len(s)
    BY <1>1
  <2> QED BY <1>1, <2>1, CallFacts
<1>3. ASSUME NEW label \in {"o1", "c1"}, label \in LabelsIn(t, c), Passed(label, c) = 0,
             Arrive(t, label), ~Working(t, label)
      PROVE  \A u \in Threads : Working(u, pc'[u]) <=> Working(u, pc[u])
  <2> DEFINE q == [pc EXCEPT ![t] = label]
             b == [at EXCEPT ![t] = at[t] + 1]
  <2>0. label \in TeamWait /\ label \in Labels
    BY DEF TeamWait, Labels
  <2>1. Program(q, b, s) /\ Inside(q, b, s) /\ Together(q, b, s)
    BY <1>3, <2>0, Entered
  <2>2. q[t] = label /\ \A u \in Threads \ {t} : q[u] = pc[u]
    BY <1>1
  <2> HIDE DEF q, b, c
  <2>3. \A u \in Threads \ {t} : pc[u] \in TeamWait => pc[u] = label
    BY <2>0, <2>1, <2>2, WaitTogether
  <2>4. ~Working(t, pc[t])
    BY DEF Working
  <2> QED BY <1>1, <1>3, <2>3, <2>4, ReleasedAlike
<1>4. ASSUME NEW label \in {"insert", "look", "idle"}, pc' = [pc EXCEPT ![t] = label]
      PROVE  \A u \in Threads : Working(u, pc'[u]) <=> Working(u, pc[u])
  BY <1>1, <1>4 DEF Working
<1>5. CASE c = "open"
  <2>1. CASE t = MASTER
    BY <1>4, <1>5, <2>1 DEF Enter
  <2>2. CASE t # MASTER
    <3>1. /\ Arrive(t, "o1") /\ "o1" \in LabelsIn(t, c) /\ Passed("o1", c) = 0
          /\ ~Working(t, "o1")
      BY <1>5, <2>2 DEF Enter, LabelsIn, Passed, Working
    <3> QED BY <1>3, <3>1
  <2> QED BY <2>1, <2>2
<1>6. CASE c = "close"
  <2>1. /\ Arrive(t, "c1") /\ "c1" \in LabelsIn(t, c) /\ Passed("c1", c) = 0
        /\ ~Working(t, "c1")
    BY <1>6 DEF Enter, BeginClose, LabelsIn, Passed, Working
  <2> QED BY <1>3, <2>1
<1>7. CASE c = "io"
  BY <1>4, <1>7 DEF Enter
<1>8. CASE c = "fsync"
  BY <1>4, <1>8 DEF Enter
<1> QED BY <1>2, <1>5, <1>6, <1>7, <1>8

\* Entering the library asks for the file of the next call.
LEMMA EnterRefines ==
  ASSUME Lifo, NEW t \in Threads, Lead(t) \/ Follow(t)
  PROVE  Promise!Next
<1>0. /\ pc \in [Threads -> Labels] /\ script \in Seq(Call) /\ Len(script) \in Nat
      /\ at \in [Threads -> 0..Len(script)]
      /\ Program(pc, at, script) /\ Inside(pc, at, script) /\ Together(pc, at, script)
  BY DEF Lifo, Sound, TypeOK, Ordered
<1>1. PICK s : /\ s \in Seq(Call) /\ script' = s /\ pc[t] = "idle" /\ at[t] < Len(s)
               /\ Len(s) \in Nat /\ Enter(t, s[at[t] + 1])
               /\ Program(pc, at, s) /\ Inside(pc, at, s) /\ Together(pc, at, s)
               /\ \A n \in 1..Len(script) : s[n] = script[n]
  <2>1. CASE Lead(t)
    <3>1. PICK c \in NextCalls : script' = Append(script, c) /\ Enter(t, c)
      BY <2>1 DEF Lead
    <3>2. c \in Call
      BY DEF NextCalls, Call, Usable, Lifo, Sound, TypeOK
    <3> DEFINE s == Append(script, c)
    <3>3. /\ s \in Seq(Call) /\ Len(s) = Len(script) + 1 /\ s[Len(script) + 1] = c
          /\ \A n \in 1..Len(script) : s[n] = script[n]
      BY <1>0, <3>2
    <3>4. Program(pc, at, s) /\ Inside(pc, at, s) /\ Together(pc, at, s)
      BY <1>0, <3>2, Extended
    <3>5. script' = s
      BY <3>1
    <3> HIDE DEF s
    <3>6. pc[t] = "idle" /\ at[t] = Len(script)
      BY <2>1 DEF Lead
    <3> QED BY <1>0, <3>1, <3>3, <3>4, <3>5, <3>6
  <2>2. CASE Follow(t)
    BY <1>0, <2>2 DEF Follow
  <2> QED BY <2>1, <2>2
<1>2. /\ UNCHANGED <<alive, fs>> /\ at' = [at EXCEPT ![t] = at[t] + 1]
      /\ at[t] + 1 \in 1..Len(s) /\ s[at[t] + 1] \in Call
  BY <1>0, <1>1 DEF Enter, memory
<1>3. \A u \in Threads : Working(u, pc'[u]) <=> Working(u, pc[u])
  BY <1>1, EnterAlike
<1>4. Using' = Using
  BY <1>2, <1>3, UsingIs
<1>5. Using[t] = NoFile
  BY <1>1, UsingIs DEF Working
<1>6. s[at[t] + 1].file \in Files
  BY <1>2 DEF Call
<1>7. About' = [About EXCEPT ![t] = s[at[t] + 1].file]
  <2>1. at'[t] = at[t] + 1 /\ at'[t] # 0
    BY <1>0, <1>2
  <2>2. \A u \in Threads \ {t} :
          /\ at'[u] = at[u]
          /\ at[u] # 0 => script'[at[u]] = script[at[u]]
    BY <1>0, <1>1, <1>2
  <2>3. FileOf(t)' = s[at[t] + 1].file
    BY <1>1, <2>1 DEF FileOf
  <2>4. \A u \in Threads \ {t} : at[u] # 0 => FileOf(u)' = FileOf(u)
    <3> SUFFICES ASSUME NEW u \in Threads \ {t}, at[u] # 0 PROVE FileOf(u)' = FileOf(u)
      OBVIOUS
    <3>1. at'[u] = at[u] /\ script'[at[u]] = script[at[u]]
      BY <2>2
    <3> QED BY <3>1 DEF FileOf
  <2>5. \A u \in Threads : About'[u] = IF u = t THEN s[at[t] + 1].file ELSE About[u]
    BY <2>1, <2>2, <2>3, <2>4 DEF About
  <2>6. About = [u \in Threads |-> About[u]] /\ About' = [u \in Threads |-> About'[u]]
    BY DEF About
  <2> HIDE DEF About
  <2> QED BY <2>5, <2>6
<1> QED BY <1>2, <1>4, <1>5, <1>6, <1>7, Asks

\* The MASTER's file comes to life.
LEMMA CreateRefines == ASSUME Lifo, Create PROVE Promise!Next
<1> DEFINE k == FileOf(MASTER)
<1>0. /\ MASTER \in Threads /\ pc \in [Threads -> Labels] /\ pc[MASTER] = "create"
      /\ Arrive(MASTER, "o1") /\ UNCHANGED <<at, script, fs>> /\ alive' = alive \cup {fs[MASTER]}
      /\ Program(pc, at, script) /\ Inside(pc, at, script) /\ Together(pc, at, script)
  BY IsThread DEF Lifo, Sound, TypeOK, Ordered, Create, program
<1>1. fs[MASTER] = k
  BY <1>0 DEF Lifo, LookInv
<1>2. /\ at[MASTER] \in 1..Len(script) /\ CallOf(MASTER) = script[at[MASTER]].call
      /\ CallOf(MASTER) = "open"
  BY <1>0, InCall, CreateDoes DEF Lifo, LabelsIn
<1>3. k \in Files \ alive
  BY CreateDoes DEF Lifo, TableInv
<1>4. About[MASTER] = k /\ About' = About
  BY <1>0, <1>2, AboutStays DEF About
<1>5. /\ \A u \in Threads \ {MASTER} : Working(u, pc'[u]) <=> Working(u, pc[u])
      /\ Working(MASTER, pc'[MASTER]) /\ ~Working(MASTER, pc[MASTER])
  <2> DEFINE q == [pc EXCEPT ![MASTER] = "o1"]
  <2>1. /\ q \in [Threads -> Labels] /\ q[MASTER] = "o1"
        /\ \A u \in Threads \ {MASTER} : q[u] = pc[u]
    BY <1>0 DEF Labels, TeamWait
  <2> HIDE DEF q
  <2>2. "o1" \in LabelsIn(MASTER, CallOf(MASTER)) /\ "o1" \in TeamWait
        /\ Passed("o1", CallOf(MASTER)) = Passed("create", CallOf(MASTER))
    BY <1>2 DEF LabelsIn, Passed, TeamWait
  <2>3. GoesOn(pc, q, at, script)
    BY <1>0, <1>2, <2>1, <2>2 DEF GoesOn
  <2>4. Program(q, at, script) /\ Inside(q, at, script) /\ Together(q, at, script)
    BY <1>0, <2>1, <2>3, GoingOn
  <2>5. \A u \in Threads \ {MASTER} : pc[u] \in TeamWait => pc[u] = "o1"
    BY <1>0, <2>1, <2>2, <2>4, WaitTogether
  <2>6. Working(MASTER, "o1") /\ ~Working(MASTER, "create")
    BY DEF Working
  <2> QED BY <1>0, <2>5, <2>6, ReleasedAlike
<1>6. Using[MASTER] = NoFile /\ Using' = [Using EXCEPT ![MASTER] = About[MASTER]]
  BY <1>0, <1>1, <1>4, <1>5, UsingIs
<1> HIDE DEF k
<1> QED BY <1>0, <1>1, <1>3, <1>4, <1>6, Creates

\* A lookup either goes on or ends at the file of the call.
LEMMA LookRefines ==
  ASSUME Lifo, NEW t \in Threads, Look(t)
  PROVE  Promise!Next \/ UNCHANGED Promise!vars
<1> DEFINE k == table[index[t]]
<1>0. /\ pc \in [Threads -> Labels] /\ fs \in [Threads -> Files \cup {NoFile}]
      /\ pc[t] = "look" /\ index[t] \in DOMAIN table /\ UNCHANGED <<at, script, alive>>
      /\ table \in Seq(Files)
  <2>1. /\ pc \in [Threads -> Labels] /\ fs \in [Threads -> Files \cup {NoFile}]
        /\ table \in Seq(Files) /\ index \in [Threads -> Nat \ {0}]
    BY DEF Lifo, Sound, TypeOK
  <2> QED BY <2>1 DEF Look, program, memory
<1>1. PICK found \in Compare(k, handle[FileOf(t)]) :
        \/ /\ found
           /\ fs' = [fs EXCEPT ![t] = k]
           /\ index' = [index EXCEPT ![t] = 1]
           /\ pc' = [pc EXCEPT ![t] = AfterLook(t)]
        \/ /\ ~found
           /\ index' = [index EXCEPT ![t] = @ + 1]
           /\ UNCHANGED <<fs, pc>>
  BY DEF Look
<1>2. found <=> k = FileOf(t)
  BY <1>0, Finds
<1>3. About' = About
  BY <1>0, AboutStays
<1>4. CASE ~found
  <2>1. UNCHANGED <<fs, pc>>
    BY <1>1, <1>4
  <2>2. Using' = Using
    BY <2>1, UsingIs
  <2> QED BY <1>0, <1>3, <2>2, Stutters
<1>5. CASE found
  <2>1. fs' = [fs EXCEPT ![t] = FileOf(t)] /\ pc' = [pc EXCEPT ![t] = AfterLook(t)]
    BY <1>1, <1>2, <1>5
  <2>2. at[t] \in 1..Len(script) /\ CallOf(t) \in {"open", "close", "io", "fsync"}
    BY <1>0, InCall DEF Lifo
  <2>3. Working(t, AfterLook(t)) /\ ~Working(t, "look")
    BY <2>2 DEF Working, AfterLook
  <2>4. About[t] = FileOf(t)
    BY <2>2 DEF About
  <2>5. FileOf(t) \in alive
    BY <1>0, IsThread, TableWhileLooking DEF Lifo, TableInv
  <2>6. Using[t] = NoFile /\ Using' = [Using EXCEPT ![t] = About[t]]
    BY <1>0, <2>1, <2>3, <2>4, UsingIs
  <2> QED BY <1>0, <1>3, <2>4, <2>5, <2>6, FindsIt
<1> QED BY <1>4, <1>5

\* When the MASTER frees a file, nobody else is at work on it.
LEMMA NobodyElse ==
  ASSUME Sound, Lawful, MASTER \in Threads, pc[MASTER] = "free",
         NEW u \in Threads \ {MASTER}, AtWork(u)
  PROVE  FileOf(u) # FileOf(MASTER)
<1> DEFINE n == at[MASTER]
<1>1. /\ n \in 1..Len(script) /\ script[n].call = "close" /\ script[n].file = FileOf(MASTER)
      /\ Len(script) \in Nat
  <2>1. /\ n \in 1..Len(script) /\ script[n].call = CallOf(MASTER)
        /\ script[n].file = FileOf(MASTER)
        /\ pc[MASTER] \in LabelsIn(MASTER, CallOf(MASTER))
        /\ CallOf(MASTER) \in {"open", "close", "io", "fsync"}
    BY InCall
  <2>2. CallOf(MASTER) = "close"
    BY <2>1 DEF LabelsIn
  <2> QED BY <2>1, <2>2 DEF Sound, TypeOK
<1>2. /\ at[u] \in 1..Len(script) /\ script[at[u]].call = CallOf(u)
      /\ script[at[u]].file = FileOf(u) /\ pc[u] \in LabelsIn(u, CallOf(u))
      /\ CallOf(u) \in {"open", "close", "io", "fsync"}
  <2>1. pc[u] # "idle"
    BY DEF AtWork
  <2> QED BY <2>1, InCall
<1>3. Passed(pc[MASTER], script[n].call) = 2
  BY <1>1 DEF Passed
<1>4. ~(at[u] < n)
  BY <1>1, <1>3, Between
<1>5. at[u] # n
  <2>1. SUFFICES ASSUME at[u] = n PROVE FALSE
    OBVIOUS
  <2>2. Passed(pc[u], "close") = 2
    BY <1>1, <1>3, <2>1, Between
  <2>3. pc[u] = "idle"
    BY <1>1, <1>2, <2>1, <2>2, CloseLabels
  <2> QED BY <2>3 DEF AtWork
<1>6. at[u] > n /\ Passed(pc[u], CallOf(u)) = 0
  <2>1. at[u] > n /\ n > 0
    BY <1>1, <1>2, <1>4, <1>5
  <2> QED BY <1>2, <2>1, Between
<1>7. CallOf(u) # "open"
  BY <1>2, <1>6 DEF LabelsIn, Passed, AtWork
<1>8. FileOf(u) \in OpenAfter(script, at[u] - 1)
  BY <1>2, <1>7, Spans
<1>9. n \in 1..(at[u] - 1)
  BY <1>1, <1>2, <1>6
<1> QED BY <1>1, <1>8, <1>9 DEF OpenAfter

\* Freeing the FS ends the file.
LEMMA FreeRefines == ASSUME Lifo, Free PROVE Promise!Next
<1>0. /\ MASTER \in Threads /\ pc \in [Threads -> Labels] /\ pc[MASTER] = "free"
      /\ pc' = [pc EXCEPT ![MASTER] = "idle"]
      /\ UNCHANGED <<at, script, fs>> /\ alive' = alive \ {fs[MASTER]}
  BY IsThread DEF Lifo, Sound, TypeOK, Free, Goto, program
<1>1. \A u \in Threads : Working(u, pc[u]) <=> AtWork(u)
  BY DEF AtWork, Working
<1>2. /\ Working(MASTER, "free") /\ ~Working(MASTER, "idle")
      /\ \A u \in Threads : Working(u, pc[u]) => fs[u] = FileOf(u) /\ FileOf(u) # NoFile
  <2>1. \A u \in Threads : AtWork(u) => pc[u] # "idle"
    BY DEF AtWork
  <2>2. \A u \in Threads : AtWork(u) => FileOf(u) \in Files
    BY <2>1, InCall DEF Lifo
  <2> QED BY <1>1, <2>2 DEF Lifo, LookInv, Working, Files, NoFile
<1>3. Using[MASTER] = fs[MASTER] /\ fs[MASTER] = FileOf(MASTER) /\ FileOf(MASTER) \in alive
  BY <1>0, <1>1, <1>2, UsingIs, WorksOnLiving DEF Lifo, TableInv
<1>4. \A u \in Threads \ {MASTER} : Using[u] # Using[MASTER]
  <2> SUFFICES ASSUME NEW u \in Threads \ {MASTER} PROVE Using[u] # Using[MASTER]
    OBVIOUS
  <2>1. CASE AtWork(u)
    <3>1. FileOf(u) # FileOf(MASTER)
      BY <1>0, <2>1, NobodyElse DEF Lifo
    <3> QED BY <1>1, <1>2, <1>3, <2>1, <3>1, UsingIs
  <2>2. CASE ~AtWork(u)
    BY <1>0, <1>1, <1>2, <1>3, <2>2, UsingIs
  <2> QED BY <2>1, <2>2
<1>5. Using' = [Using EXCEPT ![MASTER] = NoFile]
  BY <1>0, <1>2, UsingIs
<1> QED BY <1>0, <1>3, <1>4, <1>5, AboutStays, Ends

\* The other steps at most let threads go.
LEMMA OtherRefines ==
  ASSUME Lifo, UNCHANGED <<at, script, alive, fs>>, pc' \in [Threads -> Labels],
         \A u \in Threads : Working(u, pc'[u]) => Working(u, pc[u])
  PROVE  Promise!Next
<1> DEFINE T == {u \in Threads : ~Working(u, pc'[u])}
<1>1. Using' = [u \in Threads |-> IF u \in T THEN NoFile ELSE Using[u]]
  BY UsingIs
<1>2. T \in SUBSET Threads
  OBVIOUS
<1> HIDE DEF T
<1> QED BY <1>1, <1>2, AboutStays, Leaves

\* Every step is one of the promise, or none.
LEMMA FileStepRefines ==
  ASSUME Lifo, Lifo', [Next]_vars
  PROVE  Promise!Next \/ UNCHANGED Promise!vars
<1>0. pc' \in [Threads -> Labels] /\ pc \in [Threads -> Labels] /\ MASTER \in Threads
  BY IsThread DEF Lifo, Sound, TypeOK
<1>1. ASSUME NEW t \in Threads, Lead(t) \/ Follow(t) PROVE Promise!Next
  BY <1>1, EnterRefines
<1>2. ASSUME NEW t \in Threads, Look(t) PROVE Promise!Next \/ UNCHANGED Promise!vars
  BY <1>2, LookRefines
<1>3. CASE Insert
  <2>1. /\ UNCHANGED <<at, script, alive>> /\ pc[MASTER] = "insert"
        /\ pc' = [pc EXCEPT ![MASTER] = "create"] /\ fs' = [fs EXCEPT ![MASTER] = FileOf(MASTER)]
    BY <1>3 DEF Insert, Goto, program, memory
  <2>2. ~Working(MASTER, "insert") /\ ~Working(MASTER, "create")
    BY DEF Working
  <2>3. fs \in [Threads -> Files \cup {NoFile}]
    BY DEF Lifo, Sound, TypeOK
  <2>4. Using' = Using
    BY <1>0, <2>1, <2>2, <2>3, UsingIs
  <2> QED BY <2>1, <2>4, AboutStays, Stutters
<1>4. CASE Create
  BY <1>4, CreateRefines
<1>5. CASE Free
  BY <1>5, FreeRefines
<1>6. ASSUME ~Insert, ~Create, ~Free,
             \A t \in Threads : ~Look(t) /\ ~Lead(t) /\ ~Follow(t)
      PROVE  Promise!Next
  <2>1. /\ fs' = fs /\ \A u \in Threads : Plain(u, pc[u], pc'[u])
    BY <1>6, PlainStep DEF Lifo
  <2>2. \/ AwaitOpened \/ Remove \/ Sync \/ UNCHANGED vars
        \/ \E t \in Threads : OpenFd(t) \/ CloseFd(t) \/ Store(t) \/ Transfer(t)
    BY <1>6 DEF Next, MasterStep, ThreadStep, Terminating
  <2>3. UNCHANGED <<at, script, alive>>
    BY <2>2 DEF AwaitOpened, Remove, Sync, OpenFd, CloseFd, Store, Transfer, memory, program, vars
  <2>4. ASSUME pc[MASTER] = "create" PROVE pc'[MASTER] = "create"
    <3>1. CASE AwaitOpened \/ Remove \/ Sync \/ UNCHANGED vars
      BY <2>4, <3>1 DEF AwaitOpened, Remove, Sync, Goto, vars
    <3>2. ASSUME NEW t \in Threads, NEW label, pc[t] # "create", Arrive(t, label)
          PROVE  pc'[MASTER] = "create"
      BY <1>0, <2>4, <3>2 DEF Arrive, TeamWait
    <3>3. ASSUME NEW t \in Threads, OpenFd(t) \/ CloseFd(t) \/ Store(t)
          PROVE  pc'[MASTER] = "create"
      <4>1. pc[t] # "create" /\ \E label \in {"o2", "c2", "ompc"} : Arrive(t, label)
        BY <3>3 DEF OpenFd, CloseFd, Store, EndClose
      <4> QED BY <3>2, <4>1
    <3>4. ASSUME NEW t \in Threads, Transfer(t) PROVE pc'[MASTER] = "create"
      BY <1>0, <2>4, <3>4 DEF Transfer, AtBarr
    <3> QED BY <2>2, <3>1, <3>3, <3>4
  <2>5. \A u \in Threads : Working(u, pc'[u]) => Working(u, pc[u])
    <3>1. ~Working(MASTER, "create")
      BY DEF Working
    <3> QED BY <2>1, <2>4, <3>1 DEF Plain
  <2> QED BY <1>0, <2>1, <2>3, <2>5, OtherRefines
<1> QED BY <1>1, <1>2, <1>3, <1>4, <1>5, <1>6

\* The MASTER takes a file out of the table and frees it while others may still be
\* in the library: to the threads a file is nevertheless what OpenFiles promises,
\* alive while anyone works on it and ended by nobody but the one who is last.
THEOREM FilesAreImplemented == ASSUME ~MayFail, ~AnyOrder PROVE Spec => ImplementsOpenFiles
<1>1. Init => Promise!Init
  BY DEF Init, Promise!Init, AtWork
<1>2. Lifo /\ Lifo' /\ [Next]_vars => [Promise!Next]_(Promise!vars)
  BY FileStepRefines
<1> QED BY <1>1, <1>2, FilesKeepOrder, PTL DEF Spec, ImplementsOpenFiles, Promise!Spec

-----------------------------------------------------------------------------
(* What is left behind *)

\* Each descriptor of the process is in the slot of a thread that has not closed
\* the file yet.
KernelInv ==
  \A d \in Descriptors, j \in Files :
    kernel[d] = j => \E u \in Threads : fd[j][u] = d /\ ~Closed(u, j)

\* Nobody has closed the file that is being opened.
LEMMA NewNotClosed ==
  ASSUME Sound, Lawful, MASTER \in Threads, pc[MASTER] = "create", NEW u \in Threads
  PROVE  ~Closed(u, FileOf(MASTER))
<1> DEFINE n == at[MASTER]
           k == FileOf(MASTER)
<1>1. /\ n \in 1..Len(script) /\ script[n].call = "open" /\ script[n].file = k
      /\ Len(script) \in Nat /\ Passed(pc[MASTER], "open") = 0
  <2>1. /\ n \in 1..Len(script) /\ script[n].call = CallOf(MASTER) /\ script[n].file = k
        /\ pc[MASTER] \in LabelsIn(MASTER, CallOf(MASTER))
        /\ CallOf(MASTER) \in {"open", "close", "io", "fsync"}
    BY InCall
  <2>2. CallOf(MASTER) = "open"
    BY <2>1 DEF LabelsIn
  <2> QED BY <2>1, <2>2 DEF Sound, TypeOK, Passed
<1>2. at[u] \in 0..Len(script) /\ ~(at[u] > n)
  BY <1>1, Between DEF Barriers
<1>3. k \in OpenAfter(script, n)
  BY <1>1, Spans
<1>4. 1..at[u] \subseteq 1..n
  BY <1>1, <1>2
<1> QED BY <1>3, <1>4 DEF Closed, HasClosed, OpenAfter

\* A thread that opens a file has not opened it before.
LEMMA NotOpenedTwice ==
  ASSUME Sound, Lawful, MASTER \in Threads, NEW t \in Threads, pc[t] = "openfd"
  PROVE  ~Opened(t, FileOf(t))
<1> DEFINE n == at[t]
           k == FileOf(t)
<1>1. /\ n \in 1..Len(script) /\ script[n].call = "open" /\ script[n].file = k
      /\ k \in Files /\ script \in Seq(Call)
  <2>1. /\ n \in 1..Len(script) /\ script[n].call = CallOf(t) /\ script[n].file = k
        /\ pc[t] \in LabelsIn(t, CallOf(t)) /\ k \in Files
        /\ CallOf(t) \in {"open", "close", "io", "fsync"}
    BY InCall
  <2>2. CallOf(t) = "open"
    BY <2>1 DEF LabelsIn
  <2> QED BY <2>1, <2>2 DEF Sound, TypeOK
<1>2. SUFFICES ASSUME NEW m \in 1..n, script[m].call = "open", script[m].file = k,
                      m = n => OpenedNow(t, pc[t])
               PROVE  FALSE
  BY DEF Opened, HasOpened
<1>3. m # n
  BY <1>2 DEF OpenedNow
<1>4. m \in 1..(n - 1)
  BY <1>1, <1>3
<1>5. script[m].file < script[n].file
  BY <1>1, <1>2, <1>4 DEF Lawful, Legal
<1> QED BY <1>1, <1>2, <1>5 DEF Files

\* When the MASTER frees a file, everybody has closed it.
LEMMA AllClosed ==
  ASSUME Sound, MASTER \in Threads, pc[MASTER] = "free", NEW u \in Threads
  PROVE  Closed(u, FileOf(MASTER))
<1> DEFINE n == at[MASTER]
<1>1. /\ n \in 1..Len(script) /\ script[n].call = "close" /\ script[n].file = FileOf(MASTER)
      /\ Len(script) \in Nat
  <2>1. /\ n \in 1..Len(script) /\ script[n].call = CallOf(MASTER)
        /\ script[n].file = FileOf(MASTER)
        /\ pc[MASTER] \in LabelsIn(MASTER, CallOf(MASTER))
        /\ CallOf(MASTER) \in {"open", "close", "io", "fsync"}
    BY InCall
  <2>2. CallOf(MASTER) = "close"
    BY <2>1 DEF LabelsIn
  <2> QED BY <2>1, <2>2 DEF Sound, TypeOK
<1>2. Passed(pc[MASTER], script[n].call) = 2
  BY <1>1 DEF Passed
<1>3. at[u] \in 0..Len(script) /\ ~(at[u] < n)
  BY <1>1, <1>2, Between
<1>4. n \in 1..at[u]
  BY <1>1, <1>3
<1>5. n = at[u] => ClosedNow(pc[u])
  <2>1. SUFFICES ASSUME n = at[u] PROVE ClosedNow(pc[u])
    OBVIOUS
  <2>2. Passed(pc[u], "close") = 2
    BY <1>1, <1>2, <2>1, Between
  <2>3. pc[u] \in {"remove", "free", "idle"}
    BY <1>1, <2>1, <2>2, CloseLabels
  <2> QED BY <2>3 DEF ClosedNow
<1> QED BY <1>1, <1>4, <1>5 DEF Closed, HasClosed

\* No step loses a descriptor.
LEMMA KernelStep ==
  ASSUME ~MayFail, ~AnyOrder, Lifo, KernelInv, [Next]_vars
  PROVE  KernelInv'
<1>0. /\ MASTER \in Threads
      /\ fd \in [Files -> [Threads -> Slot]]
      /\ kernel \in [Descriptors -> Files \cup {NoFile}]
      /\ Unknown \notin Descriptors /\ Failed \notin Descriptors
      /\ NoFile \notin Files
      /\ \A j \in Files, v \in Threads : Row(j, v)
  BY IsThread DEF Lifo, Sound, TypeOK, Descriptors, Unknown, Failed, NoFile, Files, RowInv
<1>s. SUFFICES ASSUME NEW d \in Descriptors, NEW j \in Files, kernel'[d] = j
               PROVE  \E u \in Threads : fd'[j][u] = d /\ ~Closed(u, j)'
  BY DEF KernelInv
<1>w. ASSUME kernel[d] = j
      PROVE  \E u \in Threads : /\ fd[j][u] = d /\ ~Closed(u, j)
                                /\ j \in Living /\ Opened(u, j)
  <2>1. PICK u \in Threads : fd[j][u] = d /\ ~Closed(u, j)
    BY <1>w DEF KernelInv
  <2> QED BY <1>0, <2>1 DEF Row
<1>1. CASE Create
  <2> DEFINE k == FileOf(MASTER)
  <2>0. pc[MASTER] = "create" /\ fs[MASTER] = k
    BY <1>0, <1>1 DEF Create, Lifo, LookInv
  <2>1. /\ k \in Files /\ k \notin Living
        /\ \A u \in Threads, i \in Files : Closed(u, i)' <=> Closed(u, i)
        /\ ~Closed(MASTER, k)
    BY <1>0, <1>1, <2>0, CreateDoes, NewNotClosed DEF Lifo
  <2>2. PICK e \in OpenResults :
          /\ fd' = [fd EXCEPT ![k][MASTER] = e]
          /\ kernel' = [c \in Descriptors |-> IF c = e THEN k ELSE kernel[c]]
    BY <1>1, <2>0 DEF Create
  <2> HIDE DEF k
  <2>3. CASE d = e
    <3>1. j = k /\ fd'[k][MASTER] = d
      BY <1>0, <1>s, <2>1, <2>2, <2>3
    <3> QED BY <1>0, <2>1, <3>1
  <2>4. CASE d # e
    <3>1. kernel[d] = j
      BY <1>s, <2>2, <2>4
    <3>2. PICK u \in Threads : fd[j][u] = d /\ ~Closed(u, j) /\ j \in Living
      BY <1>s, <1>w, <3>1
    <3>3. fd'[j][u] = d
      BY <1>0, <2>1, <2>2, <3>2
    <3> QED BY <2>1, <3>1, <3>2, <3>3
  <2> QED BY <2>3, <2>4
<1>2. CASE Free
  <2> DEFINE k == FileOf(MASTER)
  <2>0. pc[MASTER] = "free" /\ fs[MASTER] = k
    BY <1>0, <1>2 DEF Free, Goto, Lifo, LookInv, AtWork
  <2>1. /\ k \in Files /\ \A u \in Threads, i \in Files : Closed(u, i)' <=> Closed(u, i)
        /\ \A u \in Threads : Closed(u, k)
    BY <1>0, <1>2, <2>0, FreeDoes, AllClosed DEF Lifo
  <2>2. /\ fd' = [fd EXCEPT ![k] = [t \in Threads |-> Unknown]]
        /\ kernel' = kernel
    BY <1>2, <2>0 DEF Free
  <2> HIDE DEF k
  <2>3. PICK u \in Threads : fd[j][u] = d /\ ~Closed(u, j)
    BY <1>s, <1>w, <2>2
  <2>4. j # k
    BY <2>1, <2>3
  <2>5. fd'[j][u] = d
    BY <1>0, <2>2, <2>3, <2>4
  <2> QED BY <2>1, <2>2, <2>3, <2>5
<1>3. ASSUME NEW t \in Threads, OpenFd(t)
      PROVE  \E u \in Threads : fd'[j][u] = d /\ ~Closed(u, j)'
  <2> DEFINE k == FileOf(t)
  <2>0. pc[t] = "openfd" /\ fs[t] = k
    BY <1>3 DEF OpenFd, Lifo, LookInv, AtWork
  <2>w. k \in Living
    BY <1>0, <2>0, WorksOnLiving DEF Lifo, AtWork
  <2>1. /\ k \in Files
        /\ \A u \in Threads, i \in Files : Closed(u, i)' <=> Closed(u, i)
    BY <1>3, OpenFdDoes DEF Lifo
  <2>c. ~Closed(t, k) /\ ~Opened(t, k)
    BY <1>0, <2>0, <2>1, <2>w, NoneClosed, NotOpenedTwice DEF Lifo
  <2>2. PICK e \in OpenResults :
          /\ fd' = IF e = Failed THEN fd ELSE [fd EXCEPT ![k][t] = e]
          /\ kernel' = [c \in Descriptors |-> IF c = e THEN k ELSE kernel[c]]
    BY <1>3, <2>0 DEF OpenFd
  <2>3. e \in Descriptors
    BY DEF OpenResults, LowestFree
  <2> HIDE DEF k
  <2>4. CASE d = e
    <3>1. j = k /\ fd'[k][t] = d
      BY <1>0, <1>s, <2>1, <2>2, <2>3, <2>4
    <3> QED BY <2>1, <2>c, <3>1
  <2>5. CASE d # e
    <3>1. kernel[d] = j
      BY <1>s, <2>2, <2>5
    <3>2. PICK u \in Threads : fd[j][u] = d /\ ~Closed(u, j) /\ Opened(u, j)
      BY <1>s, <1>w, <3>1
    <3>3. j # k \/ u # t
      BY <2>c, <3>2
    <3>4. fd'[j][u] = d
      BY <1>0, <2>1, <2>2, <2>3, <3>2, <3>3
    <3> QED BY <2>1, <3>1, <3>2, <3>4
  <2> QED BY <2>4, <2>5
<1>4. ASSUME NEW t \in Threads, CloseFd(t)
      PROVE  \E u \in Threads : fd'[j][u] = d /\ ~Closed(u, j)'
  <2> DEFINE k == FileOf(t)
  <2>0. pc[t] = "closefd" /\ fs[t] = k
    BY <1>4 DEF CloseFd, Lifo, LookInv, AtWork
  <2>1. /\ k \in Files
        /\ \A u \in Threads, i \in Files :
             Closed(u, i)' <=> Closed(u, i) \/ (u = t /\ i = k)
    BY <1>4, CloseFdDoes DEF Lifo
  <2>2. /\ kernel' = [c \in Descriptors |-> IF c = fd[k][t] THEN NoFile ELSE kernel[c]]
        /\ fd' = fd
    BY <1>4, <2>0 DEF CloseFd, OwnFd, memory
  <2> HIDE DEF k
  <2>3. d # fd[k][t] /\ kernel[d] = j
    BY <1>0, <1>s, <2>2
  <2>4. PICK u \in Threads : fd[j][u] = d /\ ~Closed(u, j)
    BY <1>s, <1>w, <2>3
  <2>5. ~(u = t /\ j = k)
    BY <2>3, <2>4
  <2> QED BY <2>1, <2>2, <2>3, <2>4, <2>5
<1>5. ASSUME UNCHANGED <<kernel, fd>>,
             \A u \in Threads, i \in Files : Closed(u, i)' <=> Closed(u, i)
      PROVE  \E u \in Threads : fd'[j][u] = d /\ ~Closed(u, j)'
  <2>1. PICK u \in Threads : fd[j][u] = d /\ ~Closed(u, j)
    BY <1>s, <1>w, <1>5
  <2> QED BY <1>5, <2>1
<1>6. CASE Insert
  BY <1>5, <1>6, InsertDoes DEF Lifo, Insert, memory
<1>7. CASE Remove
  BY <1>5, <1>7, RemoveDoes DEF Lifo, Remove, memory
<1>8. ASSUME NEW t \in Threads, Transfer(t) PROVE UNCHANGED fd
  <2> DEFINE k == fs[t]
  <2>1. fd' = [fd EXCEPT ![k][t] = IF fd[k][t] = Failed THEN fd[k][MASTER] ELSE fd[k][t]]
    BY <1>8 DEF Transfer
  <2>2. fs[t] = FileOf(t) /\ pc[t] # "idle"
    BY <1>8 DEF Transfer, Lifo, LookInv, AtWork
  <2>3. k \in Files
    BY <2>2, InCall DEF Lifo
  <2> HIDE DEF k
  <2>4. fd[k][t] # Failed
    BY <1>0, <2>3 DEF Row, Failed, Unknown, Descriptors
  <2> QED BY <1>0, <2>1, <2>3, <2>4
<1> QED BY <1>1, <1>2, <1>3, <1>4, <1>5, <1>6, <1>7, <1>8, QuietStep

\* Between two calls, what the script says is open is there.
LEMMA BetweenCalls ==
  ASSUME Lifo, MASTER \in Threads, \A t \in Threads : pc[t] = "idle" /\ at[t] = Len(script)
  PROVE  /\ Tabled = files /\ Living = files
         /\ \A k \in files, u \in Threads : Opened(u, k) /\ ~Closed(u, k)
<1> DEFINE n == Len(script)
<1>1. files = OpenAfter(script, n) /\ n \in Nat
  BY DEF Lifo, Lawful, Sound, TypeOK
<1>2. Tabled = files /\ Living = files
  BY <1>1 DEF Tabled, Living, TableSet, AliveSet, TableEarly, AliveEarly
<1>3. ASSUME NEW k \in files, NEW u \in Threads PROVE Opened(u, k) /\ ~Closed(u, k)
  BY <1>1, <1>3 DEF OpenAfter, Opened, Closed, HasOpened, HasClosed, OpenedNow, ClosedNow
<1> QED BY <1>2, <1>3

\* A set has as many elements as there are arguments that yield each of them once.
LEMMA AsManyValues ==
  ASSUME NEW S, NEW R, NEW f \in [S -> R], IsFiniteSet(S),
         \A x, y \in S : f[x] = f[y] => x = y, \A r \in R : \E x \in S : f[x] = r
  PROVE  Cardinality(R) = Cardinality(S)
<1>1. f \in Bijection(S, R)
  BY DEF Bijection, Injection, IsInjective, Surjection
<1>2. ExistsBijection(S, R)
  BY <1>1 DEF ExistsBijection
<1> QED BY <1>2, FS_Bijection

\* Between two calls the table, the memory and the process hold exactly the open
\* files, one descriptor for each thread: closing leaves nothing behind.
THEOREM NothingLeftHolds == ASSUME ~MayFail, ~AnyOrder PROVE Spec => []NothingLeft
<1>1. Init => KernelInv
  BY DEF Init, KernelInv, NoFile, Files
<1>2. Lifo /\ KernelInv /\ [Next]_vars => KernelInv'
  BY KernelStep
<1>3. Lifo /\ KernelInv => NothingLeft
  <2> SUFFICES ASSUME Lifo, KernelInv,
                      \A t \in Threads : pc[t] = "idle" /\ at[t] = Len(script)
               PROVE  /\ {table[n] : n \in DOMAIN table} = files
                      /\ Len(table) = Cardinality(files)
                      /\ alive = files
                      /\ \A k \in Files : Cardinality({d \in Descriptors : kernel[d] = k}) =
                                            IF k \in files THEN NumThreads ELSE 0
    BY DEF NothingLeft
  <2>0. MASTER \in Threads /\ files \subseteq Files
    BY IsThread DEF Lifo, Sound, TypeOK
  <2>1. /\ Tabled = files /\ Living = files
        /\ \A k \in files, u \in Threads : Opened(u, k) /\ ~Closed(u, k)
    BY <2>0, BetweenCalls
  <2>2. {table[n] : n \in DOMAIN table} = files /\ alive = files
    BY <2>1 DEF Lifo, TableInv
  <2>3. Len(table) = Cardinality(files)
    <3>1. table \in [1..Len(table) -> Files] /\ DOMAIN table = 1..Len(table) /\ Len(table) \in Nat
      <4>1. table \in Seq(Files)
        BY DEF Lifo, Sound, TypeOK
      <4> QED BY <4>1
    <3>2. ASSUME NEW x \in 1..Len(table), NEW y \in 1..Len(table), table[x] = table[y]
          PROVE  x = y
      <4>1. table[x] \in Nat /\ table[y] \in Nat
        BY <3>1 DEF Files
      <4>2. ~(x < y) /\ ~(y < x)
        BY <3>1, <3>2, <4>1 DEF Lifo, TableInv
      <4> QED BY <3>1, <4>2
    <3>3. IsFiniteSet(1..Len(table)) /\ Cardinality(1..Len(table)) = Len(table)
      <4> DEFINE n == Len(table)
      <4>1. n \in Nat /\ n \in Int /\ 1 \in Int
        BY <3>1
      <4> HIDE DEF n
      <4>2. IsFiniteSet(1..n) /\ Cardinality(1..n) = IF 1 > n THEN 0 ELSE n - 1 + 1
        BY <4>1, FS_Interval
      <4>3. Cardinality(1..n) = n
        BY <4>1, <4>2
      <4> QED BY <4>2, <4>3 DEF n
    <3>4. Cardinality(files) = Cardinality(1..Len(table))
      <4> DEFINE S == 1..Len(table)
      <4>1. IsFiniteSet(S) /\ table \in [S -> files] /\ \A r \in files : \E x \in S : table[x] = r
        BY <2>2, <3>1, <3>3
      <4>2. \A x, y \in S : table[x] = table[y] => x = y
        BY <3>2
      <4> HIDE DEF S
      <4>3. Cardinality(files) = Cardinality(S)
        BY <4>1, <4>2, AsManyValues
      <4> QED BY <4>3 DEF S
    <3> QED BY <3>3, <3>4
  <2>4. ASSUME NEW k \in Files
        PROVE  Cardinality({d \in Descriptors : kernel[d] = k}) =
                 IF k \in files THEN NumThreads ELSE 0
    <3> DEFINE D == {d \in Descriptors : kernel[d] = k}
    <3>0. Unknown \notin Descriptors /\ fd[k] \in [Threads -> Slot]
          /\ \A u \in Threads : Row(k, u)
      BY DEF Lifo, Sound, TypeOK, RowInv, Unknown, Descriptors
    <3>1. \A d \in D : \E u \in Threads : fd[k][u] = d
      BY DEF KernelInv
    <3>2. CASE k \in files
      <4>1. \A u \in Threads : fd[k][u] \in D
        BY <2>1, <3>0, <3>2 DEF Row
      <4>2. fd[k] \in [Threads -> D]
        BY <3>0, <4>1
      <4>3. \A u, v \in Threads : fd[k][u] = fd[k][v] => u = v
        BY <3>0, <4>1 DEF Lifo, RowInv, Distinct
      <4>4. IsFiniteSet(Threads) /\ Cardinality(Threads) = NumThreads
        <5>1. NumThreads \in Nat \ {0} /\ 0 \in Int /\ NumThreads - 1 \in Int
          BY FileTableAssumption
        <5>2. /\ IsFiniteSet(0..(NumThreads - 1))
              /\ Cardinality(0..(NumThreads - 1)) =
                   IF 0 > NumThreads - 1 THEN 0 ELSE (NumThreads - 1) - 0 + 1
          BY <5>1, FS_Interval
        <5> QED BY <5>1, <5>2 DEF Threads
      <4> HIDE DEF D
      <4>5. Cardinality(D) = Cardinality(Threads)
        <5> DEFINE f == fd[k]
        <5>1. /\ f \in [Threads -> D] /\ \A u, v \in Threads : f[u] = f[v] => u = v
              /\ \A r \in D : \E u \in Threads : f[u] = r
          BY <3>1, <4>2, <4>3
        <5> HIDE DEF f
        <5> QED BY <4>4, <5>1, AsManyValues
      <4> QED BY <3>2, <4>4, <4>5 DEF D
    <3>3. CASE k \notin files
      <4>1. \A u \in Threads : fd[k][u] = Unknown
        BY <2>1, <3>0, <3>3 DEF Row
      <4>2. D = {}
        BY <3>0, <3>1, <4>1
      <4> QED BY <3>3, <4>2, FS_EmptySet
    <3> QED BY <3>2, <3>3
  <2> QED BY <2>2, <2>3, <2>4
<1> QED BY <1>1, <1>2, <1>3, FilesKeepOrder, PTL DEF Spec

-----------------------------------------------------------------------------
(* Nobody waits in vain *)

\* Between the two barriers that a collective read or write meets at.
Transferring == {"base", "barr"}

\* Somebody has not come to the team barrier; and of the threads that the barrier of
\* a file is made for, either all are before it, one of them still to come, or none.
BarrierInv ==
  /\ \E t \in Threads : pc[t] \notin TeamWait
  /\ \A t \in Threads : pc[t] \in Transferring =>
       /\ t < active[fs[t]]
       /\ \A u \in Threads : u < active[fs[t]] => pc[u] \in Transferring /\ fs[u] = fs[t]
       /\ \E u \in Threads : u < active[fs[t]] /\ pc[u] = "base"

\* The MASTER is always among them.
LEMMA MasterTransfers ==
  ASSUME Sound, LookInv, BarrierInv, NEW t \in Threads, pc[t] \in Transferring
  PROVE  /\ pc[MASTER] \in Transferring /\ fs[MASTER] = fs[t] /\ 0 < active[fs[t]]
         /\ fs[t] \in Files /\ active[fs[t]] \in 0..NumThreads
<1>1. t < active[fs[t]] /\ t \in Nat
  BY DEF BarrierInv, Threads
<1>2. fs[t] \in Files
  <2>1. pc[t] # "idle" /\ fs[t] = FileOf(t)
    BY DEF Transferring, LookInv, AtWork
  <2> QED BY <2>1, InCall
<1>3. active[fs[t]] \in 0..NumThreads
  BY <1>2 DEF Sound, TypeOK
<1>4. MASTER < active[fs[t]] /\ 0 < active[fs[t]]
  BY <1>1, <1>3, FileTableAssumption DEF MASTER
<1> QED BY <1>2, <1>3, <1>4, IsThread DEF BarrierInv

\* A step in which no thread comes between the two barriers or leaves.
LEMMA OthersTransfer ==
  ASSUME BarrierInv,
         \A u \in Threads : pc[u] \in Transferring =>
           pc'[u] = pc[u] /\ fs'[u] = fs[u] /\ active'[fs[u]] = active[fs[u]],
         \A u \in Threads : pc[u] \notin Transferring => pc'[u] \notin Transferring,
         \E u \in Threads : pc'[u] \notin TeamWait
  PROVE  BarrierInv'
<1> SUFFICES ASSUME NEW t \in Threads, pc'[t] \in Transferring
             PROVE  /\ t < active'[fs'[t]]
                    /\ \A u \in Threads : u < active'[fs'[t]] => pc'[u] \in Transferring /\ fs'[u] = fs'[t]
                    /\ \E u \in Threads : u < active'[fs'[t]] /\ pc'[u] = "base"
  BY DEF BarrierInv
<1>1. pc[t] \in Transferring /\ active'[fs'[t]] = active[fs[t]] /\ fs'[t] = fs[t]
  BY DEF BarrierInv
<1>2. PICK u \in Threads : u < active[fs[t]] /\ pc[u] = "base"
  BY <1>1 DEF BarrierInv
<1>3. pc'[u] = "base"
  BY <1>2 DEF Transferring
<1> QED BY <1>1, <1>2, <1>3 DEF BarrierInv

\* A thread that waits at the team barrier is in the call of a thread that is
\* between two barriers of the team in its call.
LEMMA SameCall ==
  ASSUME Sound, NEW t \in Threads, NEW u \in Threads, pc[u] \in TeamWait,
         pc[t] \in {"create", "opened", "openfd", "closefd", "store"}
  PROVE  at[u] = at[t]
<1>1. /\ at[t] \in 1..Len(script) /\ pc[t] \in LabelsIn(t, CallOf(t))
      /\ CallOf(t) \in {"open", "close", "io", "fsync"}
  BY InCall DEF Sound
<1>2. /\ at[u] \in 1..Len(script) /\ pc[u] \in LabelsIn(u, CallOf(u))
      /\ CallOf(u) \in {"open", "close", "io", "fsync"}
  BY InCall DEF Sound, TeamWait
<1>3. Passed(pc[t], CallOf(t)) # Barriers(CallOf(t))
  BY <1>1 DEF LabelsIn, Passed, Barriers
<1>4. Passed(pc[u], CallOf(u)) # Barriers(CallOf(u))
  BY <1>2, PassedFacts
<1>5. ~(at[t] < at[u]) /\ ~(at[u] < at[t])
  BY <1>1, <1>2, <1>3, <1>4 DEF Sound, Ordered, Together, Ahead, CallOf
<1> QED BY <1>1, <1>2, <1>5

\* The last thread arrives, and nobody waits before a transfer.
LEMMA ReleasedToOthers ==
  ASSUME NEW t \in Threads, NEW label \in TeamWait, label # "ompc", Arrive(t, label),
         \A u \in Threads \ {t} : pc[u] \in TeamWait \ {"ompc"}
  PROVE  BarrierInv'
<1>1. \A u \in Threads : \E w \in TeamWait \ {"ompc"} : pc'[u] = AfterWait(u, w)
  BY DEF Arrive
<1>2. \A u, w : w \in TeamWait \ {"ompc"} => AfterWait(u, w) \notin TeamWait \cup Transferring
  BY DEF AfterWait, TeamWait, Transferring
<1>3. \A u \in Threads : pc'[u] \notin TeamWait \cup Transferring
  BY <1>1, <1>2
<1> QED BY <1>3, IsThread DEF BarrierInv

\* A thread arrives at the team barrier.
LEMMA ArrivalElsewhere ==
  ASSUME TypeOK, BarrierInv, NEW t \in Threads, NEW label \in TeamWait, label # "ompc",
         Arrive(t, label), pc[t] \notin Transferring, fs' = fs,
         \A u \in Threads : pc[u] \in Transferring => active'[fs[u]] = active[fs[u]],
         \A u \in Threads \ {t} : pc[u] # "ompc" \/ \E v \in Threads \ {t} : pc[v] \notin TeamWait
  PROVE  BarrierInv'
<1>1. CASE \A u \in Threads \ {t} : pc[u] \in TeamWait
  BY <1>1, ReleasedToOthers
<1>2. CASE ~(\A u \in Threads \ {t} : pc[u] \in TeamWait)
  <2>1. pc' = [pc EXCEPT ![t] = label]
    BY <1>2 DEF Arrive
  <2>2. \A u \in Threads : pc'[u] = IF u = t THEN label ELSE pc[u]
    BY <2>1 DEF TypeOK
  <2>3. label \notin Transferring
    BY DEF TeamWait, Transferring
  <2>4. \E u \in Threads : pc'[u] \notin TeamWait
    BY <1>2, <2>2
  <2> QED BY <2>2, <2>3, <2>4, OthersTransfer
<1> QED BY <1>1, <1>2

\* A thread moves on its own.
LEMMA MoveElsewhere ==
  ASSUME TypeOK, BarrierInv, NEW t \in Threads, NEW label, label \notin Transferring \cup TeamWait,
         pc' = [pc EXCEPT ![t] = label], pc[t] \notin Transferring, active' = active,
         \A u \in Threads : u # t => fs'[u] = fs[u]
  PROVE  BarrierInv'
<1>1. \A u \in Threads : pc'[u] = IF u = t THEN label ELSE pc[u]
  BY DEF TypeOK
<1>2. \E u \in Threads : pc'[u] \notin TeamWait
  BY <1>1
<1> QED BY <1>1, <1>2, OthersTransfer

\* The threads the barrier of file k is made for are as many as active_threads.
LEMMA Crowd ==
  ASSUME NEW n \in 0..NumThreads, NEW S \in SUBSET Threads, \A u \in S : u < n
  PROVE  Cardinality(S) = n <=> \A u \in Threads : u < n => u \in S
<1> DEFINE T == 0..(n - 1)
<1>1. IsFiniteSet(T) /\ Cardinality(T) = n
  BY FS_Interval
<1>2. S \subseteq T
  BY DEF Threads
<1>3. \A u : u \in T <=> u \in Threads /\ u < n
  BY FileTableAssumption DEF Threads
<1> HIDE DEF T
<1>4. (Cardinality(S) = n) <=> S = T
  BY <1>1, <1>2, FS_Subset
<1> QED BY <1>2, <1>3, <1>4

\* A thread has done its transfers and comes to the barrier of the file.
LEMMA TransferEnds ==
  ASSUME Sound, LookInv, BarrierInv, NEW t \in Threads, Transfer(t)
  PROVE  BarrierInv'
<1> DEFINE k == fs[t]
           S == AtBarr(t, k)
<1>1. pc[t] = "base" /\ pc[t] \in Transferring /\ fs' = fs /\ active' = active
  BY DEF Transfer, Transferring
<1>2. k \in Files /\ active[k] \in 0..NumThreads /\ 0 < active[k]
  BY <1>1, MasterTransfers
<1>3. ASSUME NEW u \in Threads, pc[u] \in Transferring PROVE fs[u] = k /\ u < active[k]
  <2>1. fs[MASTER] = fs[u] /\ fs[MASTER] = k
    BY <1>1, <1>3, MasterTransfers
  <2> QED BY <1>3, <2>1 DEF BarrierInv
<1>4. \A u \in Threads : u < active[k] => pc[u] \in Transferring /\ fs[u] = k
  BY <1>1 DEF BarrierInv
<1>5. S \in SUBSET Threads /\ t \in S
      /\ \A u \in Threads : u \in S <=> u = t \/ (pc[u] = "barr" /\ fs[u] = k)
  BY DEF AtBarr
<1>6. \A u \in S : u < active[k]
  BY <1>1, <1>3, <1>5 DEF Transferring
<1>7. pc' = IF Cardinality(S) = active[k]
            THEN [u \in Threads |-> IF u \in S THEN "idle" ELSE pc[u]]
            ELSE [pc EXCEPT ![t] = "barr"]
  BY DEF Transfer
<1> HIDE DEF k, S
<1>8. Cardinality(S) = active[k] <=> \A u \in Threads : u < active[k] => u \in S
  BY <1>2, <1>5, <1>6, Crowd
<1>9. CASE Cardinality(S) = active[k]
  <2>1. \A u \in Threads : pc'[u] = IF u \in S THEN "idle" ELSE pc[u]
    BY <1>7, <1>9
  <2>2. \A u \in Threads : pc[u] \in Transferring => u \in S
    BY <1>3, <1>8, <1>9
  <2>3. \A u \in Threads : pc'[u] \notin Transferring
    BY <2>1, <2>2 DEF Transferring
  <2>4. pc'[t] \notin TeamWait
    BY <1>5, <2>1 DEF TeamWait
  <2> QED BY <2>3, <2>4 DEF BarrierInv
<1>10. CASE Cardinality(S) # active[k]
  <2>1. \A u \in Threads : pc'[u] = IF u = t THEN "barr" ELSE pc[u]
    BY <1>7, <1>10 DEF Sound, TypeOK
  <2>2. PICK u \in Threads : u < active[k] /\ u \notin S
    BY <1>8, <1>10
  <2>3. pc'[u] = "base"
    BY <1>4, <1>5, <2>1, <2>2 DEF Transferring
  <2>4. \A v \in Threads : pc'[v] \in Transferring <=> pc[v] \in Transferring
    BY <1>1, <2>1 DEF Transferring
  <2>5. pc'[t] \notin TeamWait
    BY <2>1 DEF TeamWait
  <2> QED BY <1>1, <1>3, <1>4, <2>2, <2>3, <2>4, <2>5 DEF BarrierInv
<1> QED BY <1>9, <1>10

\* The last thread has stored its arguments: the active ones go on together.
LEMMA StoreArrives ==
  ASSUME Sound, LookInv, BarrierInv, NEW t \in Threads, Store(t)
  PROVE  BarrierInv'
<1>1. pc[t] = "store" /\ Arrive(t, "ompc") /\ fs' = fs /\ active' = active /\ TypeOK
  BY DEF Store, memory, Sound
<1>2. CASE \A u \in Threads \ {t} : pc[u] \in TeamWait
  <2>1. ASSUME NEW u \in Threads \ {t} PROVE pc[u] = "ompc" /\ fs[u] = fs[t]
    <3>1. at[u] = at[t]
      BY <1>1, <1>2, SameCall
    <3>2. CallOf(u) = CallOf(t) /\ FileOf(u) = FileOf(t)
      BY <3>1 DEF CallOf, FileOf
    <3>3. /\ pc[t] \in LabelsIn(t, CallOf(t)) /\ pc[u] \in LabelsIn(u, CallOf(u))
          /\ CallOf(t) \in {"open", "close", "io", "fsync"}
      BY <1>1, <1>2, InCall DEF Sound, TeamWait
    <3>4. pc[u] = "ompc"
      BY <1>1, <1>2, <3>2, <3>3 DEF LabelsIn, TeamWait
    <3>5. fs[u] = FileOf(u) /\ fs[t] = FileOf(t)
      BY <1>1, <3>4 DEF LookInv, AtWork
    <3> QED BY <3>2, <3>4, <3>5
  <2>2. \A u \in Threads : pc'[u] = IF u < active[fs[t]] THEN "base" ELSE "idle"
    BY <1>1, <1>2, <2>1 DEF Arrive, AfterWait
  <2>3. \A u \in Threads : fs[u] = fs[t]
    BY <2>1
  <2>4. \A u \in Threads : /\ pc'[u] \notin TeamWait
                           /\ pc'[u] \in Transferring <=> pc'[u] = "base"
    BY <2>2 DEF TeamWait, Transferring
  <2>5. \A u \in Threads : pc'[u] = "base" <=> u < active[fs[t]]
    BY <2>2
  <2> QED BY <1>1, <2>3, <2>4, <2>5 DEF BarrierInv
<1>3. CASE ~(\A u \in Threads \ {t} : pc[u] \in TeamWait)
  <2>1. pc' = [pc EXCEPT ![t] = "ompc"]
    BY <1>1, <1>3 DEF Arrive
  <2>2. \A u \in Threads : pc'[u] = IF u = t THEN "ompc" ELSE pc[u]
    BY <1>1, <2>1 DEF TypeOK
  <2>3. \E u \in Threads : pc'[u] \notin TeamWait
    BY <1>3, <2>2
  <2>4. "ompc" \notin Transferring /\ "store" \notin Transferring
    BY DEF Transferring
  <2> QED BY <1>1, <2>2, <2>3, <2>4, OthersTransfer
<1> QED BY <1>2, <1>3

\* s is the script, or begins with it.
Extends(s) == Len(s) >= Len(script) /\ \A n \in 1..Len(script) : s[n] = script[n]

\* A thread that begins a call releases nobody into a transfer.
LEMMA EnterPasses ==
  ASSUME Sound, NEW t \in Threads, pc[t] = "idle", NEW s, Extends(s), at[t] < Len(s),
         s[at[t] + 1].call \in {"open", "close"}, NEW u \in Threads
  PROVE  pc[u] # "ompc"
<1> SUFFICES ASSUME pc[u] = "ompc" PROVE FALSE
  OBVIOUS
<1>1. /\ at[u] \in 1..Len(script) /\ pc[u] \in LabelsIn(u, CallOf(u)) /\ Len(script) \in Nat
      /\ at[t] \in 0..Len(script) /\ script \in Seq(Call)
      /\ CallOf(u) \in {"open", "close", "io", "fsync"}
  BY InCall DEF Sound, TypeOK
<1>2. CallOf(u) = "io" /\ script[at[u]].call = "io"
  BY <1>1 DEF LabelsIn, CallOf
<1>3. Passed(pc[u], script[at[u]].call) = 0 /\ Barriers("io") = 1
  BY <1>2 DEF Passed, Barriers
<1>4. at[u] = at[t] => FALSE
  <2>1. Passed("idle", "io") = 1
    BY DEF Passed
  <2> QED BY <1>1, <1>2, <1>3, <2>1 DEF Sound, Ordered, Together, Abreast
<1>5. ~(at[u] < at[t])
  BY <1>1, <1>2, <1>3 DEF Sound, Ordered, Together, Ahead
<1>6. at[t] < at[u]
  BY <1>1, <1>4, <1>5
<1>7. \A n \in 1..Len(script) : at[t] < n /\ n < at[u] => script[n].call = "fsync"
  BY <1>6 DEF Sound, Ordered, Together, Ahead
<1>8. at[t] + 1 \in 1..Len(script) /\ s[at[t] + 1] = script[at[t] + 1]
  BY <1>1, <1>6 DEF Extends
<1>9. at[t] < at[t] + 1 /\ (at[t] + 1 = at[u] \/ at[t] + 1 < at[u])
  BY <1>1, <1>6
<1>10. script[at[t] + 1].call \in {"open", "close"}
  BY <1>8
<1>11. script[at[t] + 1].call \in {"io", "fsync"}
  BY <1>2, <1>7, <1>8, <1>9
<1> QED BY <1>10, <1>11

\* A thread begins a call.
LEMMA EnterBarriers ==
  ASSUME Sound, BarrierInv, NEW t \in Threads, NEW s, Extends(s), pc[t] = "idle",
         at[t] < Len(s), at[t] + 1 \in 1..Len(s), s \in Seq(Call), Enter(t, s[at[t] + 1])
  PROVE  BarrierInv'
<1> DEFINE c == s[at[t] + 1]
<1>1. c.call \in {"open", "close", "io", "fsync"} /\ TypeOK /\ fs' = fs /\ active' = active
      /\ pc[t] \notin Transferring
  BY CallFacts DEF Sound, Enter, memory, Transferring
<1>2. ASSUME NEW label \in {"insert", "look", "idle"}, pc' = [pc EXCEPT ![t] = label]
      PROVE  BarrierInv'
  <2>1. label \notin Transferring \cup TeamWait
    BY DEF Transferring, TeamWait
  <2> QED BY <1>1, <1>2, <2>1, MoveElsewhere
<1>3. ASSUME NEW label \in {"o1", "c1"}, Arrive(t, label), c.call \in {"open", "close"}
      PROVE  BarrierInv'
  <2>1. label \in TeamWait /\ label # "ompc"
    BY DEF TeamWait
  <2>2. \A u \in Threads : pc[u] # "ompc"
    BY <1>3, EnterPasses
  <2> QED BY <1>1, <1>3, <2>1, <2>2, ArrivalElsewhere
<1>4. CASE c.call = "open"
  <2>1. t = MASTER => pc' = [pc EXCEPT ![t] = "insert"]
    BY <1>4 DEF Enter
  <2>2. t # MASTER => Arrive(t, "o1")
    BY <1>4 DEF Enter
  <2> QED BY <1>2, <1>3, <1>4, <2>1, <2>2
<1>5. CASE c.call = "close"
  <2>1. Arrive(t, "c1")
    BY <1>5 DEF Enter, BeginClose
  <2> QED BY <1>3, <1>5, <2>1
<1>6. CASE c.call = "io"
  BY <1>2, <1>6 DEF Enter
<1>7. CASE c.call = "fsync"
  BY <1>2, <1>7 DEF Enter
<1> QED BY <1>1, <1>4, <1>5, <1>6, <1>7

\* A thread arrives at another barrier of opening or closing than the first.
LEMMA InnerArrival ==
  ASSUME Sound, BarrierInv, NEW t \in Threads, NEW label \in {"o1", "o2", "c2"},
         pc[t] \in {"create", "opened", "openfd", "closefd"}, Arrive(t, label), fs' = fs,
         \A u \in Threads : pc[u] \in Transferring => active'[fs[u]] = active[fs[u]]
  PROVE  BarrierInv'
<1>1. /\ label \in TeamWait /\ label # "ompc" /\ pc[t] \notin Transferring /\ TypeOK
  BY DEF TeamWait, Transferring, Sound
<1>2. ASSUME NEW u \in Threads PROVE pc[u] # "ompc"
  <2> SUFFICES ASSUME pc[u] = "ompc" PROVE FALSE
    OBVIOUS
  <2>1. at[u] = at[t]
    BY SameCall DEF TeamWait
  <2>2. CallOf(u) = CallOf(t)
    BY <2>1 DEF CallOf
  <2>3. /\ pc[t] \in LabelsIn(t, CallOf(t)) /\ pc[u] \in LabelsIn(u, CallOf(u))
        /\ CallOf(t) \in {"open", "close", "io", "fsync"}
    BY InCall DEF Sound
  <2> QED BY <2>2, <2>3 DEF LabelsIn
<1> QED BY <1>1, <1>2, ArrivalElsewhere

\* The invariant holds throughout.
THEOREM TransfersMeet == ASSUME ~MayFail, ~AnyOrder PROVE Spec => []BarrierInv
<1>1. Init => BarrierInv
  BY IsThread DEF Init, BarrierInv, TeamWait, Transferring
<1>2. Lifo /\ BarrierInv /\ [Next]_vars => BarrierInv'
  <2> SUFFICES ASSUME Sound, LookInv, BarrierInv, [Next]_vars PROVE BarrierInv'
    BY DEF Lifo
  <2>0. MASTER \in Threads /\ TypeOK /\ script \in Seq(Call) /\ Len(script) \in Nat
        /\ at \in [Threads -> 0..Len(script)] /\ pc \in [Threads -> Labels]
        /\ opened \in 0..Opens /\ files \subseteq Files
    BY IsThread DEF Sound, TypeOK
  <2>m. ASSUME NEW t \in Threads, NEW label,
               label \in {"create", "free", "idle", "openfd", "closefd", "store", "sync"},
               pc' = [pc EXCEPT ![t] = label],
               pc[t] \in {"insert", "remove", "free", "look", "sync"}, active' = active,
               \A u \in Threads : u # t => fs'[u] = fs[u]
        PROVE  BarrierInv'
    <3>1. label \notin Transferring \cup TeamWait /\ pc[t] \notin Transferring
      BY <2>m DEF Transferring, TeamWait
    <3> QED BY <2>0, <2>m, <3>1, MoveElsewhere
  <2>1. CASE Insert
    <3>1. \A u \in Threads : u # MASTER => fs'[u] = fs[u]
      BY <2>0, <2>1 DEF Insert
    <3> QED BY <2>0, <2>1, <2>m, <3>1 DEF Insert, Goto, memory
  <2>2. CASE Create
    <3>1. pc[MASTER] = "create" /\ Arrive(MASTER, "o1") /\ fs' = fs
      BY <2>2 DEF Create
    <3>2. \A u \in Threads : pc[u] \notin Transferring
      BY <3>1, MasterTransfers DEF Transferring
    <3> QED BY <2>0, <3>1, <3>2, InnerArrival
  <2>3. CASE AwaitOpened
    BY <2>0, <2>3, InnerArrival DEF AwaitOpened, memory
  <2>4. CASE Remove \/ Free \/ Sync
    BY <2>0, <2>4, <2>m DEF Remove, Free, Sync, Goto, memory
  <2>5. ASSUME NEW t \in Threads, Lead(t) PROVE BarrierInv'
    <3>1. PICK c \in NextCalls : script' = Append(script, c) /\ Enter(t, c)
      BY <2>5 DEF Lead
    <3>2. c \in Call
      BY <2>0, FileTableAssumption DEF NextCalls, Call, Files, Usable
    <3>3. /\ pc[t] = "idle" /\ at[t] = Len(script)
      BY <2>5 DEF Lead
    <3> DEFINE s == Append(script, c)
    <3>4. s \in Seq(Call) /\ Len(s) = Len(script) + 1 /\ s[Len(script) + 1] = c
          /\ \A n \in 1..Len(script) : s[n] = script[n]
      BY <2>0, <3>2
    <3> HIDE DEF s
    <3>5. Extends(s) /\ at[t] < Len(s) /\ at[t] + 1 \in 1..Len(s) /\ s[at[t] + 1] = c
      BY <2>0, <3>3, <3>4 DEF Extends
    <3> QED BY <3>1, <3>3, <3>4, <3>5, EnterBarriers
  <2>6. ASSUME NEW t \in Threads, Follow(t) PROVE BarrierInv'
    <3>1. pc[t] = "idle" /\ at[t] < Len(script) /\ Enter(t, script[at[t] + 1])
      BY <2>6 DEF Follow
    <3>2. at[t] + 1 \in 1..Len(script) /\ Extends(script)
      BY <2>0, <3>1 DEF Extends
    <3> QED BY <2>0, <3>1, <3>2, EnterBarriers
  <2>7. ASSUME NEW t \in Threads, Look(t) PROVE BarrierInv'
    <3>1. /\ pc[t] = "look" /\ active' = active
          /\ \A u \in Threads : u # t => fs'[u] = fs[u]
          /\ (pc' = pc /\ fs' = fs) \/ pc' = [pc EXCEPT ![t] = AfterLook(t)]
      <4>1. /\ pc[t] = "look" /\ active' = active
            /\ \/ fs' = fs /\ pc' = pc
               \/ /\ \E k : fs' = [fs EXCEPT ![t] = k]
                  /\ pc' = [pc EXCEPT ![t] = AfterLook(t)]
        BY <2>7 DEF Look, memory
      <4> QED BY <2>0, <4>1 DEF TypeOK
    <3>2. AfterLook(t) \in {"openfd", "closefd", "store", "sync"}
      BY <3>1, InCall DEF AfterLook
    <3>3. CASE pc' = pc /\ fs' = fs
      BY <3>1, <3>3 DEF BarrierInv
    <3> QED BY <2>m, <3>1, <3>2, <3>3
  <2>8. ASSUME NEW t \in Threads, OpenFd(t) \/ CloseFd(t) PROVE BarrierInv'
    <3>1. \/ pc[t] = "openfd" /\ Arrive(t, "o2")
          \/ pc[t] = "closefd" /\ Arrive(t, "c2")
      BY <2>8 DEF OpenFd, CloseFd, EndClose
    <3>2. fs' = fs /\ active' = active
      BY <2>8 DEF OpenFd, CloseFd, memory
    <3> QED BY <3>1, <3>2, InnerArrival
  <2>9. ASSUME NEW t \in Threads, Store(t) PROVE BarrierInv'
    BY <2>9, StoreArrives
  <2>10. ASSUME NEW t \in Threads, Transfer(t) PROVE BarrierInv'
    BY <2>10, TransferEnds
  <2>11. CASE Terminating \/ UNCHANGED vars
    BY <2>11 DEF Terminating, vars, memory, BarrierInv
  <2> QED BY <2>1, <2>2, <2>3, <2>4, <2>5, <2>6, <2>7, <2>8, <2>9, <2>10, <2>11
          DEF Next, MasterStep, ThreadStep
<1> QED BY <1>1, <1>2, FilesKeepOrder, PTL DEF Spec

\* No program that opens, uses and closes files in this order ends with threads
\* waiting for one another, at the one barrier or at that of a file: a thread that
\* is short of a team barrier is in a call that others have not left, or waits for
\* a thread that transfers data.
THEOREM NoDeadlockHolds == ASSUME ~MayFail, ~AnyOrder PROVE Spec => []NoDeadlock
<1>1. Lifo /\ BarrierInv => NoDeadlock
  <2> SUFFICES ASSUME Sound, BarrierInv, \A t \in Threads : Waits(t),
                      NEW t \in Threads, pc[t] # "idle"
               PROVE  FALSE
    BY DEF Lifo, NoDeadlock
  <2>1. ASSUME NEW u \in Threads PROVE pc[u] # "barr"
    <3> SUFFICES ASSUME pc[u] = "barr" PROVE FALSE
      OBVIOUS
    <3>1. PICK v \in Threads : pc[v] = "base"
      BY DEF BarrierInv, Transferring
    <3> QED BY <3>1 DEF Waits, TeamWait
  <2>2. pc[t] \in TeamWait
    BY <2>1 DEF Waits
  <2>3. PICK u \in Threads : pc[u] \notin TeamWait
    BY DEF BarrierInv
  <2>4. pc[u] = "idle" /\ at[u] = Len(script)
    BY <2>1, <2>3 DEF Waits
  <2>5. /\ at[t] \in 1..Len(script) /\ pc[t] \in LabelsIn(t, CallOf(t)) /\ Len(script) \in Nat
        /\ CallOf(t) \in {"open", "close", "io", "fsync"}
    BY InCall DEF Sound, TypeOK
  <2>6. Passed(pc[t], CallOf(t)) # Barriers(CallOf(t)) /\ Passed("idle", CallOf(t)) = Barriers(CallOf(t))
    BY <2>2, <2>5, PassedFacts
  <2>7. at[t] = at[u] \/ at[t] < at[u]
    BY <2>4, <2>5
  <2> QED BY <2>4, <2>5, <2>6, <2>7 DEF Sound, Ordered, Together, Ahead, Abreast, CallOf
<1> QED BY <1>1, FilesKeepOrder, TransfersMeet, PTL

=============================================================================
