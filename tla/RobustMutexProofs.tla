------------------------- MODULE RobustMutexProofs --------------------------
(***************************************************************************)
(* Theorems about RobustMutex, for any threads, any finite set of mutexes  *)
(* of any kinds and any number of calls and deaths: no two threads hold    *)
(* one mutex, a loss is told, no word is orphaned and the lists are right. *)
(*                                                                         *)
(* The inductive invariant has two halves.  CoreInv says of every thread   *)
(* what its place implies for the word, the owner and the count of the     *)
(* mutex of its call and for list_op_pending.  ListsRight describes the    *)
(* list of every living thread as a chain of nodes, also in the middle of  *)
(* ENQUEUE_MUTEX and DEQUEUE_MUTEX; it rests on CoreInv, because a thread  *)
(* writes only links of mutexes whose words hold its id.                   *)
(* Both hold until an error of the kernel is taken for the lock (misled).  *)
(*                                                                         *)
(* A step is seen in two ways: by the thread that takes it, and by the     *)
(* others, for whom it is Calm.  The lemma CalmRight is proved once; what  *)
(* is left for each action is the thread that takes it (OneSteps).         *)
(***************************************************************************)
EXTENDS RobustMutex, SumFacts, FiniteSetTheorems, TLAPS

-----------------------------------------------------------------------------
(***************************************************************************)
(* The inductive invariant.                                                *)
(***************************************************************************)
\* Where a thread has the word of its mutex and was not told yet, and where it
\* still has it although it was given back.
DeadGetting == {"clear", "dead_own", "dead_prepare", "dead_link", "dead_record"}
Getting == DeadGetting \cup {"prepare", "link", "record", "pcheck"}
Giving == {"unlink", "unlinked", "disown", "release", "prelease"}
LockOnly == {"pread", "pcas", "pcall", "pblock", "pcheck", "hung"}
Places == Getting \cup Giving \cup LockOnly \cup
          {"user", "dead", "read", "again", "mine", "cas", "busy", "look", "kernel", "ptpp"}

\* Where the mutex of the call is not in the thread's list.
Off == {"look", "clear", "dead_own", "dead_prepare", "dead_link",
        "prepare", "link", "unlinked", "disown", "release"}

Word == [tid : Threads \cup {Nobody}, died : BOOLEAN, waiters : BOOLEAN]
Nodes == Mutexes \cup Threads
ThreadState == [at : Places, m : Mutexes \cup {NULL}, old : Word, new : {Nobody, NotRecoverable}]

TypeOK ==
    /\ kind \in [Mutexes -> AllKinds]
    /\ word \in [Mutexes -> Word]
    /\ owner \in [Mutexes -> Threads \cup {Nobody, Inconsistent, NotRecoverable}]
    /\ count \in [Mutexes -> 0 .. CountMod - 1]
    /\ next \in [Nodes -> Nodes \cup {NULL}]
    /\ prev \in [Nodes -> Nodes \cup {NULL}]
    /\ pending \in [Threads -> Mutexes \cup {NULL}]
    /\ th \in [Threads -> ThreadState]
    /\ depth \in [Threads -> [Mutexes -> Nat]]
    /\ lost \subseteq Mutexes
    /\ stray \subseteq Mutexes
    /\ dead \subseteq Threads

InCall(t) == th[t].at \notin {"user", "dead"}

\* Has the word, but does not hold the mutex in the eyes of its caller.
Between(t) == th[t].at \in Getting \cup Giving \/ (At(t, "look") /\ ~th[t].old.died)

\* What the place of a thread says of the mutex of its call.
PlaceRight(t) ==
    /\ InCall(t) => th[t].m \in Mutexes
    /\ At(t, "dead") <=> t \in dead
    /\ th[t].at \in DeadGetting \cup {"prepare", "link"} => kind[th[t].m].robust
    /\ th[t].at \in LockOnly => ~kind[th[t].m].robust
    /\ th[t].at \in {"kernel", "clear"} => kind[th[t].m].pi
    /\ th[t].at \in {"unlink", "unlinked", "disown", "release"} => ~kind[th[t].m].pi
    /\ At(t, "again") \/ (At(t, "look") /\ th[t].old.died)
         => ~kind[th[t].m].pi /\ word[th[t].m].tid # t
    /\ At(t, "again") => th[t].old.died

HoldRight(t) ==
    /\ Between(t) => word[th[t].m].tid = t /\ depth[t][th[t].m] = 0
    /\ At(t, "mine") => word[th[t].m].tid = t

PendingRight(t) ==
    InCall(t) /\ th[t].at \notin {"prelease", "ptpp"} /\ kind[th[t].m].robust => pending[t] = th[t].m

DeadRight(t) ==
    /\ th[t].at \in {"dead_prepare", "dead_link", "dead_record"}
         => count[th[t].m] = 1 /\ owner[th[t].m] = Inconsistent
    /\ th[t].at \in {"prepare", "link"} \/ (At(t, "record") /\ kind[th[t].m].robust)
         => owner[th[t].m] # NotRecoverable

\* What t was told of m.  The count of a mutex that counts is the levels of the
\* holder, wherever an unlock may read it.
TellRight(t, m) ==
    /\ t \in dead => depth[t][m] = 0
    /\ depth[t][m] > 0 => word[m].tid = t
    /\ kind[m].type # "recursive" => depth[t][m] <= 1

OwnerRight(t, m) ==
    t \notin dead /\ owner[m] = t
      => word[m].tid = t /\ ~(th[t].m = m /\ th[t].at \in {"release", "prelease"})

CountRight(t, m) ==
    /\ kind[m].type = "recursive" /\ kind[m].robust
    /\ t \notin dead /\ word[m].tid = t /\ owner[m] \in {t, Inconsistent}
    /\ ~(th[t].m = m /\ th[t].at \in Getting \cup Giving \cup {"look"})
    => count[m] = depth[t][m] /\ depth[t][m] > 0

ThreadRight(t) ==
    /\ PlaceRight(t) /\ HoldRight(t) /\ PendingRight(t) /\ DeadRight(t)
    /\ \A m \in Mutexes : TellRight(t, m) /\ OwnerRight(t, m) /\ CountRight(t, m)

\* The bit of a dead owner is set on a free word, except by the kernel (PI).
DiedFree == \A m \in Mutexes : ~kind[m].pi /\ word[m].died => word[m].tid = Nobody

\* Nobody was told of the loss: nobody has the mutex, or one who will be told.
LostRight ==
    \A m \in lost :
        /\ kind[m].robust
        /\ \/ word[m].tid \in dead
           \/ word[m].tid = Nobody /\ word[m].died
           \/ \E t \in Threads : word[m].tid = t /\ th[t].m = m /\ th[t].at \in DeadGetting

-----------------------------------------------------------------------------
\* The n mutexes of a list, in the order of next, between the thread and itself;
\* back is the prev of the first.
Order(t, S, n, f) ==
    /\ n \in Nat /\ f \in [0 .. n + 1 -> S \cup {t}]
    /\ f[0] = t /\ f[n + 1] = t
    /\ \A i \in 1 .. n : f[i] \in S
    /\ \A i, j \in 1 .. n : f[i] = f[j] => i = j
    /\ \A m \in S : \E i \in 1 .. n : f[i] = m

Linked(nx, pv, back, n, f) ==
    /\ \A i \in 0 .. n : nx[f[i]] = f[i + 1]
    /\ pv[f[1]] = back
    /\ \A i \in 1 .. n : pv[f[i + 1]] = f[i]

Chain(t, S, nx, pv, back) ==
    \E n \in Nat : \E f \in [0 .. n + 1 -> S \cup {t}] :
        Order(t, S, n, f) /\ Linked(nx, pv, back, n, f)

\* The mutexes in the list of a thread.
Listed(t, m) == /\ kind[m].robust /\ word[m].tid = t /\ owner[m] # NotRecoverable
                /\ ~(th[t].m = m /\ th[t].at \in Off)
InList(t) == {m \in Mutexes : Listed(t, m)}

Back(t) == IF th[t].at \in {"link", "dead_link"} THEN th[t].m ELSE t

\* While t links its mutex, the mutex points to what follows.
Joining(t) == th[t].at \in {"link", "dead_link"}
                => next[th[t].m] = next[t] /\ prev[th[t].m] = t

ListRightOf(t) ==
    /\ Chain(t, InList(t), next, prev, Back(t))
    /\ Joining(t)
    /\ At(t, "disown") => next[th[t].m] = NULL

\* A dead thread's id is left only in the word of an unrecoverable mutex.
NoDeadId ==
    stray = {} => \A m \in Mutexes :
        kind[m].robust /\ word[m].tid \in dead => owner[m] = NotRecoverable

\* Of a mutex that is not recoverable no list is left.
Delisted == \A m \in Mutexes : owner[m] = NotRecoverable => next[m] = NULL

ListsRight == NoDeadId /\ Delisted /\ \A t \in Threads \ dead : ListRightOf(t)

CoreInv == TypeOK /\ (\A t \in Threads : ThreadRight(t)) /\ DiedFree /\ LostRight
Inv == CoreInv /\ (stray = {} => ListsRight)

-----------------------------------------------------------------------------
(***************************************************************************)
(* Lists.                                                                  *)
(***************************************************************************)
\* The places of a list are all different, but for the thread at its two ends.
LEMMA OrderOnce ==
    ASSUME NEW t, NEW S, NEW n, NEW f, t \notin S, Order(t, S, n, f)
    PROVE  \A i, j \in 0 .. n : f[i] = f[j] => i = j
  BY SMT DEF Order

\* The same without the first place.
LEMMA OrderOnceAfter ==
    ASSUME NEW t, NEW S, NEW n, NEW f, t \notin S, Order(t, S, n, f)
    PROVE  \A i, j \in 1 .. n + 1 : f[i] = f[j] => i = j
  BY SMT DEF Order

\* A chain that is exhibited.
LEMMA ChainMade ==
    ASSUME NEW t, NEW S, NEW nx, NEW pv, NEW back, NEW n, NEW f,
           Order(t, S, n, f), Linked(nx, pv, back, n, f)
    PROVE  Chain(t, S, nx, pv, back)
  BY DEF Order, Chain

\* Who only follows next and prev of the list sees no other change.
LEMMA ChainFrame ==
    ASSUME NEW t, NEW S, NEW nx, NEW pv, NEW nx2, NEW pv2, NEW back,
           Chain(t, S, nx, pv, back),
           \A x \in S \cup {t} : nx2[x] = nx[x] /\ pv2[x] = pv[x]
    PROVE  Chain(t, S, nx2, pv2, back)
<1>0. PICK n \in Nat : \E f \in [0 .. n + 1 -> S \cup {t}] :
             Order(t, S, n, f) /\ Linked(nx, pv, back, n, f)
  BY DEF Chain
<1>1. PICK f \in [0 .. n + 1 -> S \cup {t}] : Order(t, S, n, f) /\ Linked(nx, pv, back, n, f)
  BY <1>0
<1>2. \A i \in 0 .. n + 1 : f[i] \in S \cup {t}
  OBVIOUS
<1>l. /\ \A i \in 0 .. n : nx[f[i]] = f[i + 1]
      /\ pv[f[1]] = back
      /\ \A i \in 1 .. n : pv[f[i + 1]] = f[i]
  BY <1>1 DEF Linked
<1>a. /\ \A i \in 0 .. n : nx2[f[i]] = f[i + 1]
      /\ pv2[f[1]] = back
  BY <1>l, <1>2
<1>b. ASSUME NEW i \in 1 .. n PROVE pv2[f[i + 1]] = f[i]
  <2>1. i + 1 \in 0 .. n + 1
    OBVIOUS
  <2> QED
    BY <2>1, <1>l, <1>2
<1>3. Linked(nx2, pv2, back, n, f)
  BY <1>a, <1>b DEF Linked
<1> QED
  BY <1>1, <1>3, ChainMade

\* next and prev undo each other.
LEMMA ChainFollow ==
    ASSUME NEW t, NEW S, NEW nx, NEW pv, NEW back, t \notin S, Chain(t, S, nx, pv, back)
    PROVE  /\ \A x \in S \cup {t} : nx[x] \in S \cup {t}
           /\ \A x \in S : pv[nx[x]] = x
           /\ pv[nx[t]] = back
           /\ back = t => \A x \in S \cup {t} : pv[x] \in S \cup {t}
<1>0. PICK n \in Nat : \E f \in [0 .. n + 1 -> S \cup {t}] :
             Order(t, S, n, f) /\ Linked(nx, pv, back, n, f)
  BY DEF Chain
<1>1. PICK f \in [0 .. n + 1 -> S \cup {t}] : Order(t, S, n, f) /\ Linked(nx, pv, back, n, f)
  BY <1>0
<1>2. \A i \in 0 .. n + 1 : f[i] \in S \cup {t}
  OBVIOUS
<1>3. \A x \in S : \E i \in 1 .. n : f[i] = x
  BY <1>1 DEF Order
<1>4. f[0] = t /\ f[n + 1] = t
  BY <1>1 DEF Order
<1>5. \A x \in S : nx[x] \in S \cup {t} /\ pv[nx[x]] = x
  BY <1>1, <1>2, <1>3 DEF Linked
<1>6. nx[t] = f[1] /\ f[1] \in S \cup {t} /\ pv[f[1]] = back
  BY <1>1, <1>2, <1>4 DEF Linked
<1>7. ASSUME back = t, NEW x \in S \cup {t} PROVE pv[x] \in S \cup {t}
  <2>1. PICK i \in 1 .. n + 1 : f[i] = x
    BY <1>3, <1>4
  <2>2. CASE i = 1
    BY <2>1, <2>2, <1>6, <1>7
  <2>3. CASE i # 1
    <3>1. i - 1 \in 1 .. n /\ (i - 1) + 1 = i
      BY <2>3
    <3>2. pv[f[(i - 1) + 1]] = f[i - 1]
      BY <3>1, <1>1 DEF Linked
    <3> QED
      BY <3>1, <3>2, <2>1, <1>2
  <2> QED
    BY <2>2, <2>3
<1> QED
  BY <1>5, <1>6, <1>7

\* ENQUEUE_MUTEX, the links of the mutex and the prev of the first.
LEMMA ChainPrepare ==
    ASSUME NEW N, NEW V, NEW t, NEW S, NEW nx \in [N -> V], NEW pv \in [N -> V],
           NEW m \in N, t \in N, S \subseteq N, t \notin S, m \notin S \cup {t},
           Chain(t, S, nx, pv, t)
    PROVE  Chain(t, S, [nx EXCEPT ![m] = nx[t]],
                 [pv EXCEPT ![nx[t]] = m, ![m] = t], m)
<1> DEFINE first == nx[t]
           nx2 == [nx EXCEPT ![m] = first]
           pv2 == [pv EXCEPT ![first] = m, ![m] = t]
<1>0. PICK n \in Nat : \E f \in [0 .. n + 1 -> S \cup {t}] :
             Order(t, S, n, f) /\ Linked(nx, pv, t, n, f)
  BY DEF Chain
<1>1. PICK f \in [0 .. n + 1 -> S \cup {t}] : Order(t, S, n, f) /\ Linked(nx, pv, t, n, f)
  BY <1>0
<1>2. \A i \in 0 .. n + 1 : f[i] \in S \cup {t}
  OBVIOUS
<1>3. first = f[1]
  BY <1>1 DEF Order, Linked
<1>4. \A i, j \in 1 .. n + 1 : f[i] = f[j] => i = j
  BY <1>1, OrderOnceAfter
<1>a. first \in S \cup {t}
  BY <1>2, <1>3
<1> HIDE DEF first
<1>5. \A x \in S \cup {t} : /\ nx2[x] = nx[x]
                            /\ pv2[x] = IF x = first THEN m ELSE pv[x]
  BY <1>a
<1> HIDE DEF nx2, pv2
<1>6. \A i \in 0 .. n : nx2[f[i]] = f[i + 1]
  BY <1>1, <1>2, <1>5 DEF Linked
<1>7. pv2[f[1]] = m
  BY <1>3, <1>5, <1>a
<1>8. ASSUME NEW i \in 1 .. n PROVE pv2[f[i + 1]] = f[i]
  <2>1. f[i + 1] # first
    BY <1>3, <1>4
  <2>2. pv[f[i + 1]] = f[i]
    BY <1>1 DEF Linked
  <2> QED
    BY <2>1, <2>2, <1>2, <1>5
<1>9. Linked(nx2, pv2, m, n, f)
  BY <1>6, <1>7, <1>8 DEF Linked
<1>10. Chain(t, S, nx2, pv2, m)
  BY <1>1, <1>9, ChainMade
<1> QED
  BY <1>10 DEF nx2, pv2, first

\* ENQUEUE_MUTEX, the link that the kernel follows.
LEMMA ChainLink ==
    ASSUME NEW N, NEW V, NEW t, NEW S, NEW nx \in [N -> V], NEW pv,
           NEW m \in N, t \in N, S \subseteq N, t \notin S, m \notin S \cup {t},
           Chain(t, S, nx, pv, m), nx[m] = nx[t], pv[m] = t
    PROVE  Chain(t, S \cup {m}, [nx EXCEPT ![t] = m], pv, t)
<1> DEFINE nx2 == [nx EXCEPT ![t] = m]
<1>0. PICK n \in Nat : \E f \in [0 .. n + 1 -> S \cup {t}] :
             Order(t, S, n, f) /\ Linked(nx, pv, m, n, f)
  BY DEF Chain
<1>1. PICK f \in [0 .. n + 1 -> S \cup {t}] : Order(t, S, n, f) /\ Linked(nx, pv, m, n, f)
  BY <1>0
<1> DEFINE S2 == S \cup {m}
           k == n + 1
           g == [i \in 0 .. k + 1 |-> IF i = 0 THEN t ELSE IF i = 1 THEN m ELSE f[i - 1]]
<1>2. \A i \in 0 .. n + 1 : f[i] \in S \cup {t}
  OBVIOUS
<1>o. /\ f[0] = t /\ f[n + 1] = t
      /\ \A i \in 1 .. n : f[i] \in S
      /\ \A i, j \in 1 .. n : f[i] = f[j] => i = j
      /\ \A x \in S : \E i \in 1 .. n : f[i] = x
  BY <1>1 DEF Order
<1>l. /\ \A i \in 0 .. n : nx[f[i]] = f[i + 1]
      /\ pv[f[1]] = m
      /\ \A i \in 1 .. n : pv[f[i + 1]] = f[i]
  BY <1>1 DEF Linked
<1>3. /\ k \in Nat /\ g \in [0 .. k + 1 -> S2 \cup {t}]
      /\ g[0] = t /\ g[1] = m /\ g[k + 1] = t
      /\ \A i \in 2 .. k + 1 : g[i] = f[i - 1]
  BY <1>2, <1>o
<1> HIDE DEF g
<1>4. \A x \in S : nx2[x] = nx[x]
  OBVIOUS
<1>5. nx2[t] = m /\ nx2[m] = nx[t]
  OBVIOUS
<1> HIDE DEF nx2
<1>6. Order(t, S2, k, g)
  <2>1. \A i \in 1 .. k : g[i] \in S2
    BY <1>3, <1>o
  <2>2. \A i, j \in 1 .. k : g[i] = g[j] => i = j
    BY <1>3, <1>o
  <2>3. ASSUME NEW x \in S2 PROVE \E i \in 1 .. k : g[i] = x
    <3>1. CASE x = m
      BY <3>1, <1>3
    <3>2. CASE x # m
      <4>1. PICK i \in 1 .. n : f[i] = x
        BY <3>2, <1>o
      <4>2. i + 1 \in 2 .. k /\ g[i + 1] = f[(i + 1) - 1] /\ (i + 1) - 1 = i
        BY <1>3
      <4> QED
        BY <4>1, <4>2
    <3> QED
      BY <3>1, <3>2
  <2> QED
    BY <2>1, <2>2, <2>3, <1>3 DEF Order
<1>7. Linked(nx2, pv, t, k, g)
  <2>1. ASSUME NEW i \in 0 .. k PROVE nx2[g[i]] = g[i + 1]
    <3>1. CASE i = 0
      BY <3>1, <1>3, <1>5
    <3>2. CASE i = 1
      <4>1. g[i + 1] = f[1] /\ f[1] = nx[t]
        BY <3>2, <1>3, <1>o, <1>l
      <4> QED
        BY <3>2, <4>1, <1>3, <1>5
    <3>3. CASE i \in 2 .. k
      <4>1. g[i] = f[i - 1] /\ g[i + 1] = f[i] /\ i - 1 \in 1 .. n
        BY <3>3, <1>3
      <4>2. f[i - 1] \in S /\ nx[f[i - 1]] = f[(i - 1) + 1] /\ (i - 1) + 1 = i
        BY <4>1, <1>o, <1>l
      <4> QED
        BY <4>1, <4>2, <1>4
    <3> QED
      BY <3>1, <3>2, <3>3
  <2>2. pv[g[1]] = t
    BY <1>3
  <2>3. ASSUME NEW i \in 1 .. k PROVE pv[g[i + 1]] = g[i]
    <3>1. g[i + 1] = f[i]
      BY <1>3
    <3>2. CASE i = 1
      BY <3>1, <3>2, <1>3, <1>l
    <3>3. CASE i \in 2 .. k
      <4>1. i - 1 \in 1 .. n /\ (i - 1) + 1 = i
        BY <3>3
      <4>2. pv[f[(i - 1) + 1]] = f[i - 1]
        BY <4>1, <1>l
      <4> QED
        BY <3>1, <3>3, <4>1, <4>2, <1>3
    <3> QED
      BY <3>2, <3>3
  <2> QED
    BY <2>1, <2>2, <2>3 DEF Linked
<1>8. Chain(t, S2, nx2, pv, t)
  BY <1>6, <1>7, ChainMade
<1> QED
  BY <1>8 DEF nx2, S2

\* DEQUEUE_MUTEX.
LEMMA ChainUnlink ==
    ASSUME NEW N, NEW V, NEW t, NEW S, NEW nx \in [N -> V], NEW pv \in [N -> V],
           NEW m \in S, t \in N, S \subseteq N, t \notin S, Chain(t, S, nx, pv, t)
    PROVE  Chain(t, S \ {m}, [nx EXCEPT ![pv[m]] = nx[m]], [pv EXCEPT ![nx[m]] = pv[m]], t)
<1> DEFINE after == nx[m]
           before == pv[m]
           nx2 == [nx EXCEPT ![before] = after]
           pv2 == [pv EXCEPT ![after] = before]
           S2 == S \ {m}
<1>0. PICK n \in Nat : \E f \in [0 .. n + 1 -> S \cup {t}] :
             Order(t, S, n, f) /\ Linked(nx, pv, t, n, f)
  BY DEF Chain
<1>1. PICK f \in [0 .. n + 1 -> S \cup {t}] : Order(t, S, n, f) /\ Linked(nx, pv, t, n, f)
  BY <1>0
<1>2. \A i \in 0 .. n + 1 : f[i] \in S \cup {t}
  OBVIOUS
<1>o. /\ f[0] = t /\ f[n + 1] = t
      /\ \A i \in 1 .. n : f[i] \in S
      /\ \A x \in S : \E i \in 1 .. n : f[i] = x
  BY <1>1 DEF Order
<1>l. /\ \A i \in 0 .. n : nx[f[i]] = f[i + 1]
      /\ pv[f[1]] = t
      /\ \A i \in 1 .. n : pv[f[i + 1]] = f[i]
  BY <1>1 DEF Linked
<1>i. /\ \A i, j \in 0 .. n : f[i] = f[j] => i = j
      /\ \A i, j \in 1 .. n + 1 : f[i] = f[j] => i = j
  <2>1. \A i, j \in 0 .. n : f[i] = f[j] => i = j
    BY <1>1, OrderOnce
  <2>2. \A i, j \in 1 .. n + 1 : f[i] = f[j] => i = j
    BY <1>1, OrderOnceAfter
  <2> QED
    BY <2>1, <2>2
<1>3. PICK k \in 1 .. n : f[k] = m
  BY <1>o
<1>4. after = f[k + 1]
  BY <1>3, <1>l
<1>5. before = f[k - 1]
  <2>1. CASE k = 1
    BY <2>1, <1>3, <1>l, <1>o
  <2>2. CASE k # 1
    <3>1. k - 1 \in 1 .. n /\ (k - 1) + 1 = k
      BY <2>2
    <3>2. pv[f[(k - 1) + 1]] = f[k - 1]
      BY <3>1, <1>l
    <3> QED
      BY <3>1, <3>2, <1>3
  <2> QED
    BY <2>1, <2>2
<1>a. before \in S \cup {t} /\ after \in S \cup {t}
  BY <1>2, <1>4, <1>5
<1> HIDE DEF after, before
<1>6. \A x \in S \cup {t} : /\ nx2[x] = IF x = before THEN after ELSE nx[x]
                            /\ pv2[x] = IF x = after THEN before ELSE pv[x]
  BY <1>a
<1> HIDE DEF nx2, pv2
<1> DEFINE l == n - 1
           g == [i \in 0 .. l + 1 |-> IF i < k THEN f[i] ELSE f[i + 1]]
<1>7. /\ l \in Nat
      /\ \A i \in 0 .. k - 1 : g[i] = f[i]
      /\ \A i \in k .. n : g[i] = f[i + 1]
  OBVIOUS
<1>8. \A i \in 1 .. l : g[i] \in S2
  <2> SUFFICES ASSUME NEW i \in 1 .. l PROVE g[i] \in S2
    OBVIOUS
  <2>1. CASE i < k
    BY <2>1, <1>7, <1>o, <1>i, <1>3
  <2>2. CASE ~(i < k)
    <3>1. g[i] = f[i + 1] /\ i + 1 \in 1 .. n /\ i + 1 # k
      BY <2>2, <1>7
    <3> QED
      BY <3>1, <1>o, <1>i, <1>3
  <2> QED
    BY <2>1, <2>2
<1>9. g[0] = t /\ g[l + 1] = t
  BY <1>7, <1>o
<1>10. g \in [0 .. l + 1 -> S2 \cup {t}]
  <2> HIDE DEF g
  <2>1. \A i \in 0 .. l + 1 : i = 0 \/ i = l + 1 \/ i \in 1 .. l
    BY <1>7
  <2>2. \A i \in 0 .. l + 1 : g[i] \in S2 \cup {t}
    BY <2>1, <1>8, <1>9
  <2>3. g = [i \in 0 .. l + 1 |-> g[i]]
    BY DEF g
  <2> QED
    BY <2>2, <2>3
<1> HIDE DEF g
<1>11. \A i, j \in 1 .. l : g[i] = g[j] => i = j
  BY <1>7, <1>i
<1>12. ASSUME NEW x \in S2 PROVE \E i \in 1 .. l : g[i] = x
  <2>1. PICK i \in 1 .. n : f[i] = x
    BY <1>o
  <2>2. i # k
    BY <2>1, <1>3
  <2>3. CASE i < k
    BY <2>1, <2>3, <1>7
  <2>4. CASE i > k
    <3>1. i - 1 \in 1 .. l /\ i - 1 \in k .. n /\ (i - 1) + 1 = i
      BY <2>4
    <3>2. g[i - 1] = f[(i - 1) + 1]
      BY <3>1, <1>7
    <3> QED
      BY <3>1, <3>2, <2>1
  <2> QED
    BY <2>2, <2>3, <2>4
<1>13. Order(t, S2, l, g)
  BY <1>7, <1>8, <1>9, <1>10, <1>11, <1>12 DEF Order
<1>14. ASSUME NEW i \in 0 .. l PROVE nx2[g[i]] = g[i + 1]
  <2>1. CASE i < k - 1
    <3>1. g[i] = f[i] /\ g[i + 1] = f[i + 1] /\ nx[f[i]] = f[i + 1]
      BY <2>1, <1>7, <1>l
    <3>2. f[i] # before /\ f[i] \in S \cup {t}
      BY <2>1, <1>5, <1>i, <1>2
    <3> QED
      BY <3>1, <3>2, <1>6
  <2>2. CASE i = k - 1
    <3>1. g[i] = before /\ g[i + 1] = after
      BY <2>2, <1>4, <1>5, <1>7
    <3> QED
      BY <3>1, <1>6, <1>a
  <2>3. CASE i > k - 1
    <3>1. g[i] = f[i + 1] /\ g[i + 1] = f[(i + 1) + 1] /\ i + 1 \in 1 .. n
      BY <2>3, <1>7
    <3>2. nx[f[i + 1]] = f[(i + 1) + 1]
      BY <3>1, <1>l
    <3>3. f[i + 1] # before /\ f[i + 1] \in S \cup {t}
      BY <2>3, <3>1, <1>5, <1>i, <1>2
    <3> QED
      BY <3>1, <3>2, <3>3, <1>6
  <2> QED
    BY <2>1, <2>2, <2>3
<1>15. pv2[g[1]] = t
  <2>1. CASE k = 1
    <3>1. g[1] = after /\ before = t
      BY <2>1, <1>4, <1>5, <1>7, <1>o
    <3> QED
      BY <3>1, <1>6, <1>a
  <2>2. CASE k # 1
    <3>1. g[1] = f[1] /\ f[1] # after /\ f[1] \in S \cup {t}
      BY <2>2, <1>4, <1>7, <1>i, <1>2
    <3> QED
      BY <3>1, <1>6, <1>l
  <2> QED
    BY <2>1, <2>2
<1>16. ASSUME NEW i \in 1 .. l PROVE pv2[g[i + 1]] = g[i]
  <2>1. CASE i < k - 1
    <3>1. g[i] = f[i] /\ g[i + 1] = f[i + 1] /\ pv[f[i + 1]] = f[i]
      BY <2>1, <1>7, <1>l
    <3>2. f[i + 1] # after /\ f[i + 1] \in S \cup {t}
      BY <2>1, <1>4, <1>i, <1>2
    <3> QED
      BY <3>1, <3>2, <1>6
  <2>2. CASE i = k - 1
    <3>1. g[i] = before /\ g[i + 1] = after
      BY <2>2, <1>4, <1>5, <1>7
    <3> QED
      BY <3>1, <1>6, <1>a
  <2>3. CASE i > k - 1
    <3>1. g[i] = f[i + 1] /\ g[i + 1] = f[(i + 1) + 1] /\ i + 1 \in 1 .. n
      BY <2>3, <1>7
    <3>2. pv[f[(i + 1) + 1]] = f[i + 1]
      BY <3>1, <1>l
    <3>3. f[(i + 1) + 1] # after /\ f[(i + 1) + 1] \in S \cup {t}
      BY <2>3, <3>1, <1>4, <1>i, <1>2
    <3> QED
      BY <3>1, <3>2, <3>3, <1>6
  <2> QED
    BY <2>1, <2>2, <2>3
<1>17. Linked(nx2, pv2, t, l, g)
  BY <1>14, <1>15, <1>16 DEF Linked
<1>18. Chain(t, S2, nx2, pv2, t)
  BY <1>13, <1>17, ChainMade
<1> QED
  BY <1>18 DEF nx2, pv2, S2, before, after

\* A list is not longer than its mutexes are many.
LEMMA OrderLength ==
    ASSUME NEW t, NEW S, NEW n, NEW f, NEW T, Order(t, S, n, f), S \subseteq T,
           IsFiniteSet(T)
    PROVE  n \in Nat /\ n <= Cardinality(T) /\ Cardinality(T) \in Nat
<1> DEFINE g == [i \in 1 .. n |-> f[i]]
<1>1. n \in Nat
  BY DEF Order
<1>2. g \in Injection(1 .. n, T)
  BY DEF Order, Injection, IsInjective
<1>3. Cardinality(1 .. n) <= Cardinality(T)
  BY <1>2, FS_Injection
<1>4. Cardinality(1 .. n) = n
  BY <1>1, FS_Interval
<1> QED
  BY <1>1, <1>3, <1>4, FS_CardinalityType

-----------------------------------------------------------------------------
(***************************************************************************)
(* What the kernel finds.                                                  *)
(***************************************************************************)
Visit(g, i, t) == IF i = 0 THEN next[t] ELSE IF g[i - 1] \in Mutexes THEN next[g[i - 1]] ELSE t
IsVisit(g, t) == g = [i \in 0 .. Cardinality(Mutexes) |-> Visit(g, i, t)]
Visited(t) == CHOOSE g : IsVisit(g, t)

\* The walk is made of the values of a recursive function.
LEMMA WalkIsVisited ==
    ASSUME NEW t
    PROVE  Walk(t) = {Visited(t)[i] : i \in DOMAIN Visited(t)} \cap Mutexes
  BY DEF Walk, Visited, IsVisit, Visit

\* Such a function is determined by the list.
LEMMA VisitOnce ==
    ASSUME NEW t, NEW g, NEW h, IsVisit(g, t), IsVisit(h, t)
    PROVE  \A i \in 0 .. Cardinality(Mutexes) : g[i] = h[i]
<1> DEFINE B == {i \in 0 .. Cardinality(Mutexes) : g[i] # h[i]}
<1>1. \A i \in 0 .. Cardinality(Mutexes) : g[i] = Visit(g, i, t) /\ h[i] = Visit(h, i, t)
  BY DEF IsVisit
<1>2. SUFFICES ASSUME B # {} PROVE FALSE
  OBVIOUS
<1>3. PICK i \in B : \A j \in B : i <= j
  <2>1. B \subseteq Nat
    OBVIOUS
  <2> HIDE DEF B
  <2> QED
    BY <1>2, <2>1, LeastNumber
<1>4. i \in 0 .. Cardinality(Mutexes) /\ g[i] # h[i]
  BY <1>3
<1>5. i # 0
  BY <1>1, <1>4 DEF Visit
<1>c. Cardinality(Mutexes) \in Nat
  BY MutexesAssumption, FS_CardinalityType
<1>6. i - 1 \in 0 .. Cardinality(Mutexes) /\ ~(i <= i - 1)
  BY <1>4, <1>5, <1>c
<1>7. g[i - 1] = h[i - 1]
  BY <1>3, <1>6
<1> QED
  BY <1>1, <1>4, <1>5, <1>7 DEF Visit

\* From the head of a list the kernel finds all of it, and nothing else.
LEMMA WalkFinds ==
    ASSUME NEW t, NEW S, NEW pv, NEW back, Chain(t, S, next, pv, back),
           S \subseteq Mutexes, t \notin Mutexes
    PROVE  Walk(t) = S
<1>0. PICK n \in Nat : \E f \in [0 .. n + 1 -> S \cup {t}] :
             Order(t, S, n, f) /\ Linked(next, pv, back, n, f)
  BY DEF Chain
<1>1. PICK f \in [0 .. n + 1 -> S \cup {t}] : Order(t, S, n, f) /\ Linked(next, pv, back, n, f)
  BY <1>0
<1>2. \A i \in 0 .. n + 1 : f[i] \in S \cup {t}
  OBVIOUS
<1>o. /\ f[0] = t /\ f[n + 1] = t
      /\ \A i \in 1 .. n : f[i] \in S
      /\ \A x \in S : \E i \in 1 .. n : f[i] = x
  BY <1>1 DEF Order
<1>l. \A i \in 0 .. n : next[f[i]] = f[i + 1]
  BY <1>1 DEF Linked
<1> DEFINE c == Cardinality(Mutexes)
           h == [i \in 0 .. c |-> IF i <= n THEN f[i + 1] ELSE t]
<1>3. c \in Nat /\ n <= c
  BY <1>1, OrderLength, MutexesAssumption
<1> HIDE DEF c
<1>6. \A i \in 0 .. c : /\ i <= n => h[i] = f[i + 1]
                        /\ ~(i <= n) => h[i] = t
  OBVIOUS
<1>5. h = [i \in 0 .. c |-> h[i]]
  OBVIOUS
<1> HIDE DEF h
<1>4. ASSUME NEW i \in 0 .. c PROVE h[i] = Visit(h, i, t)
  <2>1. CASE i = 0
    BY <2>1, <1>o, <1>l, <1>3, <1>6 DEF Visit
  <2>2. CASE i # 0 /\ i <= n
    <3>1. i - 1 \in 0 .. c /\ i - 1 <= n /\ (i - 1) + 1 = i
      BY <2>2, <1>3
    <3>2. h[i - 1] = f[i] /\ h[i] = f[i + 1]
      BY <2>2, <3>1, <1>6
    <3>3. f[i] \in Mutexes /\ next[f[i]] = f[i + 1]
      BY <2>2, <1>o, <1>l
    <3> QED
      BY <2>2, <3>2, <3>3 DEF Visit
  <2>3. CASE i # 0 /\ ~(i <= n)
    <3>1. i - 1 \in 0 .. c /\ (i - 1 <= n => (i - 1) + 1 = n + 1)
      BY <2>3, <1>3
    <3>2. h[i - 1] = t
      BY <3>1, <1>6, <1>o
    <3>3. h[i] = t
      BY <2>3, <1>6
    <3> QED
      BY <2>3, <3>2, <3>3 DEF Visit
  <2> QED
    BY <2>1, <2>2, <2>3
<1>12. IsVisit(h, t)
  BY <1>4, <1>5 DEF IsVisit, c
<1>7. IsVisit(Visited(t), t)
  BY <1>12 DEF Visited
<1>8. \A i \in 0 .. c : Visited(t)[i] = h[i]
  BY <1>12, <1>7, VisitOnce DEF c
<1>9. DOMAIN Visited(t) = 0 .. c
  BY <1>7 DEF IsVisit, c
<1>10. Walk(t) = {h[i] : i \in 0 .. c} \cap Mutexes
  BY <1>8, <1>9, WalkIsVisited
<1>11. ASSUME NEW x \in S PROVE \E i \in 0 .. c : h[i] = x
  <2>1. PICK i \in 1 .. n : f[i] = x
    BY <1>o
  <2>2. i - 1 \in 0 .. c /\ i - 1 <= n /\ (i - 1) + 1 = i
    BY <1>3
  <2> QED
    BY <2>1, <2>2, <1>6
<1>13. ASSUME NEW i \in 0 .. c, h[i] \in Mutexes PROVE h[i] \in S
  <2>1. i <= n
    BY <1>6, <1>13
  <2>2. h[i] = f[i + 1] /\ i + 1 \in 0 .. n + 1
    BY <1>6, <2>1
  <2> QED
    BY <2>2, <1>2, <1>13
<1> QED
  BY <1>10, <1>11, <1>13

-----------------------------------------------------------------------------
(***************************************************************************)
(* The lock words.                                                         *)
(***************************************************************************)
\* A step of another thread, as u sees it.
Calm(u) ==
    /\ kind' = kind /\ th'[u] = th[u] /\ pending'[u] = pending[u] /\ depth'[u] = depth[u]
    /\ u \in dead' <=> u \in dead
    /\ \A x \in Mutexes :
         /\ word'[x].tid = u => word[x].tid = u
         /\ word[x].tid = u /\ u \notin dead
              => /\ word'[x].tid = u /\ owner'[x] = owner[x]
                 /\ count'[x] = count[x] \/ owner[x] = NotRecoverable
         /\ owner'[x] = u => owner[x] = u

Others(t) == \A u \in Threads \ {t} : Calm(u)

\* A step that follows no list and changes none: the list of t is as before, and t
\* changes the owner of a mutex only while it has its word.
Quiet(t) ==
    /\ next' = next /\ prev' = prev /\ dead' = dead /\ t \notin dead
    /\ stray \subseteq stray'
    /\ th[t].at \notin {"link", "dead_link"}
    /\ th'[t].at \notin {"link", "dead_link", "disown"}
    /\ stray' = {} => \A x \in Mutexes : Listed(t, x)' <=> Listed(t, x)
    /\ \A x \in Mutexes :
         owner'[x] # owner[x] =>
           /\ word[x].tid = t
           /\ owner'[x] = NotRecoverable => At(t, "disown") /\ th[t].m = x

\* The cookies are no thread's, and a mutex is not a thread.
LEMMA Names ==
    /\ \A t \in Threads : /\ t # Nobody /\ t # NULL /\ t # Inconsistent /\ t # NotRecoverable
                          /\ t \notin Mutexes
    /\ Nobody # Inconsistent /\ Nobody # NotRecoverable /\ Inconsistent # NotRecoverable
    /\ NULL \notin Mutexes
<1>1. Inconsistent # NotRecoverable
  BY DEF Inconsistent, NotRecoverable
<1> QED
  BY <1>1, NamesAssumption

\* What a thread relies on is not disturbed by steps it does not see.
LEMMA CalmRight ==
    ASSUME TypeOK, NEW u \in Threads, ThreadRight(u), Calm(u)
    PROVE  ThreadRight(u)'
<1>1. /\ kind' = kind /\ th'[u] = th[u] /\ pending'[u] = pending[u] /\ depth'[u] = depth[u]
      /\ u \in dead' <=> u \in dead
  BY DEF Calm
<1>2. \A x \in Mutexes :
         /\ word'[x].tid = u => word[x].tid = u
         /\ word[x].tid = u /\ u \notin dead
              => /\ word'[x].tid = u /\ owner'[x] = owner[x]
                 /\ count'[x] = count[x] \/ owner[x] = NotRecoverable
         /\ owner'[x] = u => owner[x] = u
  BY DEF Calm
<1>3. InCall(u) => th[u].m \in Mutexes
  BY DEF ThreadRight, PlaceRight
<1>d. u \in dead <=> th[u].at = "dead"
  BY DEF ThreadRight, PlaceRight, At
<1>4. /\ Between(u) => word[th[u].m].tid = u /\ depth[u][th[u].m] = 0
      /\ At(u, "mine") => word[th[u].m].tid = u
  BY DEF ThreadRight, HoldRight
<1>5. PlaceRight(u)'
  BY <1>1, <1>2, <1>3 DEF ThreadRight, PlaceRight, InCall, At, Getting, Giving, DeadGetting,
     LockOnly
<1>6. HoldRight(u)'
  BY <1>d, <1>1, <1>2, <1>3, <1>4 DEF HoldRight, Between, InCall, At, Getting, Giving,
     DeadGetting
<1>7. PendingRight(u)'
  BY <1>1 DEF ThreadRight, PendingRight, InCall, At
<1>8. DeadRight(u)'
  <2>1. th[u].at \in {"dead_prepare", "dead_link", "dead_record", "prepare", "link", "record"}
          => InCall(u) /\ Between(u) /\ u \notin dead
    BY <1>d DEF InCall, Between, Getting, DeadGetting
  <2>2. th[u].at \in {"dead_prepare", "dead_link", "dead_record"}
          => count'[th[u].m] = 1 /\ owner'[th[u].m] = Inconsistent
    BY <2>1, <1>2, <1>3, <1>4, Names DEF ThreadRight, DeadRight
  <2>3. th[u].at \in {"prepare", "link"} \/ (At(u, "record") /\ kind[th[u].m].robust)
          => owner'[th[u].m] # NotRecoverable
    BY <2>1, <1>2, <1>3, <1>4, Names DEF ThreadRight, DeadRight, At
  <2> QED
    BY <2>2, <2>3, <1>1 DEF DeadRight, At
<1>9. ASSUME NEW x \in Mutexes
      PROVE  (TellRight(u, x) /\ OwnerRight(u, x) /\ CountRight(u, x))'
  <2>1. TellRight(u, x) /\ OwnerRight(u, x) /\ CountRight(u, x)
    BY DEF ThreadRight
  <2>2. TellRight(u, x)'
    BY <2>1, <1>1, <1>2 DEF TellRight
  <2>3. OwnerRight(u, x)'
    BY <2>1, <1>1, <1>2 DEF OwnerRight
  <2>4. CountRight(u, x)'
    BY <2>1, <1>1, <1>2, Names DEF CountRight
  <2> QED
    BY <2>2, <2>3, <2>4
<1> QED
  BY <1>5, <1>6, <1>7, <1>8, <1>9 DEF ThreadRight

\* It is enough to look at the thread that takes the step.
LEMMA OneSteps ==
    ASSUME CoreInv, NEW t \in Threads, TypeOK', ThreadRight(t)',
           Others(t), DiedFree', LostRight'
    PROVE  CoreInv'
<1>1. ASSUME NEW u \in Threads PROVE ThreadRight(u)'
  <2>1. CASE u = t
    BY <2>1
  <2>2. CASE u # t
    <3>1. TypeOK /\ ThreadRight(u) /\ Calm(u)
      BY <2>2 DEF CoreInv, Others
    <3> QED
      BY <3>1, CalmRight
  <2> QED
    BY <2>1, <2>2
<1> QED
  BY <1>1 DEF CoreInv

\* A loss stays recorded while the mutex is as it was, and the thread that got it
\* is on the way to tell.
LEMMA LossKept ==
    ASSUME LostRight, NEW t \in Threads, lost' \subseteq lost, kind' = kind, dead' = dead,
           \A u \in Threads \ {t} : th'[u] = th[u],
           \A x \in lost' : /\ word'[x].tid = word[x].tid
                            /\ word[x].tid = Nobody /\ word[x].died => word'[x].died
                            /\ th[t].m = x /\ th[t].at \in DeadGetting
                                 => th'[t].m = x /\ th'[t].at \in DeadGetting
    PROVE  LostRight'
<1> SUFFICES ASSUME NEW x \in lost'
             PROVE  /\ kind[x].robust
                    /\ \/ word'[x].tid \in dead
                       \/ word'[x].tid = Nobody /\ word'[x].died
                       \/ \E v \in Threads :
                            word'[x].tid = v /\ th'[v].m = x /\ th'[v].at \in DeadGetting
  BY DEF LostRight
<1>1. /\ kind[x].robust
      /\ \/ word[x].tid \in dead
         \/ word[x].tid = Nobody /\ word[x].died
         \/ \E v \in Threads : word[x].tid = v /\ th[v].m = x /\ th[v].at \in DeadGetting
  BY DEF LostRight
<1>2. ASSUME NEW v \in Threads, word[x].tid = v, th[v].m = x, th[v].at \in DeadGetting
      PROVE  word'[x].tid = v /\ th'[v].m = x /\ th'[v].at \in DeadGetting
  BY <1>2
<1> QED
  BY <1>1, <1>2

-----------------------------------------------------------------------------
(***************************************************************************)
(* What a step does to the state of a thread and to a word.                *)
(***************************************************************************)
\* The threads after a step of one of them.
OthersStay(t) == \A u \in Threads \ {t} : th'[u] = th[u]
Place(t, at, m, old, new) == th'[t].at = at /\ th'[t].m = m /\ th'[t].old = old /\ th'[t].new = new

\* The record of a thread.
LEMMA StateIs ==
    ASSUME TypeOK, NEW t \in Threads
    PROVE  /\ th[t] \in ThreadState /\ th[t].at \in Places /\ th[t].m \in Mutexes \cup {NULL}
           /\ th[t].old \in Word /\ th[t].new \in {Nobody, NotRecoverable}
  BY DEF TypeOK, ThreadState

\* The word of a mutex nobody has.
LEMMA FreeIs == Free \in Word /\ Free.tid = Nobody /\ ~Free.died
  BY DEF Free, Word

\* A new state of one thread.
LEMMA MoveIs ==
    ASSUME TypeOK, NEW t \in Threads, NEW s \in ThreadState, th' = [th EXCEPT ![t] = s]
    PROVE  /\ th' \in [Threads -> ThreadState] /\ OthersStay(t)
           /\ Place(t, s.at, s.m, s.old, s.new)
  BY DEF TypeOK, OthersStay, Place

\* A new place.
LEMMA GotoIs ==
    ASSUME TypeOK, NEW t \in Threads, NEW l \in Places, Goto(t, l)
    PROVE  /\ th' \in [Threads -> ThreadState] /\ OthersStay(t)
           /\ Place(t, l, th[t].m, th[t].old, th[t].new)
<1> DEFINE s == [th[t] EXCEPT !.at = l]
<1>1. /\ s \in ThreadState
      /\ s.at = l /\ s.m = th[t].m /\ s.old = th[t].old /\ s.new = th[t].new
  BY StateIs DEF ThreadState
<1>2. th' = [th EXCEPT ![t] = s]
  BY DEF Goto
<1> HIDE DEF s
<1>3. th' \in [Threads -> ThreadState] /\ OthersStay(t) /\ Place(t, s.at, s.m, s.old, s.new)
  BY <1>1, <1>2, MoveIs
<1> QED
  BY <1>1, <1>3

\* A new place and oldval.
LEMMA SawIs ==
    ASSUME TypeOK, NEW t \in Threads, NEW l \in Places, NEW o \in Word,
           th' = [th EXCEPT ![t].at = l, ![t].old = o]
    PROVE  /\ th' \in [Threads -> ThreadState] /\ OthersStay(t)
           /\ Place(t, l, th[t].m, o, th[t].new)
<1> DEFINE s == [th[t] EXCEPT !.at = l, !.old = o]
<1>1. /\ s \in ThreadState
      /\ s.at = l /\ s.m = th[t].m /\ s.old = o /\ s.new = th[t].new
  BY StateIs DEF ThreadState
<1>2. th' = [th EXCEPT ![t] = s]
  BY DEF TypeOK
<1> HIDE DEF s
<1>3. th' \in [Threads -> ThreadState] /\ OthersStay(t) /\ Place(t, s.at, s.m, s.old, s.new)
  BY <1>1, <1>2, MoveIs
<1> QED
  BY <1>1, <1>3

\* A call returns.
LEMMA ReturnIs ==
    ASSUME TypeOK, NEW t \in Threads, Return(t)
    PROVE  /\ th' \in [Threads -> ThreadState] /\ OthersStay(t)
           /\ Place(t, "user", NULL, Free, Nobody)
<1>1. /\ AtUser \in ThreadState
      /\ AtUser.at = "user" /\ AtUser.m = NULL /\ AtUser.old = Free /\ AtUser.new = Nobody
  BY FreeIs DEF AtUser, ThreadState, Places
<1>2. th' = [th EXCEPT ![t] = AtUser]
  BY DEF Return
<1>3. Place(t, AtUser.at, AtUser.m, AtUser.old, AtUser.new)
      /\ th' \in [Threads -> ThreadState] /\ OthersStay(t)
  BY <1>1, <1>2, MoveIs
<1> QED
  BY <1>1, <1>3

\* A call begins.
LEMMA EnterIs ==
    ASSUME TypeOK, NEW t \in Threads, NEW m \in Mutexes, NEW l \in Places, Enter(t, m, l)
    PROVE  /\ th' \in [Threads -> ThreadState] /\ OthersStay(t)
           /\ Place(t, l, m, Free, Nobody)
<1> DEFINE s == [AtUser EXCEPT !.at = l, !.m = m]
<1>1. /\ s \in ThreadState
      /\ s.at = l /\ s.m = m /\ s.old = Free /\ s.new = Nobody
  BY FreeIs DEF AtUser, ThreadState, Places
<1>2. th' = [th EXCEPT ![t] = s]
  BY DEF Enter
<1> HIDE DEF s
<1>3. th' \in [Threads -> ThreadState] /\ OthersStay(t) /\ Place(t, s.at, s.m, s.old, s.new)
  BY <1>1, <1>2, MoveIs
<1> QED
  BY <1>1, <1>3

\* The word and the other fields of one mutex after a step.
OnlyDepth(t) == \A u \in Threads \ {t} : depth'[u] = depth[u]
OnlyWord(m) == \A x \in Mutexes \ {m} : word'[x] = word[x]

\* A new word of one mutex.
LEMMA WordIs ==
    ASSUME TypeOK, NEW m \in Mutexes, NEW w \in Word, word' = [word EXCEPT ![m] = w]
    PROVE  word' \in [Mutexes -> Word] /\ OnlyWord(m) /\ word'[m] = w
  BY DEF TypeOK, OnlyWord

\* A new id in it.
LEMMA TakenIs ==
    ASSUME TypeOK, NEW m \in Mutexes, NEW t \in Threads \cup {Nobody},
           word' = [word EXCEPT ![m].tid = t]
    PROVE  /\ word' \in [Mutexes -> Word] /\ OnlyWord(m)
           /\ word'[m] = [word[m] EXCEPT !.tid = t]
           /\ word'[m].tid = t /\ word'[m].died = word[m].died
<1> DEFINE w == [word[m] EXCEPT !.tid = t]
<1>1. w \in Word /\ w.tid = t /\ w.died = word[m].died
  BY DEF TypeOK, Word
<1>2. word' = [word EXCEPT ![m] = w]
  OBVIOUS
<1>3. word' \in [Mutexes -> Word] /\ OnlyWord(m) /\ word'[m] = w
  BY <1>1, <1>2, WordIs
<1> QED
  BY <1>1, <1>3

\* What is known of a thread in a call.
LEMMA InCallIs ==
    ASSUME CoreInv, NEW t \in Threads, InCall(t)
    PROVE  /\ th[t].m \in Mutexes /\ t \notin dead /\ th[t].m # NULL
           /\ PlaceRight(t) /\ HoldRight(t) /\ PendingRight(t) /\ DeadRight(t)
           /\ \A x \in Mutexes : TellRight(t, x) /\ OwnerRight(t, x) /\ CountRight(t, x)
<1>1. /\ PlaceRight(t) /\ HoldRight(t) /\ PendingRight(t) /\ DeadRight(t)
      /\ \A x \in Mutexes : TellRight(t, x) /\ OwnerRight(t, x) /\ CountRight(t, x)
  BY DEF CoreInv, ThreadRight
<1>2. th[t].m \in Mutexes /\ t \notin dead
  BY <1>1 DEF PlaceRight, InCall, At
<1> QED
  BY <1>1, <1>2, Names

\* Where the look at the word leads.
LEMMA AfterIs ==
    ASSUME NEW t, NEW m, NEW o
    PROVE  /\ After(t, m, o) \in {"again", "mine", "cas"}
           /\ After(t, m, o) = "again" => o.died /\ ~kind[m].pi
           /\ After(t, m, o) = "mine" => o.tid = t
  BY DEF After

\* The word of one mutex changes: if the death of its holder is not told yet, t
\* has it now and is on the way to tell.
LEMMA LossTaken ==
    ASSUME TypeOK, LostRight, NEW t \in Threads, lost' = lost, kind' = kind, dead' = dead,
           OthersStay(t), OnlyWord(th[t].m),
           th[t].m \in lost => word'[th[t].m].tid = t /\ th'[t].m = th[t].m /\ th'[t].at \in DeadGetting
    PROVE  LostRight'
<1> SUFFICES ASSUME NEW x \in lost
             PROVE  /\ kind[x].robust
                    /\ \/ word'[x].tid \in dead
                       \/ word'[x].tid = Nobody /\ word'[x].died
                       \/ \E v \in Threads :
                            word'[x].tid = v /\ th'[v].m = x /\ th'[v].at \in DeadGetting
  BY DEF LostRight
<1>1. /\ kind[x].robust
      /\ \/ word[x].tid \in dead
         \/ word[x].tid = Nobody /\ word[x].died
         \/ \E v \in Threads : word[x].tid = v /\ th[v].m = x /\ th[v].at \in DeadGetting
  BY DEF LostRight
<1>2. CASE x = th[t].m
  BY <1>1, <1>2
<1>3. CASE x # th[t].m
  <2>1. word'[x] = word[x]
    BY <1>3 DEF OnlyWord, TypeOK
  <2>2. ASSUME NEW v \in Threads, th[v].m = x PROVE th'[v] = th[v]
    BY <2>2, <1>3 DEF OthersStay
  <2> QED
    BY <2>1, <2>2, <1>1
<1> QED
  BY <1>2, <1>3

\* Counting down, in the width of __count.
LEMMA DownIs ==
    ASSUME NEW c \in 0 .. CountMod - 1
    PROVE  /\ Down(c) \in 0 .. CountMod - 1
           /\ c > 0 => Down(c) = c - 1
           /\ c = 0 => Down(c) = CountMod - 1
<1>1. CountMod \in Nat /\ CountMod > 1
  BY BoundsAssumption
<1>2. CASE c = 0
  BY <1>1, <1>2 DEF Down
<1>3. CASE c > 0
  <2>1. c - 1 \in 0 .. CountMod - 1 /\ c + CountMod - 1 = (c - 1) + CountMod
    BY <1>1, <1>3
  <2>2. ((c - 1) + CountMod) % CountMod = c - 1
    BY <1>1, <2>1
  <2> QED
    BY <2>1, <2>2, <1>3 DEF Down
<1> QED
  BY <1>2, <1>3

\* One level less.
LEMMA LessIs ==
    ASSUME NEW n \in Nat
    PROVE  Less(n) \in Nat /\ (n <= 1 => Less(n) = 0) /\ (n > 0 => Less(n) = n - 1) /\ Less(n) <= n
  BY DEF Less

coreView == <<kind, word, owner, count, next, prev, pending, th, depth, lost, stray, dead>>

\* A step that changes nothing of all this.
LEMMA StillCore == CoreInv /\ UNCHANGED coreView => CoreInv'
<1> SUFFICES ASSUME CoreInv, UNCHANGED coreView PROVE CoreInv'
  OBVIOUS
<1>1. TypeOK'
  BY DEF CoreInv, coreView, TypeOK
<1>2. DiedFree'
  BY DEF CoreInv, coreView, DiedFree
<1>3. LostRight'
  BY DEF CoreInv, coreView, LostRight
<1>4. ASSUME NEW t \in Threads PROVE ThreadRight(t)'
  <2>1. Calm(t)
    BY DEF Calm, coreView
  <2> QED
    BY <2>1, CalmRight DEF CoreInv
<1> QED
  BY <1>1, <1>2, <1>3, <1>4 DEF CoreInv

-----------------------------------------------------------------------------
(***************************************************************************)
(* Each action leaves the words right.  One lemma for each of its cases,   *)
(* all along the same lines: what is known where the thread is (1, 2 and   *)
(* the steps after them), its new state (3), what stays the same and what  *)
(* is new; then the types, the other threads, the parts of ThreadRight,    *)
(* and the two statements about all mutexes.                               *)
(***************************************************************************)
\* oldval is read.
LEMMA TryReadCore ==
    ASSUME CoreInv, NEW t \in Threads, TryRead(t)
    PROVE  CoreInv' /\ Others(t) /\ Quiet(t)
<1>1. TypeOK /\ th[t].at = "read" /\ InCall(t)
  BY DEF CoreInv, TryRead, At, InCall
<1>2. /\ th[t].m \in Mutexes /\ t \notin dead /\ th[t].m # NULL
      /\ PlaceRight(t) /\ HoldRight(t) /\ PendingRight(t) /\ DeadRight(t)
      /\ \A x \in Mutexes : TellRight(t, x) /\ OwnerRight(t, x) /\ CountRight(t, x)
  BY <1>1, InCallIs
<1>case. /\ word[th[t].m] \in Word
         /\ After(t, th[t].m, word[th[t].m]) \in {"again", "mine", "cas"}
         /\ After(t, th[t].m, word[th[t].m]) = "again" => word[th[t].m].died /\ ~kind[th[t].m].pi
         /\ After(t, th[t].m, word[th[t].m]) = "mine" => word[th[t].m].tid = t
         /\ word[th[t].m].died /\ ~kind[th[t].m].pi => word[th[t].m].tid = Nobody
  BY <1>1, <1>2, AfterIs DEF TypeOK, CoreInv, DiedFree
<1>3. /\ th' \in [Threads -> ThreadState] /\ OthersStay(t)
      /\ Place(t, After(t, th[t].m, word[th[t].m]), th[t].m, word[th[t].m], th[t].new)
  BY <1>1, <1>2, <1>case, SawIs DEF TryRead, See, Places, Getting, Giving, DeadGetting,
     LockOnly
<1>same. /\ kind' = kind /\ word' = word /\ owner' = owner /\ count' = count
         /\ nusers' = nusers /\ next' = next /\ prev' = prev /\ pending' = pending
         /\ depth' = depth /\ lost' = lost /\ stray' = stray /\ dead' = dead
  BY DEF TryRead, fields, links, ghosts
<1>types. TypeOK'
  BY <1>1, <1>3, <1>same, <1>case DEF TypeOK
<1>others. ASSUME NEW u \in Threads \ {t} PROVE Calm(u)
  <2>1. th'[u] = th[u] /\ dead' = dead
    BY <1>3, <1>same DEF OthersStay
  <2>2. pending'[u] = pending[u]
    BY <1>same
  <2>3. depth'[u] = depth[u]
    BY <1>same
  <2>4. ASSUME NEW x \in Mutexes
        PROVE  /\ word'[x].tid = u => word[x].tid = u
               /\ word[x].tid = u /\ u \notin dead
                    => /\ word'[x].tid = u /\ owner'[x] = owner[x]
                       /\ count'[x] = count[x] \/ owner[x] = NotRecoverable
               /\ owner'[x] = u => owner[x] = u
    BY <1>3, <1>same, <1>case, <1>2, Names DEF OnlyWord
  <2> QED
    BY <2>1, <2>2, <2>3, <2>4, <1>same DEF Calm
<1>place. PlaceRight(t)'
  BY <1>1, <1>2, <1>3, <1>same, <1>case, Names DEF PlaceRight, Place, InCall, At, Getting,
     Giving, DeadGetting, LockOnly
<1>hold. HoldRight(t)'
  BY <1>1, <1>2, <1>3, <1>same, <1>case, Names DEF HoldRight, Place, Between, At, OnlyWord,
     Getting, Giving, DeadGetting
<1>pending. PendingRight(t)'
  BY <1>1, <1>2, <1>3, <1>same, <1>case DEF PendingRight, Place, InCall, At, PlaceRight,
     LockOnly
<1>dead. DeadRight(t)'
  BY <1>1, <1>2, <1>3, <1>same, <1>case, Names DEF DeadRight, Place, At, InCall, PlaceRight,
     LockOnly
<1>mutexes. ASSUME NEW x \in Mutexes
            PROVE  TellRight(t, x)' /\ OwnerRight(t, x)' /\ CountRight(t, x)'
  <2>1. TellRight(t, x)'
    BY <1>1, <1>2, <1>3, <1>same, <1>case, Names DEF TellRight, Place, OnlyWord, HoldRight,
       Between, At, InCall, PlaceRight, Getting, Giving, DeadGetting, LockOnly
  <2>2. OwnerRight(t, x)'
    BY <1>1, <1>2, <1>3, <1>same, <1>case, Names DEF OwnerRight, Place, OnlyWord, HoldRight,
       Between, At, InCall, Getting, Giving, DeadGetting, LockOnly
  <2>3. CountRight(t, x)'
    BY <1>1, <1>2, <1>3, <1>same, <1>case, Names DEF CountRight, Place, OnlyWord, HoldRight,
       Between, At, InCall, Getting, Giving, DeadGetting, LockOnly
  <2> QED
    BY <2>1, <2>2, <2>3
<1>free. DiedFree'
  BY <1>1, <1>2, <1>3, <1>same, <1>case DEF CoreInv, DiedFree, OnlyWord, PlaceRight, At,
     LockOnly
<1>loss. LostRight'
  <2>1. LostRight
    BY DEF CoreInv
  <2>2. \A x \in lost' : /\ word'[x].tid = word[x].tid
                         /\ word[x].tid = Nobody /\ word[x].died => word'[x].died
                         /\ th[t].m = x /\ th[t].at \in DeadGetting
                              => th'[t].m = x /\ th'[t].at \in DeadGetting
    BY <1>1, <1>2, <1>3, <1>same, <1>case, Names DEF DeadGetting, Place, OnlyWord
  <2> QED
    BY <2>1, <2>2, <1>3, <1>same, <1>case, LossKept DEF OthersStay
<1>right. ThreadRight(t)'
  BY <1>place, <1>hold, <1>pending, <1>dead, <1>mutexes DEF ThreadRight
<1>calm. Others(t)
  BY <1>others DEF Others
<1>quiet. Quiet(t)
  <2>1. ASSUME NEW x \in Mutexes, stray' = {} PROVE Listed(t, x)' <=> Listed(t, x)
    BY <2>1, <1>1, <1>2, <1>3, <1>same, <1>case, Names DEF Listed, Off, Place, OnlyWord,
       HoldRight, Between, At, InCall, PlaceRight, DeadRight, Getting, Giving, DeadGetting,
       LockOnly, TypeOK, AllKinds
  <2>2. ASSUME NEW x \in Mutexes, owner'[x] # owner[x]
        PROVE  /\ word[x].tid = t
               /\ owner'[x] = NotRecoverable => At(t, "disown") /\ th[t].m = x
    BY <2>2, <1>same
  <2>3. /\ th[t].at \notin {"link", "dead_link"}
        /\ th'[t].at \notin {"link", "dead_link", "disown"}
    BY <1>1, <1>2, <1>3, <1>same, <1>case DEF Place
  <2> QED
    BY <2>1, <2>2, <2>3, <1>same, <1>2 DEF Quiet
<1> QED
  BY <1>types, <1>calm, <1>right, <1>free, <1>loss, OneSteps, <1>quiet

\* EBUSY, and the end of an unlock.
LEMMA BusyCore ==
    ASSUME CoreInv, NEW t \in Threads, Busy(t)
    PROVE  CoreInv' /\ Others(t) /\ Quiet(t)
<1>1. TypeOK /\ th[t].at = "busy" /\ InCall(t)
  BY DEF CoreInv, Busy, At, InCall
<1>2. /\ th[t].m \in Mutexes /\ t \notin dead /\ th[t].m # NULL
      /\ PlaceRight(t) /\ HoldRight(t) /\ PendingRight(t) /\ DeadRight(t)
      /\ \A x \in Mutexes : TellRight(t, x) /\ OwnerRight(t, x) /\ CountRight(t, x)
  BY <1>1, InCallIs
<1>3. /\ th' \in [Threads -> ThreadState] /\ OthersStay(t)
      /\ Place(t, "user", NULL, Free, Nobody)
  BY <1>1, ReturnIs DEF Busy
<1>same. /\ kind' = kind /\ word' = word /\ owner' = owner /\ count' = count
         /\ nusers' = nusers /\ next' = next /\ prev' = prev /\ depth' = depth
         /\ lost' = lost /\ stray' = stray /\ dead' = dead
  BY DEF Busy, fields, links, ghosts
<1>new1. /\ pending' \in [Threads -> Mutexes \cup {NULL}] /\ pending'[t] = NULL
         /\ \A u \in Threads \ {t} : pending'[u] = pending[u]
  BY <1>1, <1>2 DEF Busy, TypeOK
<1>types. TypeOK'
  BY <1>1, <1>3, <1>same, <1>new1 DEF TypeOK
<1>others. ASSUME NEW u \in Threads \ {t} PROVE Calm(u)
  <2>1. th'[u] = th[u] /\ dead' = dead
    BY <1>3, <1>same DEF OthersStay
  <2>2. pending'[u] = pending[u]
    BY <1>new1
  <2>3. depth'[u] = depth[u]
    BY <1>same
  <2>4. ASSUME NEW x \in Mutexes
        PROVE  /\ word'[x].tid = u => word[x].tid = u
               /\ word[x].tid = u /\ u \notin dead
                    => /\ word'[x].tid = u /\ owner'[x] = owner[x]
                       /\ count'[x] = count[x] \/ owner[x] = NotRecoverable
               /\ owner'[x] = u => owner[x] = u
    BY <1>3, <1>same, <1>new1, <1>2, Names DEF OnlyWord
  <2> QED
    BY <2>1, <2>2, <2>3, <2>4, <1>same DEF Calm
<1>place. PlaceRight(t)'
  BY <1>1, <1>2, <1>3, <1>same, <1>new1, Names DEF PlaceRight, Place, InCall, At, Getting,
     Giving, DeadGetting, LockOnly
<1>hold. HoldRight(t)'
  BY <1>1, <1>2, <1>3, <1>same, <1>new1, Names DEF HoldRight, Place, Between, At, OnlyWord,
     Getting, Giving, DeadGetting
<1>pending. PendingRight(t)'
  BY <1>1, <1>2, <1>3, <1>same, <1>new1 DEF PendingRight, Place, InCall, At, PlaceRight,
     LockOnly, TypeOK
<1>dead. DeadRight(t)'
  BY <1>1, <1>2, <1>3, <1>same, <1>new1, Names DEF DeadRight, Place, At, InCall, PlaceRight,
     LockOnly
<1>mutexes. ASSUME NEW x \in Mutexes
            PROVE  TellRight(t, x)' /\ OwnerRight(t, x)' /\ CountRight(t, x)'
  <2>1. TellRight(t, x)'
    BY <1>1, <1>2, <1>3, <1>same, <1>new1, Names DEF TellRight, Place, OnlyWord, HoldRight,
       Between, At, InCall, PlaceRight, Getting, Giving, DeadGetting, LockOnly
  <2>2. OwnerRight(t, x)'
    BY <1>1, <1>2, <1>3, <1>same, <1>new1, Names DEF OwnerRight, Place, OnlyWord, HoldRight,
       Between, At, InCall, Getting, Giving, DeadGetting, LockOnly
  <2>3. CountRight(t, x)'
    BY <1>1, <1>2, <1>3, <1>same, <1>new1, Names DEF CountRight, Place, OnlyWord, HoldRight,
       Between, At, InCall, Getting, Giving, DeadGetting, LockOnly
  <2> QED
    BY <2>1, <2>2, <2>3
<1>free. DiedFree'
  BY <1>1, <1>2, <1>3, <1>same, <1>new1 DEF CoreInv, DiedFree, OnlyWord, PlaceRight, At,
     LockOnly
<1>loss. LostRight'
  <2>1. LostRight
    BY DEF CoreInv
  <2>2. \A x \in lost' : /\ word'[x].tid = word[x].tid
                         /\ word[x].tid = Nobody /\ word[x].died => word'[x].died
                         /\ th[t].m = x /\ th[t].at \in DeadGetting
                              => th'[t].m = x /\ th'[t].at \in DeadGetting
    BY <1>1, <1>2, <1>3, <1>same, <1>new1, Names DEF DeadGetting, Place, OnlyWord
  <2> QED
    BY <2>1, <2>2, <1>3, <1>same, <1>new1, LossKept DEF OthersStay
<1>right. ThreadRight(t)'
  BY <1>place, <1>hold, <1>pending, <1>dead, <1>mutexes DEF ThreadRight
<1>calm. Others(t)
  BY <1>others DEF Others
<1>quiet. Quiet(t)
  <2>1. ASSUME NEW x \in Mutexes, stray' = {} PROVE Listed(t, x)' <=> Listed(t, x)
    BY <2>1, <1>1, <1>2, <1>3, <1>same, <1>new1, Names DEF Listed, Off, Place, OnlyWord,
       HoldRight, Between, At, InCall, PlaceRight, DeadRight, Getting, Giving, DeadGetting,
       LockOnly, TypeOK, AllKinds
  <2>2. ASSUME NEW x \in Mutexes, owner'[x] # owner[x]
        PROVE  /\ word[x].tid = t
               /\ owner'[x] = NotRecoverable => At(t, "disown") /\ th[t].m = x
    BY <2>2, <1>same
  <2>3. /\ th[t].at \notin {"link", "dead_link"}
        /\ th'[t].at \notin {"link", "dead_link", "disown"}
    BY <1>1, <1>2, <1>3, <1>same, <1>new1 DEF Place
  <2> QED
    BY <2>1, <2>2, <2>3, <1>same, <1>2 DEF Quiet
<1> QED
  BY <1>types, <1>calm, <1>right, <1>free, <1>loss, OneSteps, <1>quiet

\* A call of trylock.
LEMMA TrylockCore ==
    ASSUME CoreInv, NEW t \in Threads, NEW m \in Mutexes, Trylock(t, m)
    PROVE  CoreInv' /\ Others(t) /\ Quiet(t)
<1>1. TypeOK /\ th[t].at = "user" /\ ~InCall(t)
  BY DEF CoreInv, Trylock, Enter, At, InCall
<1>2. /\ t \notin dead
      /\ \A x \in Mutexes : TellRight(t, x) /\ OwnerRight(t, x) /\ CountRight(t, x)
  BY <1>1 DEF CoreInv, ThreadRight, PlaceRight, At
<1>3. /\ th' \in [Threads -> ThreadState] /\ OthersStay(t)
      /\ Place(t, "read", m, Free, Nobody)
  BY <1>1, EnterIs DEF Trylock, Places
<1>same. /\ kind' = kind /\ word' = word /\ owner' = owner /\ count' = count
         /\ nusers' = nusers /\ next' = next /\ prev' = prev /\ depth' = depth
         /\ lost' = lost /\ stray' = stray /\ dead' = dead
  BY DEF Trylock, fields, links, ghosts
<1>new1. pending' = IF kind[m].robust THEN [pending EXCEPT ![t] = m] ELSE pending
  BY DEF Trylock
<1>types. TypeOK'
  BY <1>1, <1>3, <1>same, <1>new1 DEF TypeOK
<1>others. ASSUME NEW u \in Threads \ {t} PROVE Calm(u)
  <2>1. th'[u] = th[u] /\ dead' = dead
    BY <1>3, <1>same DEF OthersStay
  <2>2. pending'[u] = pending[u]
    BY <1>new1
  <2>3. depth'[u] = depth[u]
    BY <1>same
  <2>4. ASSUME NEW x \in Mutexes
        PROVE  /\ word'[x].tid = u => word[x].tid = u
               /\ word[x].tid = u /\ u \notin dead
                    => /\ word'[x].tid = u /\ owner'[x] = owner[x]
                       /\ count'[x] = count[x] \/ owner[x] = NotRecoverable
               /\ owner'[x] = u => owner[x] = u
    BY <1>3, <1>same, <1>new1, <1>2, Names DEF OnlyWord
  <2> QED
    BY <2>1, <2>2, <2>3, <2>4, <1>same DEF Calm
<1>place. PlaceRight(t)'
  BY <1>1, <1>2, <1>3, <1>same, <1>new1, Names DEF PlaceRight, Place, InCall, At, Getting,
     Giving, DeadGetting, LockOnly
<1>hold. HoldRight(t)'
  BY <1>1, <1>2, <1>3, <1>same, <1>new1, Names DEF HoldRight, Place, Between, At, OnlyWord,
     Getting, Giving, DeadGetting
<1>pending. PendingRight(t)'
  BY <1>1, <1>2, <1>3, <1>same, <1>new1 DEF PendingRight, Place, InCall, At, PlaceRight,
     LockOnly, TypeOK
<1>dead. DeadRight(t)'
  BY <1>1, <1>2, <1>3, <1>same, <1>new1, Names DEF DeadRight, Place, At, InCall, PlaceRight,
     LockOnly
<1>mutexes. ASSUME NEW x \in Mutexes
            PROVE  TellRight(t, x)' /\ OwnerRight(t, x)' /\ CountRight(t, x)'
  <2>1. TellRight(t, x)'
    BY <1>1, <1>2, <1>3, <1>same, <1>new1, Names DEF TellRight, Place, OnlyWord, HoldRight,
       Between, At, InCall, PlaceRight, Getting, Giving, DeadGetting, LockOnly
  <2>2. OwnerRight(t, x)'
    BY <1>1, <1>2, <1>3, <1>same, <1>new1, Names DEF OwnerRight, Place, OnlyWord, HoldRight,
       Between, At, InCall, Getting, Giving, DeadGetting, LockOnly
  <2>3. CountRight(t, x)'
    BY <1>1, <1>2, <1>3, <1>same, <1>new1, Names DEF CountRight, Place, OnlyWord, HoldRight,
       Between, At, InCall, Getting, Giving, DeadGetting, LockOnly
  <2> QED
    BY <2>1, <2>2, <2>3
<1>free. DiedFree'
  BY <1>1, <1>2, <1>3, <1>same, <1>new1 DEF CoreInv, DiedFree, OnlyWord, PlaceRight, At,
     LockOnly
<1>loss. LostRight'
  <2>1. LostRight
    BY DEF CoreInv
  <2>2. \A x \in lost' : /\ word'[x].tid = word[x].tid
                         /\ word[x].tid = Nobody /\ word[x].died => word'[x].died
                         /\ th[t].m = x /\ th[t].at \in DeadGetting
                              => th'[t].m = x /\ th'[t].at \in DeadGetting
    BY <1>1, <1>2, <1>3, <1>same, <1>new1, Names DEF DeadGetting, Place, OnlyWord
  <2> QED
    BY <2>1, <2>2, <1>3, <1>same, <1>new1, LossKept DEF OthersStay
<1>right. ThreadRight(t)'
  BY <1>place, <1>hold, <1>pending, <1>dead, <1>mutexes DEF ThreadRight
<1>calm. Others(t)
  BY <1>others DEF Others
<1>quiet. Quiet(t)
  <2>1. ASSUME NEW x \in Mutexes, stray' = {} PROVE Listed(t, x)' <=> Listed(t, x)
    BY <2>1, <1>1, <1>2, <1>3, <1>same, <1>new1, Names DEF Listed, Off, Place, OnlyWord,
       HoldRight, Between, At, InCall, PlaceRight, DeadRight, Getting, Giving, DeadGetting,
       LockOnly
  <2>2. ASSUME NEW x \in Mutexes, owner'[x] # owner[x]
        PROVE  /\ word[x].tid = t
               /\ owner'[x] = NotRecoverable => At(t, "disown") /\ th[t].m = x
    BY <2>2, <1>same
  <2>3. /\ th[t].at \notin {"link", "dead_link"}
        /\ th'[t].at \notin {"link", "dead_link", "disown"}
    BY <1>1, <1>2, <1>3, <1>same, <1>new1 DEF Place
  <2> QED
    BY <2>1, <2>2, <2>3, <1>same, <1>2 DEF Quiet
<1> QED
  BY <1>types, <1>calm, <1>right, <1>free, <1>loss, OneSteps, <1>quiet

\* One more level, or EDEADLK, or EAGAIN.
LEMMA MineCore ==
    ASSUME CoreInv, NEW t \in Threads, Mine(t)
    PROVE  CoreInv' /\ Others(t) /\ Quiet(t)
<1>1. TypeOK /\ th[t].at = "mine" /\ InCall(t)
  BY DEF CoreInv, Mine, At, InCall
<1>2. /\ th[t].m \in Mutexes /\ t \notin dead /\ th[t].m # NULL
      /\ PlaceRight(t) /\ HoldRight(t) /\ PendingRight(t) /\ DeadRight(t)
      /\ \A x \in Mutexes : TellRight(t, x) /\ OwnerRight(t, x) /\ CountRight(t, x)
  BY <1>1, InCallIs
<1>zero. CountMod % CountMod = 0
  BY BoundsAssumption
<1>case. \/ count' = count /\ depth' = depth
         \/ /\ kind[th[t].m].type = "recursive"
            /\ count[th[t].m] + 1 # CountMod
            /\ count' = [count EXCEPT ![th[t].m] = @ + 1] /\ Told(t, th[t].m)
  BY <1>1, <1>2, <1>zero, BoundsAssumption DEF Mine, TypeOK
<1>known. word[th[t].m].tid = t
  BY <1>1, <1>2 DEF HoldRight, At
<1>3. /\ th' \in [Threads -> ThreadState] /\ OthersStay(t)
      /\ Place(t, "user", NULL, Free, Nobody)
  BY <1>1, ReturnIs DEF Mine
<1>same. /\ kind' = kind /\ word' = word /\ owner' = owner /\ nusers' = nusers
         /\ next' = next /\ prev' = prev /\ lost' = lost /\ stray' = stray
         /\ dead' = dead
  BY DEF Mine, fields, links, ghosts
<1>new1. /\ pending' \in [Threads -> Mutexes \cup {NULL}] /\ pending'[t] = NULL
         /\ \A u \in Threads \ {t} : pending'[u] = pending[u]
  BY <1>1, <1>2 DEF Mine, TypeOK
<1>new2. /\ count' \in [Mutexes -> 0 .. CountMod - 1]
         /\ \A x \in Mutexes \ {th[t].m} : count'[x] = count[x]
  <2>1. /\ count \in [Mutexes -> 0 .. CountMod - 1] /\ CountMod \in Nat
        /\ count[th[t].m] \in 0 .. CountMod - 1
    BY <1>1, <1>2, BoundsAssumption DEF TypeOK
  <2>2. ASSUME count[th[t].m] + 1 # CountMod, count' = [count EXCEPT ![th[t].m] = count[th[t].m] + 1]
        PROVE  /\ count' \in [Mutexes -> 0 .. CountMod - 1]
               /\ \A x \in Mutexes \ {th[t].m} : count'[x] = count[x]
    <3>1. count[th[t].m] + 1 \in 0 .. CountMod - 1
      BY <2>1, <2>2
    <3> QED
      BY <2>1, <2>2, <3>1
  <2> QED
    BY <1>case, <2>1, <2>2
<1>new3. depth' \in [Threads -> [Mutexes -> Nat]]
  <2>1. depth' = depth \/ Told(t, th[t].m)
    BY <1>case
  <2>2. depth \in [Threads -> [Mutexes -> Nat]] /\ depth[t][th[t].m] + 1 \in Nat
    BY <1>1, <1>2 DEF TypeOK
  <2> QED
    BY <2>1, <2>2, <1>2 DEF Told
<1>new4. OnlyDepth(t)
  BY <1>case, <1>1, <1>2 DEF Told, TypeOK, OnlyDepth
<1>new5. \A x \in Mutexes \ {th[t].m} : depth'[t][x] = depth[t][x]
  BY <1>case, <1>1, <1>2 DEF Told, TypeOK
<1>new6. \/ count'[th[t].m] = count[th[t].m] /\ depth'[t][th[t].m] = depth[t][th[t].m]
         \/ /\ kind[th[t].m].type = "recursive"
            /\ count'[th[t].m] = count[th[t].m] + 1 /\ depth'[t][th[t].m] = depth[t][th[t].m] + 1
  BY <1>case, <1>1, <1>2 DEF Told, TypeOK
<1>types. TypeOK'
  BY <1>1, <1>3, <1>same, <1>new1, <1>new2, <1>new3, <1>new4, <1>new5, <1>new6, <1>known
     DEF TypeOK
<1>others. ASSUME NEW u \in Threads \ {t} PROVE Calm(u)
  <2>1. th'[u] = th[u] /\ dead' = dead
    BY <1>3, <1>same DEF OthersStay
  <2>2. pending'[u] = pending[u]
    BY <1>new1
  <2>3. depth'[u] = depth[u]
    BY <1>new4 DEF OnlyDepth
  <2>4. ASSUME NEW x \in Mutexes
        PROVE  /\ word'[x].tid = u => word[x].tid = u
               /\ word[x].tid = u /\ u \notin dead
                    => /\ word'[x].tid = u /\ owner'[x] = owner[x]
                       /\ count'[x] = count[x] \/ owner[x] = NotRecoverable
               /\ owner'[x] = u => owner[x] = u
    BY <1>3, <1>same, <1>new1, <1>new2, <1>new3, <1>new4, <1>new5, <1>new6, <1>known, <1>2,
       Names DEF OnlyWord
  <2> QED
    BY <2>1, <2>2, <2>3, <2>4, <1>same DEF Calm
<1>place. PlaceRight(t)'
  BY <1>1, <1>2, <1>3, <1>same, <1>new1, <1>new2, <1>new3, <1>new4, <1>new5, <1>new6,
     <1>known, Names DEF PlaceRight, Place, InCall, At, Getting, Giving, DeadGetting,
     LockOnly
<1>hold. HoldRight(t)'
  BY <1>1, <1>2, <1>3, <1>same, <1>new1, <1>new2, <1>new3, <1>new4, <1>new5, <1>new6,
     <1>known, Names DEF HoldRight, Place, Between, At, OnlyWord, Getting, Giving,
     DeadGetting
<1>pending. PendingRight(t)'
  BY <1>1, <1>2, <1>3, <1>same, <1>new1, <1>new2, <1>new3, <1>new4, <1>new5, <1>new6,
     <1>known DEF PendingRight, Place, InCall, At, PlaceRight, LockOnly, TypeOK
<1>dead. DeadRight(t)'
  BY <1>1, <1>2, <1>3, <1>same, <1>new1, <1>new2, <1>new3, <1>new4, <1>new5, <1>new6,
     <1>known, Names DEF DeadRight, Place, At, InCall, PlaceRight, LockOnly
<1>mutexes. ASSUME NEW x \in Mutexes
            PROVE  TellRight(t, x)' /\ OwnerRight(t, x)' /\ CountRight(t, x)'
  <2>1. TellRight(t, x)'
    BY <1>1, <1>2, <1>3, <1>same, <1>new1, <1>new2, <1>new3, <1>new4, <1>new5, <1>new6,
       <1>known, Names DEF TellRight, Place, OnlyWord, HoldRight, Between, At, InCall,
       PlaceRight, Getting, Giving, DeadGetting, LockOnly
  <2>2. OwnerRight(t, x)'
    BY <1>1, <1>2, <1>3, <1>same, <1>new1, <1>new2, <1>new3, <1>new4, <1>new5, <1>new6,
       <1>known, Names DEF OwnerRight, Place, OnlyWord, HoldRight, Between, At, InCall,
       Getting, Giving, DeadGetting, LockOnly
  <2>3. CountRight(t, x)'
    <3>1. CountRight(t, x) /\ count[x] \in Nat /\ depth[t][x] \in Nat
      BY <1>1, <1>2 DEF TypeOK
    <3>2. CASE x = th[t].m
      BY <3>1, <3>2, <1>1, <1>2, <1>3, <1>same, <1>new1, <1>new2, <1>new3, <1>new4, <1>new5,
         <1>new6, <1>known, Names DEF CountRight, Getting, Giving, DeadGetting, DeadRight
    <3>3. CASE x # th[t].m
      <4>1. count'[x] = count[x] /\ depth'[t][x] = depth[t][x] /\ word' = word /\ kind' = kind
            /\ owner'[x] = owner[x] /\ dead' = dead
        BY <3>3, <1>3, <1>same, <1>new1, <1>new2, <1>new3, <1>new4, <1>new5, <1>new6,
           <1>known
      <4>2. CountRight(t, x)
        BY <3>1
      <4> QED
        BY <3>3, <4>1, <4>2, <1>1 DEF CountRight
    <3> QED
      BY <3>2, <3>3
  <2> QED
    BY <2>1, <2>2, <2>3
<1>free. DiedFree'
  BY <1>1, <1>2, <1>3, <1>same, <1>new1, <1>new2, <1>new3, <1>new4, <1>new5, <1>new6,
     <1>known DEF CoreInv, DiedFree, OnlyWord, PlaceRight, At, LockOnly
<1>loss. LostRight'
  <2>1. LostRight
    BY DEF CoreInv
  <2>2. \A x \in lost' : /\ word'[x].tid = word[x].tid
                         /\ word[x].tid = Nobody /\ word[x].died => word'[x].died
                         /\ th[t].m = x /\ th[t].at \in DeadGetting
                              => th'[t].m = x /\ th'[t].at \in DeadGetting
    BY <1>1, <1>2, <1>3, <1>same, <1>new1, <1>new2, <1>new3, <1>new4, <1>new5, <1>new6,
       <1>known, Names DEF DeadGetting, Place, OnlyWord
  <2> QED
    BY <2>1, <2>2, <1>3, <1>same, <1>new1, <1>new2, <1>new3, <1>new4, <1>new5, <1>new6,
       <1>known, LossKept DEF OthersStay
<1>right. ThreadRight(t)'
  BY <1>place, <1>hold, <1>pending, <1>dead, <1>mutexes DEF ThreadRight
<1>calm. Others(t)
  BY <1>others DEF Others
<1>quiet. Quiet(t)
  <2>1. ASSUME NEW x \in Mutexes, stray' = {} PROVE Listed(t, x)' <=> Listed(t, x)
    BY <2>1, <1>1, <1>2, <1>3, <1>same, <1>new1, <1>new2, <1>new3, <1>new4, <1>new5,
       <1>new6, <1>known, Names DEF Listed, Off, Place, OnlyWord, HoldRight, Between, At,
       InCall, PlaceRight, DeadRight, Getting, Giving, DeadGetting, LockOnly, TypeOK,
       AllKinds
  <2>2. ASSUME NEW x \in Mutexes, owner'[x] # owner[x]
        PROVE  /\ word[x].tid = t
               /\ owner'[x] = NotRecoverable => At(t, "disown") /\ th[t].m = x
    BY <2>2, <1>same
  <2>3. /\ th[t].at \notin {"link", "dead_link"}
        /\ th'[t].at \notin {"link", "dead_link", "disown"}
    BY <1>1, <1>2, <1>3, <1>same, <1>new1, <1>new2, <1>new3, <1>new4, <1>new5, <1>new6,
       <1>known DEF Place
  <2> QED
    BY <2>1, <2>2, <2>3, <1>same, <1>2 DEF Quiet
<1> QED
  BY <1>types, <1>calm, <1>right, <1>free, <1>loss, OneSteps, <1>quiet

\* OWNER_DIED is cleared by the new owner.
LEMMA ClearDiedCore ==
    ASSUME CoreInv, NEW t \in Threads, ClearDied(t)
    PROVE  CoreInv' /\ Others(t) /\ Quiet(t)
<1>1. TypeOK /\ th[t].at = "clear" /\ InCall(t)
  BY DEF CoreInv, ClearDied, At, InCall
<1>2. /\ th[t].m \in Mutexes /\ t \notin dead /\ th[t].m # NULL
      /\ PlaceRight(t) /\ HoldRight(t) /\ PendingRight(t) /\ DeadRight(t)
      /\ \A x \in Mutexes : TellRight(t, x) /\ OwnerRight(t, x) /\ CountRight(t, x)
  BY <1>1, InCallIs
<1>known. word[th[t].m].tid = t /\ depth[t][th[t].m] = 0
  BY <1>1, <1>2 DEF HoldRight, Between, Getting, Giving, DeadGetting
<1>3. /\ th' \in [Threads -> ThreadState] /\ OthersStay(t)
      /\ Place(t, "dead_own", th[t].m, th[t].old, th[t].new)
  BY <1>1, GotoIs DEF ClearDied, Places, Getting, Giving, DeadGetting, LockOnly
<1>same. /\ kind' = kind /\ owner' = owner /\ count' = count /\ nusers' = nusers
         /\ next' = next /\ prev' = prev /\ pending' = pending /\ depth' = depth
         /\ lost' = lost /\ stray' = stray /\ dead' = dead
  BY DEF ClearDied, fields, links, ghosts
<1>new1. /\ word' \in [Mutexes -> Word] /\ OnlyWord(th[t].m)
         /\ word'[th[t].m].tid = word[th[t].m].tid /\ ~word'[th[t].m].died
  <2> DEFINE w == [word[th[t].m] EXCEPT !.died = FALSE]
  <2>1. word[th[t].m] \in Word
    BY <1>1, <1>2 DEF TypeOK
  <2>2. w \in Word /\ w.tid = word[th[t].m].tid /\ ~w.died
    BY <2>1 DEF Word
  <2>3. word' = [word EXCEPT ![th[t].m] = w]
    BY DEF ClearDied
  <2> HIDE DEF w
  <2> QED
    BY <1>1, <1>2, <2>2, <2>3, WordIs
<1>types. TypeOK'
  BY <1>1, <1>3, <1>same, <1>new1, <1>known DEF TypeOK
<1>others. ASSUME NEW u \in Threads \ {t} PROVE Calm(u)
  <2>1. th'[u] = th[u] /\ dead' = dead
    BY <1>3, <1>same DEF OthersStay
  <2>2. pending'[u] = pending[u]
    BY <1>same
  <2>3. depth'[u] = depth[u]
    BY <1>same
  <2>4. ASSUME NEW x \in Mutexes
        PROVE  /\ word'[x].tid = u => word[x].tid = u
               /\ word[x].tid = u /\ u \notin dead
                    => /\ word'[x].tid = u /\ owner'[x] = owner[x]
                       /\ count'[x] = count[x] \/ owner[x] = NotRecoverable
               /\ owner'[x] = u => owner[x] = u
    BY <1>3, <1>same, <1>new1, <1>known, <1>2, Names DEF OnlyWord
  <2> QED
    BY <2>1, <2>2, <2>3, <2>4, <1>same DEF Calm
<1>place. PlaceRight(t)'
  BY <1>1, <1>2, <1>3, <1>same, <1>new1, <1>known, Names DEF PlaceRight, Place, InCall, At,
     Getting, Giving, DeadGetting, LockOnly
<1>hold. HoldRight(t)'
  BY <1>1, <1>2, <1>3, <1>same, <1>new1, <1>known, Names DEF HoldRight, Place, Between, At,
     OnlyWord, Getting, Giving, DeadGetting
<1>pending. PendingRight(t)'
  BY <1>1, <1>2, <1>3, <1>same, <1>new1, <1>known DEF PendingRight, Place, InCall, At,
     PlaceRight, LockOnly
<1>dead. DeadRight(t)'
  BY <1>1, <1>2, <1>3, <1>same, <1>new1, <1>known, Names DEF DeadRight, Place, At, InCall,
     PlaceRight, LockOnly
<1>mutexes. ASSUME NEW x \in Mutexes
            PROVE  TellRight(t, x)' /\ OwnerRight(t, x)' /\ CountRight(t, x)'
  <2>1. TellRight(t, x)'
    BY <1>1, <1>2, <1>3, <1>same, <1>new1, <1>known, Names DEF TellRight, Place, OnlyWord,
       HoldRight, Between, At, InCall, PlaceRight, Getting, Giving, DeadGetting, LockOnly
  <2>2. OwnerRight(t, x)'
    BY <1>1, <1>2, <1>3, <1>same, <1>new1, <1>known, Names DEF OwnerRight, Place, OnlyWord,
       HoldRight, Between, At, InCall, Getting, Giving, DeadGetting, LockOnly
  <2>3. CountRight(t, x)'
    BY <1>1, <1>2, <1>3, <1>same, <1>new1, <1>known, Names DEF CountRight, Place, OnlyWord,
       HoldRight, Between, At, InCall, Getting, Giving, DeadGetting, LockOnly
  <2> QED
    BY <2>1, <2>2, <2>3
<1>free. DiedFree'
  BY <1>1, <1>2, <1>3, <1>same, <1>new1, <1>known DEF CoreInv, DiedFree, OnlyWord,
     PlaceRight, At, LockOnly
<1>loss. LostRight'
  <2>1. LostRight
    BY DEF CoreInv
  <2>2. th[t].m \in lost => /\ kind[th[t].m].robust
                           /\ \/ word[th[t].m].tid \in dead
                              \/ word[th[t].m].tid = Nobody /\ word[th[t].m].died
                              \/ \E v \in Threads : /\ word[th[t].m].tid = v
                                                    /\ th[v].m = th[t].m /\ th[v].at \in DeadGetting
    BY <2>1 DEF LostRight
  <2>3. dead \subseteq Threads /\ Nobody \notin Threads
    BY <1>1, Names DEF TypeOK
  <2>4. th[t].m \in lost
          => word'[th[t].m].tid = t /\ th'[t].m = th[t].m /\ th'[t].at \in DeadGetting
    BY <2>2, <2>3, <1>1, <1>2, <1>3, <1>same, <1>new1, <1>known DEF Place, DeadGetting,
       PlaceRight, LockOnly
  <2> QED
    BY <2>1, <2>4, <1>3, <1>same, <1>new1, <1>known, <1>1, LossTaken
<1>right. ThreadRight(t)'
  BY <1>place, <1>hold, <1>pending, <1>dead, <1>mutexes DEF ThreadRight
<1>calm. Others(t)
  BY <1>others DEF Others
<1>quiet. Quiet(t)
  <2>1. ASSUME NEW x \in Mutexes, stray' = {} PROVE Listed(t, x)' <=> Listed(t, x)
    BY <2>1, <1>1, <1>2, <1>3, <1>same, <1>new1, <1>known, Names DEF Listed, Off, Place,
       OnlyWord, HoldRight, Between, At, InCall, PlaceRight, DeadRight, Getting, Giving,
       DeadGetting, LockOnly, TypeOK, AllKinds
  <2>2. ASSUME NEW x \in Mutexes, owner'[x] # owner[x]
        PROVE  /\ word[x].tid = t
               /\ owner'[x] = NotRecoverable => At(t, "disown") /\ th[t].m = x
    BY <2>2, <1>same
  <2>3. /\ th[t].at \notin {"link", "dead_link"}
        /\ th'[t].at \notin {"link", "dead_link", "disown"}
    BY <1>1, <1>2, <1>3, <1>same, <1>new1, <1>known DEF Place
  <2> QED
    BY <2>1, <2>2, <2>3, <1>same, <1>2 DEF Quiet
<1> QED
  BY <1>types, <1>calm, <1>right, <1>free, <1>loss, OneSteps, <1>quiet

\* EOWNERDEAD: the mutex is inconsistent.
LEMMA DeadOwnerCore ==
    ASSUME CoreInv, NEW t \in Threads, DeadOwner(t)
    PROVE  CoreInv' /\ Others(t) /\ Quiet(t)
<1>1. TypeOK /\ th[t].at = "dead_own" /\ InCall(t)
  BY DEF CoreInv, DeadOwner, At, InCall
<1>2. /\ th[t].m \in Mutexes /\ t \notin dead /\ th[t].m # NULL
      /\ PlaceRight(t) /\ HoldRight(t) /\ PendingRight(t) /\ DeadRight(t)
      /\ \A x \in Mutexes : TellRight(t, x) /\ OwnerRight(t, x) /\ CountRight(t, x)
  BY <1>1, InCallIs
<1>known. word[th[t].m].tid = t /\ depth[t][th[t].m] = 0
  BY <1>1, <1>2 DEF HoldRight, Between, Getting, Giving, DeadGetting
<1>3. /\ th' \in [Threads -> ThreadState] /\ OthersStay(t)
      /\ Place(t, "dead_prepare", th[t].m, th[t].old, th[t].new)
  BY <1>1, GotoIs DEF DeadOwner, Places, Getting, Giving, DeadGetting, LockOnly
<1>same. /\ kind' = kind /\ word' = word /\ nusers' = nusers /\ next' = next
         /\ prev' = prev /\ pending' = pending /\ depth' = depth /\ lost' = lost
         /\ stray' = stray /\ dead' = dead
  BY DEF DeadOwner, fields, links, ghosts
<1>new1. /\ count' \in [Mutexes -> 0 .. CountMod - 1] /\ count'[th[t].m] = 1
         /\ \A x \in Mutexes \ {th[t].m} : count'[x] = count[x]
  BY <1>1, <1>2, BoundsAssumption DEF DeadOwner, TypeOK
<1>new2. /\ owner' \in [Mutexes -> Threads \cup {Nobody, Inconsistent, NotRecoverable}]
         /\ owner'[th[t].m] = Inconsistent
         /\ \A x \in Mutexes \ {th[t].m} : owner'[x] = owner[x]
  BY <1>1, <1>2 DEF DeadOwner, TypeOK
<1>types. TypeOK'
  BY <1>1, <1>3, <1>same, <1>new1, <1>new2, <1>known DEF TypeOK
<1>others. ASSUME NEW u \in Threads \ {t} PROVE Calm(u)
  <2>1. th'[u] = th[u] /\ dead' = dead
    BY <1>3, <1>same DEF OthersStay
  <2>2. pending'[u] = pending[u]
    BY <1>same
  <2>3. depth'[u] = depth[u]
    BY <1>same
  <2>4. ASSUME NEW x \in Mutexes
        PROVE  /\ word'[x].tid = u => word[x].tid = u
               /\ word[x].tid = u /\ u \notin dead
                    => /\ word'[x].tid = u /\ owner'[x] = owner[x]
                       /\ count'[x] = count[x] \/ owner[x] = NotRecoverable
               /\ owner'[x] = u => owner[x] = u
    BY <1>3, <1>same, <1>new1, <1>new2, <1>known, <1>2, Names DEF OnlyWord
  <2> QED
    BY <2>1, <2>2, <2>3, <2>4, <1>same DEF Calm
<1>place. PlaceRight(t)'
  BY <1>1, <1>2, <1>3, <1>same, <1>new1, <1>new2, <1>known, Names DEF PlaceRight, Place,
     InCall, At, Getting, Giving, DeadGetting, LockOnly
<1>hold. HoldRight(t)'
  BY <1>1, <1>2, <1>3, <1>same, <1>new1, <1>new2, <1>known, Names DEF HoldRight, Place,
     Between, At, OnlyWord, Getting, Giving, DeadGetting
<1>pending. PendingRight(t)'
  BY <1>1, <1>2, <1>3, <1>same, <1>new1, <1>new2, <1>known DEF PendingRight, Place, InCall,
     At, PlaceRight, LockOnly
<1>dead. DeadRight(t)'
  BY <1>1, <1>2, <1>3, <1>same, <1>new1, <1>new2, <1>known, Names DEF DeadRight, Place, At,
     InCall, PlaceRight, LockOnly
<1>mutexes. ASSUME NEW x \in Mutexes
            PROVE  TellRight(t, x)' /\ OwnerRight(t, x)' /\ CountRight(t, x)'
  <2>1. TellRight(t, x)'
    BY <1>1, <1>2, <1>3, <1>same, <1>new1, <1>new2, <1>known, Names DEF TellRight, Place,
       OnlyWord, HoldRight, Between, At, InCall, PlaceRight, Getting, Giving, DeadGetting,
       LockOnly
  <2>2. OwnerRight(t, x)'
    BY <1>1, <1>2, <1>3, <1>same, <1>new1, <1>new2, <1>known, Names DEF OwnerRight, Place,
       OnlyWord, HoldRight, Between, At, InCall, Getting, Giving, DeadGetting, LockOnly
  <2>3. CountRight(t, x)'
    BY <1>1, <1>2, <1>3, <1>same, <1>new1, <1>new2, <1>known, Names DEF CountRight, Place,
       OnlyWord, HoldRight, Between, At, InCall, Getting, Giving, DeadGetting, LockOnly
  <2> QED
    BY <2>1, <2>2, <2>3
<1>free. DiedFree'
  BY <1>1, <1>2, <1>3, <1>same, <1>new1, <1>new2, <1>known DEF CoreInv, DiedFree, OnlyWord,
     PlaceRight, At, LockOnly
<1>loss. LostRight'
  <2>1. LostRight
    BY DEF CoreInv
  <2>2. \A x \in lost' : /\ word'[x].tid = word[x].tid
                         /\ word[x].tid = Nobody /\ word[x].died => word'[x].died
                         /\ th[t].m = x /\ th[t].at \in DeadGetting
                              => th'[t].m = x /\ th'[t].at \in DeadGetting
    BY <1>1, <1>2, <1>3, <1>same, <1>new1, <1>new2, <1>known, Names DEF DeadGetting, Place,
       OnlyWord
  <2> QED
    BY <2>1, <2>2, <1>3, <1>same, <1>new1, <1>new2, <1>known, LossKept DEF OthersStay
<1>right. ThreadRight(t)'
  BY <1>place, <1>hold, <1>pending, <1>dead, <1>mutexes DEF ThreadRight
<1>calm. Others(t)
  BY <1>others DEF Others
<1>quiet. Quiet(t)
  <2>1. ASSUME NEW x \in Mutexes, stray' = {} PROVE Listed(t, x)' <=> Listed(t, x)
    BY <2>1, <1>1, <1>2, <1>3, <1>same, <1>new1, <1>new2, <1>known, Names DEF Listed, Off,
       Place, OnlyWord, HoldRight, Between, At, InCall, PlaceRight, DeadRight, Getting,
       Giving, DeadGetting, LockOnly, TypeOK, AllKinds
  <2>2. ASSUME NEW x \in Mutexes, owner'[x] # owner[x]
        PROVE  /\ word[x].tid = t
               /\ owner'[x] = NotRecoverable => At(t, "disown") /\ th[t].m = x
    BY <2>2, <1>1, <1>2, <1>3, <1>same, <1>new1, <1>new2, <1>known, Names DEF At
  <2>3. /\ th[t].at \notin {"link", "dead_link"}
        /\ th'[t].at \notin {"link", "dead_link", "disown"}
    BY <1>1, <1>2, <1>3, <1>same, <1>new1, <1>new2, <1>known DEF Place
  <2> QED
    BY <2>1, <2>2, <2>3, <1>same, <1>2 DEF Quiet
<1> QED
  BY <1>types, <1>calm, <1>right, <1>free, <1>loss, OneSteps, <1>quiet

\* The caller is told that the owner died.
LEMMA ReturnOwnerDeadCore ==
    ASSUME CoreInv, NEW t \in Threads, ReturnOwnerDead(t)
    PROVE  CoreInv' /\ Others(t) /\ Quiet(t)
<1>1. TypeOK /\ th[t].at = "dead_record" /\ InCall(t)
  BY DEF CoreInv, ReturnOwnerDead, At, InCall
<1>2. /\ th[t].m \in Mutexes /\ t \notin dead /\ th[t].m # NULL
      /\ PlaceRight(t) /\ HoldRight(t) /\ PendingRight(t) /\ DeadRight(t)
      /\ \A x \in Mutexes : TellRight(t, x) /\ OwnerRight(t, x) /\ CountRight(t, x)
  BY <1>1, InCallIs
<1>known. word[th[t].m].tid = t /\ depth[t][th[t].m] = 0
  BY <1>1, <1>2 DEF HoldRight, Between, Getting, Giving, DeadGetting
<1>3. /\ th' \in [Threads -> ThreadState] /\ OthersStay(t)
      /\ Place(t, "user", NULL, Free, Nobody)
  BY <1>1, ReturnIs DEF ReturnOwnerDead
<1>same. /\ kind' = kind /\ word' = word /\ owner' = owner /\ count' = count
         /\ nusers' = nusers /\ next' = next /\ prev' = prev /\ stray' = stray
         /\ dead' = dead
  BY DEF ReturnOwnerDead, fields, links, ghosts
<1>new1. /\ pending' \in [Threads -> Mutexes \cup {NULL}] /\ pending'[t] = NULL
         /\ \A u \in Threads \ {t} : pending'[u] = pending[u]
  BY <1>1, <1>2 DEF ReturnOwnerDead, TypeOK
<1>new2. depth' \in [Threads -> [Mutexes -> Nat]]
  BY <1>1, <1>2, <1>known DEF Told, TypeOK, ReturnOwnerDead
<1>new3. OnlyDepth(t)
  BY <1>1, <1>2, <1>known DEF Told, TypeOK, OnlyDepth, ReturnOwnerDead
<1>new4. \A x \in Mutexes \ {th[t].m} : depth'[t][x] = depth[t][x]
  BY <1>1, <1>2 DEF Told, TypeOK, ReturnOwnerDead
<1>new5. depth'[t][th[t].m] = 1
  BY <1>1, <1>2, <1>known DEF Told, TypeOK, ReturnOwnerDead
<1>new6. lost' = lost \ {th[t].m} /\ lost' \subseteq Mutexes
  BY <1>1 DEF ReturnOwnerDead, TypeOK
<1>types. TypeOK'
  BY <1>1, <1>3, <1>same, <1>new1, <1>new2, <1>new3, <1>new4, <1>new5, <1>new6, <1>known
     DEF TypeOK
<1>others. ASSUME NEW u \in Threads \ {t} PROVE Calm(u)
  <2>1. th'[u] = th[u] /\ dead' = dead
    BY <1>3, <1>same DEF OthersStay
  <2>2. pending'[u] = pending[u]
    BY <1>new1
  <2>3. depth'[u] = depth[u]
    BY <1>new3 DEF OnlyDepth
  <2>4. ASSUME NEW x \in Mutexes
        PROVE  /\ word'[x].tid = u => word[x].tid = u
               /\ word[x].tid = u /\ u \notin dead
                    => /\ word'[x].tid = u /\ owner'[x] = owner[x]
                       /\ count'[x] = count[x] \/ owner[x] = NotRecoverable
               /\ owner'[x] = u => owner[x] = u
    BY <1>3, <1>same, <1>new1, <1>new2, <1>new3, <1>new4, <1>new5, <1>new6, <1>known, <1>2,
       Names DEF OnlyWord
  <2> QED
    BY <2>1, <2>2, <2>3, <2>4, <1>same DEF Calm
<1>place. PlaceRight(t)'
  BY <1>1, <1>2, <1>3, <1>same, <1>new1, <1>new2, <1>new3, <1>new4, <1>new5, <1>new6,
     <1>known, Names DEF PlaceRight, Place, InCall, At, Getting, Giving, DeadGetting,
     LockOnly
<1>hold. HoldRight(t)'
  BY <1>1, <1>2, <1>3, <1>same, <1>new1, <1>new2, <1>new3, <1>new4, <1>new5, <1>new6,
     <1>known, Names DEF HoldRight, Place, Between, At, OnlyWord, Getting, Giving,
     DeadGetting
<1>pending. PendingRight(t)'
  BY <1>1, <1>2, <1>3, <1>same, <1>new1, <1>new2, <1>new3, <1>new4, <1>new5, <1>new6,
     <1>known DEF PendingRight, Place, InCall, At, PlaceRight, LockOnly, TypeOK
<1>dead. DeadRight(t)'
  BY <1>1, <1>2, <1>3, <1>same, <1>new1, <1>new2, <1>new3, <1>new4, <1>new5, <1>new6,
     <1>known, Names DEF DeadRight, Place, At, InCall, PlaceRight, LockOnly
<1>mutexes. ASSUME NEW x \in Mutexes
            PROVE  TellRight(t, x)' /\ OwnerRight(t, x)' /\ CountRight(t, x)'
  <2>1. TellRight(t, x)'
    BY <1>1, <1>2, <1>3, <1>same, <1>new1, <1>new2, <1>new3, <1>new4, <1>new5, <1>new6,
       <1>known, Names DEF TellRight, Place, OnlyWord, HoldRight, Between, At, InCall,
       PlaceRight, Getting, Giving, DeadGetting, LockOnly
  <2>2. OwnerRight(t, x)'
    BY <1>1, <1>2, <1>3, <1>same, <1>new1, <1>new2, <1>new3, <1>new4, <1>new5, <1>new6,
       <1>known, Names DEF OwnerRight, Place, OnlyWord, HoldRight, Between, At, InCall,
       Getting, Giving, DeadGetting, LockOnly
  <2>3. CountRight(t, x)'
    <3>1. CountRight(t, x) /\ count[x] \in Nat /\ depth[t][x] \in Nat
      BY <1>1, <1>2 DEF TypeOK
    <3>2. CASE x = th[t].m
      BY <3>1, <3>2, <1>1, <1>2, <1>3, <1>same, <1>new1, <1>new2, <1>new3, <1>new4, <1>new5,
         <1>new6, <1>known, Names DEF CountRight, Getting, Giving, DeadGetting, DeadRight
    <3>3. CASE x # th[t].m
      <4>1. count'[x] = count[x] /\ depth'[t][x] = depth[t][x] /\ word' = word /\ kind' = kind
            /\ owner'[x] = owner[x] /\ dead' = dead
        BY <3>3, <1>3, <1>same, <1>new1, <1>new2, <1>new3, <1>new4, <1>new5, <1>new6,
           <1>known
      <4>2. CountRight(t, x)
        BY <3>1
      <4> QED
        BY <3>3, <4>1, <4>2, <1>1 DEF CountRight
    <3> QED
      BY <3>2, <3>3
  <2> QED
    BY <2>1, <2>2, <2>3
<1>free. DiedFree'
  BY <1>1, <1>2, <1>3, <1>same, <1>new1, <1>new2, <1>new3, <1>new4, <1>new5, <1>new6,
     <1>known DEF CoreInv, DiedFree, OnlyWord, PlaceRight, At, LockOnly
<1>loss. LostRight'
  <2>1. LostRight
    BY DEF CoreInv
  <2>2. \A x \in lost' : /\ word'[x].tid = word[x].tid
                         /\ word[x].tid = Nobody /\ word[x].died => word'[x].died
                         /\ th[t].m = x /\ th[t].at \in DeadGetting
                              => th'[t].m = x /\ th'[t].at \in DeadGetting
    BY <1>1, <1>2, <1>3, <1>same, <1>new1, <1>new2, <1>new3, <1>new4, <1>new5, <1>new6,
       <1>known, Names DEF DeadGetting, Place, OnlyWord
  <2> QED
    BY <2>1, <2>2, <1>3, <1>same, <1>new1, <1>new2, <1>new3, <1>new4, <1>new5, <1>new6,
       <1>known, LossKept DEF OthersStay
<1>right. ThreadRight(t)'
  BY <1>place, <1>hold, <1>pending, <1>dead, <1>mutexes DEF ThreadRight
<1>calm. Others(t)
  BY <1>others DEF Others
<1>quiet. Quiet(t)
  <2>1. ASSUME NEW x \in Mutexes, stray' = {} PROVE Listed(t, x)' <=> Listed(t, x)
    BY <2>1, <1>1, <1>2, <1>3, <1>same, <1>new1, <1>new2, <1>new3, <1>new4, <1>new5,
       <1>new6, <1>known, Names DEF Listed, Off, Place, OnlyWord, HoldRight, Between, At,
       InCall, PlaceRight, DeadRight, Getting, Giving, DeadGetting, LockOnly, TypeOK,
       AllKinds
  <2>2. ASSUME NEW x \in Mutexes, owner'[x] # owner[x]
        PROVE  /\ word[x].tid = t
               /\ owner'[x] = NotRecoverable => At(t, "disown") /\ th[t].m = x
    BY <2>2, <1>same
  <2>3. /\ th[t].at \notin {"link", "dead_link"}
        /\ th'[t].at \notin {"link", "dead_link", "disown"}
    BY <1>1, <1>2, <1>3, <1>same, <1>new1, <1>new2, <1>new3, <1>new4, <1>new5, <1>new6,
       <1>known DEF Place
  <2> QED
    BY <2>1, <2>2, <2>3, <1>same, <1>2 DEF Quiet
<1> QED
  BY <1>types, <1>calm, <1>right, <1>free, <1>loss, OneSteps, <1>quiet

\* The ownership is recorded.
LEMMA RecordCore ==
    ASSUME CoreInv, NEW t \in Threads, Record(t)
    PROVE  CoreInv' /\ Others(t) /\ Quiet(t)
<1>1. TypeOK /\ th[t].at = "record" /\ InCall(t)
  BY DEF CoreInv, Record, At, InCall
<1>2. /\ th[t].m \in Mutexes /\ t \notin dead /\ th[t].m # NULL
      /\ PlaceRight(t) /\ HoldRight(t) /\ PendingRight(t) /\ DeadRight(t)
      /\ \A x \in Mutexes : TellRight(t, x) /\ OwnerRight(t, x) /\ CountRight(t, x)
  BY <1>1, InCallIs
<1>known. word[th[t].m].tid = t /\ depth[t][th[t].m] = 0
  BY <1>1, <1>2 DEF HoldRight, Between, Getting, Giving, DeadGetting
<1>3. /\ th' \in [Threads -> ThreadState] /\ OthersStay(t)
      /\ Place(t, "user", NULL, Free, Nobody)
  BY <1>1, ReturnIs DEF Record
<1>same. /\ kind' = kind /\ word' = word /\ next' = next /\ prev' = prev
         /\ lost' = lost /\ stray' = stray /\ dead' = dead
  BY DEF Record, fields, links, ghosts
<1>new1. /\ pending' \in [Threads -> Mutexes \cup {NULL}] /\ pending'[t] = NULL
         /\ \A u \in Threads \ {t} : pending'[u] = pending[u]
  BY <1>1, <1>2 DEF Record, TypeOK
<1>new2. /\ owner' \in [Mutexes -> Threads \cup {Nobody, Inconsistent, NotRecoverable}]
         /\ owner'[th[t].m] = t
         /\ \A x \in Mutexes \ {th[t].m} : owner'[x] = owner[x]
  BY <1>1, <1>2 DEF Record, TypeOK
<1>new3. /\ count' \in [Mutexes -> 0 .. CountMod - 1] /\ count'[th[t].m] = 1
         /\ \A x \in Mutexes \ {th[t].m} : count'[x] = count[x]
  BY <1>1, <1>2, BoundsAssumption DEF Record, TypeOK
<1>new4. depth' \in [Threads -> [Mutexes -> Nat]]
  BY <1>1, <1>2, <1>known DEF Told, TypeOK, Record
<1>new5. OnlyDepth(t)
  BY <1>1, <1>2, <1>known DEF Told, TypeOK, OnlyDepth, Record
<1>new6. \A x \in Mutexes \ {th[t].m} : depth'[t][x] = depth[t][x]
  BY <1>1, <1>2 DEF Told, TypeOK, Record
<1>new7. depth'[t][th[t].m] = 1
  BY <1>1, <1>2, <1>known DEF Told, TypeOK, Record
<1>types. TypeOK'
  BY <1>1, <1>3, <1>same, <1>new1, <1>new2, <1>new3, <1>new4, <1>new5, <1>new6, <1>new7,
     <1>known DEF TypeOK
<1>others. ASSUME NEW u \in Threads \ {t} PROVE Calm(u)
  <2>1. th'[u] = th[u] /\ dead' = dead
    BY <1>3, <1>same DEF OthersStay
  <2>2. pending'[u] = pending[u]
    BY <1>new1
  <2>3. depth'[u] = depth[u]
    BY <1>new5 DEF OnlyDepth
  <2>4. ASSUME NEW x \in Mutexes
        PROVE  /\ word'[x].tid = u => word[x].tid = u
               /\ word[x].tid = u /\ u \notin dead
                    => /\ word'[x].tid = u /\ owner'[x] = owner[x]
                       /\ count'[x] = count[x] \/ owner[x] = NotRecoverable
               /\ owner'[x] = u => owner[x] = u
    BY <1>3, <1>same, <1>new1, <1>new2, <1>new3, <1>new4, <1>new5, <1>new6, <1>new7,
       <1>known, <1>2, Names DEF OnlyWord
  <2> QED
    BY <2>1, <2>2, <2>3, <2>4, <1>same DEF Calm
<1>place. PlaceRight(t)'
  BY <1>1, <1>2, <1>3, <1>same, <1>new1, <1>new2, <1>new3, <1>new4, <1>new5, <1>new6,
     <1>new7, <1>known, Names DEF PlaceRight, Place, InCall, At, Getting, Giving,
     DeadGetting, LockOnly
<1>hold. HoldRight(t)'
  BY <1>1, <1>2, <1>3, <1>same, <1>new1, <1>new2, <1>new3, <1>new4, <1>new5, <1>new6,
     <1>new7, <1>known, Names DEF HoldRight, Place, Between, At, OnlyWord, Getting, Giving,
     DeadGetting
<1>pending. PendingRight(t)'
  BY <1>1, <1>2, <1>3, <1>same, <1>new1, <1>new2, <1>new3, <1>new4, <1>new5, <1>new6,
     <1>new7, <1>known DEF PendingRight, Place, InCall, At, PlaceRight, LockOnly, TypeOK
<1>dead. DeadRight(t)'
  BY <1>1, <1>2, <1>3, <1>same, <1>new1, <1>new2, <1>new3, <1>new4, <1>new5, <1>new6,
     <1>new7, <1>known, Names DEF DeadRight, Place, At, InCall, PlaceRight, LockOnly
<1>mutexes. ASSUME NEW x \in Mutexes
            PROVE  TellRight(t, x)' /\ OwnerRight(t, x)' /\ CountRight(t, x)'
  <2>1. TellRight(t, x)'
    BY <1>1, <1>2, <1>3, <1>same, <1>new1, <1>new2, <1>new3, <1>new4, <1>new5, <1>new6,
       <1>new7, <1>known, Names DEF TellRight, Place, OnlyWord, HoldRight, Between, At,
       InCall, PlaceRight, Getting, Giving, DeadGetting, LockOnly
  <2>2. OwnerRight(t, x)'
    BY <1>1, <1>2, <1>3, <1>same, <1>new1, <1>new2, <1>new3, <1>new4, <1>new5, <1>new6,
       <1>new7, <1>known, Names DEF OwnerRight, Place, OnlyWord, HoldRight, Between, At,
       InCall, Getting, Giving, DeadGetting, LockOnly
  <2>3. CountRight(t, x)'
    BY <1>1, <1>2, <1>3, <1>same, <1>new1, <1>new2, <1>new3, <1>new4, <1>new5, <1>new6,
       <1>new7, <1>known, Names DEF CountRight, Place, OnlyWord, HoldRight, Between, At,
       InCall, Getting, Giving, DeadGetting, LockOnly
  <2> QED
    BY <2>1, <2>2, <2>3
<1>free. DiedFree'
  BY <1>1, <1>2, <1>3, <1>same, <1>new1, <1>new2, <1>new3, <1>new4, <1>new5, <1>new6,
     <1>new7, <1>known DEF CoreInv, DiedFree, OnlyWord, PlaceRight, At, LockOnly
<1>loss. LostRight'
  <2>1. LostRight
    BY DEF CoreInv
  <2>2. \A x \in lost' : /\ word'[x].tid = word[x].tid
                         /\ word[x].tid = Nobody /\ word[x].died => word'[x].died
                         /\ th[t].m = x /\ th[t].at \in DeadGetting
                              => th'[t].m = x /\ th'[t].at \in DeadGetting
    BY <1>1, <1>2, <1>3, <1>same, <1>new1, <1>new2, <1>new3, <1>new4, <1>new5, <1>new6,
       <1>new7, <1>known, Names DEF DeadGetting, Place, OnlyWord
  <2> QED
    BY <2>1, <2>2, <1>3, <1>same, <1>new1, <1>new2, <1>new3, <1>new4, <1>new5, <1>new6,
       <1>new7, <1>known, LossKept DEF OthersStay
<1>right. ThreadRight(t)'
  BY <1>place, <1>hold, <1>pending, <1>dead, <1>mutexes DEF ThreadRight
<1>calm. Others(t)
  BY <1>others DEF Others
<1>quiet. Quiet(t)
  <2>1. ASSUME NEW x \in Mutexes, stray' = {} PROVE Listed(t, x)' <=> Listed(t, x)
    BY <2>1, <1>1, <1>2, <1>3, <1>same, <1>new1, <1>new2, <1>new3, <1>new4, <1>new5,
       <1>new6, <1>new7, <1>known, Names DEF Listed, Off, Place, OnlyWord, HoldRight,
       Between, At, InCall, PlaceRight, DeadRight, Getting, Giving, DeadGetting, LockOnly,
       TypeOK, AllKinds
  <2>2. ASSUME NEW x \in Mutexes, owner'[x] # owner[x]
        PROVE  /\ word[x].tid = t
               /\ owner'[x] = NotRecoverable => At(t, "disown") /\ th[t].m = x
    BY <2>2, <1>1, <1>2, <1>3, <1>same, <1>new1, <1>new2, <1>new3, <1>new4, <1>new5,
       <1>new6, <1>new7, <1>known, Names DEF At
  <2>3. /\ th[t].at \notin {"link", "dead_link"}
        /\ th'[t].at \notin {"link", "dead_link", "disown"}
    BY <1>1, <1>2, <1>3, <1>same, <1>new1, <1>new2, <1>new3, <1>new4, <1>new5, <1>new6,
       <1>new7, <1>known DEF Place
  <2> QED
    BY <2>1, <2>2, <2>3, <1>same, <1>2 DEF Quiet
<1> QED
  BY <1>types, <1>calm, <1>right, <1>free, <1>loss, OneSteps, <1>quiet

\* The exchange takes the place of the dead owner.
LEMMA TakeOverWonCore ==
    ASSUME CoreInv, NEW t \in Threads, TakeOver(t), word[th[t].m] = th[t].old
    PROVE  CoreInv' /\ Others(t) /\ Quiet(t)
<1>1. TypeOK /\ th[t].at = "again" /\ InCall(t)
  BY DEF CoreInv, TakeOver, At, InCall
<1>2. /\ th[t].m \in Mutexes /\ t \notin dead /\ th[t].m # NULL
      /\ PlaceRight(t) /\ HoldRight(t) /\ PendingRight(t) /\ DeadRight(t)
      /\ \A x \in Mutexes : TellRight(t, x) /\ OwnerRight(t, x) /\ CountRight(t, x)
  BY <1>1, InCallIs
<1>word. word[th[t].m].tid = Nobody /\ word[th[t].m].died /\ kind[th[t].m].robust
  BY <1>1, <1>2, Names DEF PlaceRight, At, CoreInv, DiedFree, TypeOK, AllKinds
<1>known. depth[t][th[t].m] = 0
  BY <1>word, <1>1, <1>2, Names DEF TellRight, TypeOK
<1>3. /\ th' \in [Threads -> ThreadState] /\ OthersStay(t)
      /\ Place(t, "dead_own", th[t].m, th[t].old, th[t].new)
  BY <1>1, GotoIs DEF TakeOver, Places, Getting, Giving, DeadGetting, LockOnly
<1>same. /\ kind' = kind /\ owner' = owner /\ count' = count /\ nusers' = nusers
         /\ next' = next /\ prev' = prev /\ pending' = pending /\ depth' = depth
         /\ lost' = lost /\ stray' = stray /\ dead' = dead
  BY DEF TakeOver, fields, links, ghosts
<1>new1. /\ word' \in [Mutexes -> Word] /\ OnlyWord(th[t].m)
         /\ word'[th[t].m].tid = t /\ ~word'[th[t].m].died
  <2> DEFINE w == [word[th[t].m] EXCEPT !.tid = t, !.died = FALSE]
  <2>1. word[th[t].m] \in Word
    BY <1>1, <1>2 DEF TypeOK
  <2>2. w \in Word /\ w.tid = t /\ ~w.died
    BY <2>1 DEF Word
  <2>3. word' = [word EXCEPT ![th[t].m] = w]
    BY <1>1, <1>2 DEF TakeOver, TypeOK
  <2> HIDE DEF w
  <2> QED
    BY <1>1, <1>2, <2>2, <2>3, WordIs
<1>types. TypeOK'
  BY <1>1, <1>3, <1>same, <1>new1, <1>word, <1>known DEF TypeOK
<1>others. ASSUME NEW u \in Threads \ {t} PROVE Calm(u)
  <2>1. th'[u] = th[u] /\ dead' = dead
    BY <1>3, <1>same DEF OthersStay
  <2>2. pending'[u] = pending[u]
    BY <1>same
  <2>3. depth'[u] = depth[u]
    BY <1>same
  <2>4. ASSUME NEW x \in Mutexes
        PROVE  /\ word'[x].tid = u => word[x].tid = u
               /\ word[x].tid = u /\ u \notin dead
                    => /\ word'[x].tid = u /\ owner'[x] = owner[x]
                       /\ count'[x] = count[x] \/ owner[x] = NotRecoverable
               /\ owner'[x] = u => owner[x] = u
    BY <1>3, <1>same, <1>new1, <1>word, <1>known, <1>2, Names DEF OnlyWord
  <2> QED
    BY <2>1, <2>2, <2>3, <2>4, <1>same DEF Calm
<1>place. PlaceRight(t)'
  BY <1>1, <1>2, <1>3, <1>same, <1>new1, <1>word, <1>known, Names DEF PlaceRight, Place,
     InCall, At, Getting, Giving, DeadGetting, LockOnly
<1>hold. HoldRight(t)'
  BY <1>1, <1>2, <1>3, <1>same, <1>new1, <1>word, <1>known, Names DEF HoldRight, Place,
     Between, At, OnlyWord, Getting, Giving, DeadGetting
<1>pending. PendingRight(t)'
  BY <1>1, <1>2, <1>3, <1>same, <1>new1, <1>word, <1>known DEF PendingRight, Place, InCall,
     At, PlaceRight, LockOnly
<1>dead. DeadRight(t)'
  BY <1>1, <1>2, <1>3, <1>same, <1>new1, <1>word, <1>known, Names DEF DeadRight, Place, At,
     InCall, PlaceRight, LockOnly
<1>mutexes. ASSUME NEW x \in Mutexes
            PROVE  TellRight(t, x)' /\ OwnerRight(t, x)' /\ CountRight(t, x)'
  <2>1. TellRight(t, x)'
    BY <1>1, <1>2, <1>3, <1>same, <1>new1, <1>word, <1>known, Names DEF TellRight, Place,
       OnlyWord, HoldRight, Between, At, InCall, PlaceRight, Getting, Giving, DeadGetting,
       LockOnly
  <2>2. OwnerRight(t, x)'
    BY <1>1, <1>2, <1>3, <1>same, <1>new1, <1>word, <1>known, Names DEF OwnerRight, Place,
       OnlyWord, HoldRight, Between, At, InCall, Getting, Giving, DeadGetting, LockOnly
  <2>3. CountRight(t, x)'
    BY <1>1, <1>2, <1>3, <1>same, <1>new1, <1>word, <1>known, Names DEF CountRight, Place,
       OnlyWord, HoldRight, Between, At, InCall, Getting, Giving, DeadGetting, LockOnly
  <2> QED
    BY <2>1, <2>2, <2>3
<1>free. DiedFree'
  BY <1>1, <1>2, <1>3, <1>same, <1>new1, <1>word, <1>known DEF CoreInv, DiedFree, OnlyWord,
     PlaceRight, At, LockOnly
<1>loss. LostRight'
  <2>1. LostRight
    BY DEF CoreInv
  <2>2. th[t].m \in lost => /\ kind[th[t].m].robust
                           /\ \/ word[th[t].m].tid \in dead
                              \/ word[th[t].m].tid = Nobody /\ word[th[t].m].died
                              \/ \E v \in Threads : /\ word[th[t].m].tid = v
                                                    /\ th[v].m = th[t].m /\ th[v].at \in DeadGetting
    BY <2>1 DEF LostRight
  <2>3. dead \subseteq Threads /\ Nobody \notin Threads
    BY <1>1, Names DEF TypeOK
  <2>4. th[t].m \in lost
          => word'[th[t].m].tid = t /\ th'[t].m = th[t].m /\ th'[t].at \in DeadGetting
    BY <2>2, <2>3, <1>1, <1>2, <1>3, <1>same, <1>new1, <1>word, <1>known DEF Place,
       DeadGetting, PlaceRight, LockOnly
  <2> QED
    BY <2>1, <2>4, <1>3, <1>same, <1>new1, <1>word, <1>known, <1>1, LossTaken
<1>right. ThreadRight(t)'
  BY <1>place, <1>hold, <1>pending, <1>dead, <1>mutexes DEF ThreadRight
<1>calm. Others(t)
  BY <1>others DEF Others
<1>quiet. Quiet(t)
  <2>1. ASSUME NEW x \in Mutexes, stray' = {} PROVE Listed(t, x)' <=> Listed(t, x)
    BY <2>1, <1>1, <1>2, <1>3, <1>same, <1>new1, <1>word, <1>known, Names DEF Listed, Off,
       Place, OnlyWord, HoldRight, Between, At, InCall, PlaceRight, DeadRight, Getting,
       Giving, DeadGetting, LockOnly, TypeOK, AllKinds
  <2>2. ASSUME NEW x \in Mutexes, owner'[x] # owner[x]
        PROVE  /\ word[x].tid = t
               /\ owner'[x] = NotRecoverable => At(t, "disown") /\ th[t].m = x
    BY <2>2, <1>same
  <2>3. /\ th[t].at \notin {"link", "dead_link"}
        /\ th'[t].at \notin {"link", "dead_link", "disown"}
    BY <1>1, <1>2, <1>3, <1>same, <1>new1, <1>word, <1>known DEF Place
  <2> QED
    BY <2>1, <2>2, <2>3, <1>same, <1>2 DEF Quiet
<1> QED
  BY <1>types, <1>calm, <1>right, <1>free, <1>loss, OneSteps, <1>quiet

\* The word is another by now.
LEMMA TakeOverMissedCore ==
    ASSUME CoreInv, NEW t \in Threads, TakeOver(t), word[th[t].m] # th[t].old
    PROVE  CoreInv' /\ Others(t) /\ Quiet(t)
<1>1. TypeOK /\ th[t].at = "again" /\ InCall(t)
  BY DEF CoreInv, TakeOver, At, InCall
<1>2. /\ th[t].m \in Mutexes /\ t \notin dead /\ th[t].m # NULL
      /\ PlaceRight(t) /\ HoldRight(t) /\ PendingRight(t) /\ DeadRight(t)
      /\ \A x \in Mutexes : TellRight(t, x) /\ OwnerRight(t, x) /\ CountRight(t, x)
  BY <1>1, InCallIs
<1>case. /\ word[th[t].m] \in Word
         /\ After(t, th[t].m, word[th[t].m]) \in {"again", "mine", "cas"}
         /\ After(t, th[t].m, word[th[t].m]) = "again" => word[th[t].m].died /\ ~kind[th[t].m].pi
         /\ After(t, th[t].m, word[th[t].m]) = "mine" => word[th[t].m].tid = t
         /\ word[th[t].m].died /\ ~kind[th[t].m].pi => word[th[t].m].tid = Nobody
  BY <1>1, <1>2, AfterIs DEF TypeOK, CoreInv, DiedFree
<1>3. /\ th' \in [Threads -> ThreadState] /\ OthersStay(t)
      /\ Place(t, After(t, th[t].m, word[th[t].m]), th[t].m, word[th[t].m], th[t].new)
  BY <1>1, <1>2, <1>case, SawIs DEF TakeOver, See, Places, Getting, Giving, DeadGetting,
     LockOnly
<1>same. /\ kind' = kind /\ word' = word /\ owner' = owner /\ count' = count
         /\ nusers' = nusers /\ next' = next /\ prev' = prev /\ pending' = pending
         /\ depth' = depth /\ lost' = lost /\ stray' = stray /\ dead' = dead
  BY DEF TakeOver, fields, links, ghosts
<1>types. TypeOK'
  BY <1>1, <1>3, <1>same, <1>case DEF TypeOK
<1>others. ASSUME NEW u \in Threads \ {t} PROVE Calm(u)
  <2>1. th'[u] = th[u] /\ dead' = dead
    BY <1>3, <1>same DEF OthersStay
  <2>2. pending'[u] = pending[u]
    BY <1>same
  <2>3. depth'[u] = depth[u]
    BY <1>same
  <2>4. ASSUME NEW x \in Mutexes
        PROVE  /\ word'[x].tid = u => word[x].tid = u
               /\ word[x].tid = u /\ u \notin dead
                    => /\ word'[x].tid = u /\ owner'[x] = owner[x]
                       /\ count'[x] = count[x] \/ owner[x] = NotRecoverable
               /\ owner'[x] = u => owner[x] = u
    BY <1>3, <1>same, <1>case, <1>2, Names DEF OnlyWord
  <2> QED
    BY <2>1, <2>2, <2>3, <2>4, <1>same DEF Calm
<1>place. PlaceRight(t)'
  BY <1>1, <1>2, <1>3, <1>same, <1>case, Names DEF PlaceRight, Place, InCall, At, Getting,
     Giving, DeadGetting, LockOnly
<1>hold. HoldRight(t)'
  BY <1>1, <1>2, <1>3, <1>same, <1>case, Names DEF HoldRight, Place, Between, At, OnlyWord,
     Getting, Giving, DeadGetting
<1>pending. PendingRight(t)'
  BY <1>1, <1>2, <1>3, <1>same, <1>case DEF PendingRight, Place, InCall, At, PlaceRight,
     LockOnly
<1>dead. DeadRight(t)'
  BY <1>1, <1>2, <1>3, <1>same, <1>case, Names DEF DeadRight, Place, At, InCall, PlaceRight,
     LockOnly
<1>mutexes. ASSUME NEW x \in Mutexes
            PROVE  TellRight(t, x)' /\ OwnerRight(t, x)' /\ CountRight(t, x)'
  <2>1. TellRight(t, x)'
    BY <1>1, <1>2, <1>3, <1>same, <1>case, Names DEF TellRight, Place, OnlyWord, HoldRight,
       Between, At, InCall, PlaceRight, Getting, Giving, DeadGetting, LockOnly
  <2>2. OwnerRight(t, x)'
    BY <1>1, <1>2, <1>3, <1>same, <1>case, Names DEF OwnerRight, Place, OnlyWord, HoldRight,
       Between, At, InCall, Getting, Giving, DeadGetting, LockOnly
  <2>3. CountRight(t, x)'
    BY <1>1, <1>2, <1>3, <1>same, <1>case, Names DEF CountRight, Place, OnlyWord, HoldRight,
       Between, At, InCall, Getting, Giving, DeadGetting, LockOnly
  <2> QED
    BY <2>1, <2>2, <2>3
<1>free. DiedFree'
  BY <1>1, <1>2, <1>3, <1>same, <1>case DEF CoreInv, DiedFree, OnlyWord, PlaceRight, At,
     LockOnly
<1>loss. LostRight'
  <2>1. LostRight
    BY DEF CoreInv
  <2>2. \A x \in lost' : /\ word'[x].tid = word[x].tid
                         /\ word[x].tid = Nobody /\ word[x].died => word'[x].died
                         /\ th[t].m = x /\ th[t].at \in DeadGetting
                              => th'[t].m = x /\ th'[t].at \in DeadGetting
    BY <1>1, <1>2, <1>3, <1>same, <1>case, Names DEF DeadGetting, Place, OnlyWord
  <2> QED
    BY <2>1, <2>2, <1>3, <1>same, <1>case, LossKept DEF OthersStay
<1>right. ThreadRight(t)'
  BY <1>place, <1>hold, <1>pending, <1>dead, <1>mutexes DEF ThreadRight
<1>calm. Others(t)
  BY <1>others DEF Others
<1>quiet. Quiet(t)
  <2>1. ASSUME NEW x \in Mutexes, stray' = {} PROVE Listed(t, x)' <=> Listed(t, x)
    BY <2>1, <1>1, <1>2, <1>3, <1>same, <1>case, Names DEF Listed, Off, Place, OnlyWord,
       HoldRight, Between, At, InCall, PlaceRight, DeadRight, Getting, Giving, DeadGetting,
       LockOnly, TypeOK, AllKinds
  <2>2. ASSUME NEW x \in Mutexes, owner'[x] # owner[x]
        PROVE  /\ word[x].tid = t
               /\ owner'[x] = NotRecoverable => At(t, "disown") /\ th[t].m = x
    BY <2>2, <1>same
  <2>3. /\ th[t].at \notin {"link", "dead_link"}
        /\ th'[t].at \notin {"link", "dead_link", "disown"}
    BY <1>1, <1>2, <1>3, <1>same, <1>case DEF Place
  <2> QED
    BY <2>1, <2>2, <2>3, <1>same, <1>2 DEF Quiet
<1> QED
  BY <1>types, <1>calm, <1>right, <1>free, <1>loss, OneSteps, <1>quiet

\* The word was free.
LEMMA TryCasWonCore ==
    ASSUME CoreInv, NEW t \in Threads, TryCas(t), word[th[t].m] = Free
    PROVE  CoreInv' /\ Others(t) /\ Quiet(t)
<1>1. TypeOK /\ th[t].at = "cas" /\ InCall(t)
  BY DEF CoreInv, TryCas, At, InCall
<1>2. /\ th[t].m \in Mutexes /\ t \notin dead /\ th[t].m # NULL
      /\ PlaceRight(t) /\ HoldRight(t) /\ PendingRight(t) /\ DeadRight(t)
      /\ \A x \in Mutexes : TellRight(t, x) /\ OwnerRight(t, x) /\ CountRight(t, x)
  BY <1>1, InCallIs
<1>word. ~word[th[t].m].died /\ word[th[t].m].tid = Nobody /\ ~Free.died
  BY FreeIs
<1>known. depth[t][th[t].m] = 0
  BY <1>word, <1>1, <1>2, Names DEF TellRight, TypeOK
<1>3. /\ th' \in [Threads -> ThreadState] /\ OthersStay(t)
      /\ Place(t, "look", th[t].m, Free, th[t].new)
  <2>1. th' = [th EXCEPT ![t].at = "look", ![t].old = Free]
    BY <1>1 DEF TryCas, TypeOK
  <2> QED
    BY <1>1, <2>1, FreeIs, SawIs DEF Places
<1>same. /\ kind' = kind /\ owner' = owner /\ count' = count /\ nusers' = nusers
         /\ next' = next /\ prev' = prev /\ pending' = pending /\ depth' = depth
         /\ lost' = lost /\ stray' = stray /\ dead' = dead
  BY DEF TryCas, fields, links, ghosts
<1>new1. /\ word' \in [Mutexes -> Word] /\ OnlyWord(th[t].m)
         /\ word'[th[t].m].tid = t /\ word'[th[t].m].died = word[th[t].m].died
  BY <1>1, <1>2, TakenIs DEF TryCas
<1>types. TypeOK'
  BY <1>1, <1>3, <1>same, <1>new1, <1>word, <1>known DEF TypeOK
<1>others. ASSUME NEW u \in Threads \ {t} PROVE Calm(u)
  <2>1. th'[u] = th[u] /\ dead' = dead
    BY <1>3, <1>same DEF OthersStay
  <2>2. pending'[u] = pending[u]
    BY <1>same
  <2>3. depth'[u] = depth[u]
    BY <1>same
  <2>4. ASSUME NEW x \in Mutexes
        PROVE  /\ word'[x].tid = u => word[x].tid = u
               /\ word[x].tid = u /\ u \notin dead
                    => /\ word'[x].tid = u /\ owner'[x] = owner[x]
                       /\ count'[x] = count[x] \/ owner[x] = NotRecoverable
               /\ owner'[x] = u => owner[x] = u
    BY <1>3, <1>same, <1>new1, <1>word, <1>known, <1>2, Names DEF OnlyWord
  <2> QED
    BY <2>1, <2>2, <2>3, <2>4, <1>same DEF Calm
<1>place. PlaceRight(t)'
  BY <1>1, <1>2, <1>3, <1>same, <1>new1, <1>word, <1>known, Names DEF PlaceRight, Place,
     InCall, At, Getting, Giving, DeadGetting, LockOnly
<1>hold. HoldRight(t)'
  BY <1>1, <1>2, <1>3, <1>same, <1>new1, <1>word, <1>known, Names DEF HoldRight, Place,
     Between, At, OnlyWord, Getting, Giving, DeadGetting
<1>pending. PendingRight(t)'
  BY <1>1, <1>2, <1>3, <1>same, <1>new1, <1>word, <1>known DEF PendingRight, Place, InCall,
     At, PlaceRight, LockOnly
<1>dead. DeadRight(t)'
  BY <1>1, <1>2, <1>3, <1>same, <1>new1, <1>word, <1>known, Names DEF DeadRight, Place, At,
     InCall, PlaceRight, LockOnly
<1>mutexes. ASSUME NEW x \in Mutexes
            PROVE  TellRight(t, x)' /\ OwnerRight(t, x)' /\ CountRight(t, x)'
  <2>1. TellRight(t, x)'
    BY <1>1, <1>2, <1>3, <1>same, <1>new1, <1>word, <1>known, Names DEF TellRight, Place,
       OnlyWord, HoldRight, Between, At, InCall, PlaceRight, Getting, Giving, DeadGetting,
       LockOnly
  <2>2. OwnerRight(t, x)'
    BY <1>1, <1>2, <1>3, <1>same, <1>new1, <1>word, <1>known, Names DEF OwnerRight, Place,
       OnlyWord, HoldRight, Between, At, InCall, Getting, Giving, DeadGetting, LockOnly
  <2>3. CountRight(t, x)'
    BY <1>1, <1>2, <1>3, <1>same, <1>new1, <1>word, <1>known, Names DEF CountRight, Place,
       OnlyWord, HoldRight, Between, At, InCall, Getting, Giving, DeadGetting, LockOnly
  <2> QED
    BY <2>1, <2>2, <2>3
<1>free. DiedFree'
  BY <1>1, <1>2, <1>3, <1>same, <1>new1, <1>word, <1>known DEF CoreInv, DiedFree, OnlyWord,
     PlaceRight, At, LockOnly
<1>loss. LostRight'
  <2>1. LostRight
    BY DEF CoreInv
  <2>2. th[t].m \in lost => /\ kind[th[t].m].robust
                           /\ \/ word[th[t].m].tid \in dead
                              \/ word[th[t].m].tid = Nobody /\ word[th[t].m].died
                              \/ \E v \in Threads : /\ word[th[t].m].tid = v
                                                    /\ th[v].m = th[t].m /\ th[v].at \in DeadGetting
    BY <2>1 DEF LostRight
  <2>3. dead \subseteq Threads /\ Nobody \notin Threads
    BY <1>1, Names DEF TypeOK
  <2>4. th[t].m \in lost
          => word'[th[t].m].tid = t /\ th'[t].m = th[t].m /\ th'[t].at \in DeadGetting
    BY <2>2, <2>3, <1>1, <1>2, <1>3, <1>same, <1>new1, <1>word, <1>known DEF Place,
       DeadGetting, PlaceRight, LockOnly
  <2> QED
    BY <2>1, <2>4, <1>3, <1>same, <1>new1, <1>word, <1>known, <1>1, LossTaken
<1>right. ThreadRight(t)'
  BY <1>place, <1>hold, <1>pending, <1>dead, <1>mutexes DEF ThreadRight
<1>calm. Others(t)
  BY <1>others DEF Others
<1>quiet. Quiet(t)
  <2>1. ASSUME NEW x \in Mutexes, stray' = {} PROVE Listed(t, x)' <=> Listed(t, x)
    BY <2>1, <1>1, <1>2, <1>3, <1>same, <1>new1, <1>word, <1>known, Names DEF Listed, Off,
       Place, OnlyWord, HoldRight, Between, At, InCall, PlaceRight, DeadRight, Getting,
       Giving, DeadGetting, LockOnly, TypeOK, AllKinds
  <2>2. ASSUME NEW x \in Mutexes, owner'[x] # owner[x]
        PROVE  /\ word[x].tid = t
               /\ owner'[x] = NotRecoverable => At(t, "disown") /\ th[t].m = x
    BY <2>2, <1>same
  <2>3. /\ th[t].at \notin {"link", "dead_link"}
        /\ th'[t].at \notin {"link", "dead_link", "disown"}
    BY <1>1, <1>2, <1>3, <1>same, <1>new1, <1>word, <1>known DEF Place
  <2> QED
    BY <2>1, <2>2, <2>3, <1>same, <1>2 DEF Quiet
<1> QED
  BY <1>types, <1>calm, <1>right, <1>free, <1>loss, OneSteps, <1>quiet

\* The word was not free.
LEMMA TryCasLostCore ==
    ASSUME CoreInv, NEW t \in Threads, TryCas(t), word[th[t].m] # Free
    PROVE  CoreInv' /\ Others(t) /\ Quiet(t)
<1>1. TypeOK /\ th[t].at = "cas" /\ InCall(t)
  BY DEF CoreInv, TryCas, At, InCall
<1>2. /\ th[t].m \in Mutexes /\ t \notin dead /\ th[t].m # NULL
      /\ PlaceRight(t) /\ HoldRight(t) /\ PendingRight(t) /\ DeadRight(t)
      /\ \A x \in Mutexes : TellRight(t, x) /\ OwnerRight(t, x) /\ CountRight(t, x)
  BY <1>1, InCallIs
<1>case. /\ word[th[t].m] \in Word
         /\ word[th[t].m].died /\ ~kind[th[t].m].pi => word[th[t].m].tid = Nobody
  BY <1>1, <1>2 DEF TypeOK, CoreInv, DiedFree
<1>3. /\ th' \in [Threads -> ThreadState] /\ OthersStay(t)
      /\ Place(t, th'[t].at, th[t].m, word[th[t].m], th[t].new)
      /\ th'[t].at \in {"busy", "kernel", "look"}
      /\ (th'[t].at = "kernel" => kind[th[t].m].pi)
      /\ (th'[t].at = "look" => word[th[t].m].died /\ ~kind[th[t].m].pi)
  <2> DEFINE l == IF ~word[th[t].m].died THEN "busy" ELSE IF kind[th[t].m].pi THEN "kernel" ELSE "look"
  <2>1. th' = [th EXCEPT ![t].at = l, ![t].old = word[th[t].m]]
    BY <1>1 DEF TryCas, TypeOK
  <2>2. /\ l \in Places /\ l \in {"busy", "kernel", "look"}
        /\ l = "kernel" => kind[th[t].m].pi
        /\ l = "look" => word[th[t].m].died /\ ~kind[th[t].m].pi
    BY DEF Places
  <2> HIDE DEF l
  <2>3. th' \in [Threads -> ThreadState] /\ OthersStay(t) /\ Place(t, l, th[t].m, word[th[t].m], th[t].new)
    BY <1>1, <1>case, <2>1, <2>2, SawIs
  <2> QED
    BY <2>2, <2>3 DEF Place
<1>same. /\ kind' = kind /\ word' = word /\ owner' = owner /\ count' = count
         /\ nusers' = nusers /\ next' = next /\ prev' = prev /\ pending' = pending
         /\ depth' = depth /\ lost' = lost /\ stray' = stray /\ dead' = dead
  BY DEF TryCas, fields, links, ghosts
<1>types. TypeOK'
  BY <1>1, <1>3, <1>same, <1>case DEF TypeOK
<1>others. ASSUME NEW u \in Threads \ {t} PROVE Calm(u)
  <2>1. th'[u] = th[u] /\ dead' = dead
    BY <1>3, <1>same DEF OthersStay
  <2>2. pending'[u] = pending[u]
    BY <1>same
  <2>3. depth'[u] = depth[u]
    BY <1>same
  <2>4. ASSUME NEW x \in Mutexes
        PROVE  /\ word'[x].tid = u => word[x].tid = u
               /\ word[x].tid = u /\ u \notin dead
                    => /\ word'[x].tid = u /\ owner'[x] = owner[x]
                       /\ count'[x] = count[x] \/ owner[x] = NotRecoverable
               /\ owner'[x] = u => owner[x] = u
    BY <1>3, <1>same, <1>case, <1>2, Names DEF OnlyWord
  <2> QED
    BY <2>1, <2>2, <2>3, <2>4, <1>same DEF Calm
<1>place. PlaceRight(t)'
  BY <1>1, <1>2, <1>3, <1>same, <1>case, Names DEF PlaceRight, Place, InCall, At, Getting,
     Giving, DeadGetting, LockOnly
<1>hold. HoldRight(t)'
  BY <1>1, <1>2, <1>3, <1>same, <1>case, Names DEF HoldRight, Place, Between, At, OnlyWord,
     Getting, Giving, DeadGetting
<1>pending. PendingRight(t)'
  BY <1>1, <1>2, <1>3, <1>same, <1>case DEF PendingRight, Place, InCall, At, PlaceRight,
     LockOnly
<1>dead. DeadRight(t)'
  BY <1>1, <1>2, <1>3, <1>same, <1>case, Names DEF DeadRight, Place, At, InCall, PlaceRight,
     LockOnly
<1>mutexes. ASSUME NEW x \in Mutexes
            PROVE  TellRight(t, x)' /\ OwnerRight(t, x)' /\ CountRight(t, x)'
  <2>1. TellRight(t, x)'
    BY <1>1, <1>2, <1>3, <1>same, <1>case, Names DEF TellRight, Place, OnlyWord, HoldRight,
       Between, At, InCall, PlaceRight, Getting, Giving, DeadGetting, LockOnly
  <2>2. OwnerRight(t, x)'
    BY <1>1, <1>2, <1>3, <1>same, <1>case, Names DEF OwnerRight, Place, OnlyWord, HoldRight,
       Between, At, InCall, Getting, Giving, DeadGetting, LockOnly
  <2>3. CountRight(t, x)'
    BY <1>1, <1>2, <1>3, <1>same, <1>case, Names DEF CountRight, Place, OnlyWord, HoldRight,
       Between, At, InCall, Getting, Giving, DeadGetting, LockOnly
  <2> QED
    BY <2>1, <2>2, <2>3
<1>free. DiedFree'
  BY <1>1, <1>2, <1>3, <1>same, <1>case DEF CoreInv, DiedFree, OnlyWord, PlaceRight, At,
     LockOnly
<1>loss. LostRight'
  <2>1. LostRight
    BY DEF CoreInv
  <2>2. \A x \in lost' : /\ word'[x].tid = word[x].tid
                         /\ word[x].tid = Nobody /\ word[x].died => word'[x].died
                         /\ th[t].m = x /\ th[t].at \in DeadGetting
                              => th'[t].m = x /\ th'[t].at \in DeadGetting
    BY <1>1, <1>2, <1>3, <1>same, <1>case, Names DEF DeadGetting, Place, OnlyWord
  <2> QED
    BY <2>1, <2>2, <1>3, <1>same, <1>case, LossKept DEF OthersStay
<1>right. ThreadRight(t)'
  BY <1>place, <1>hold, <1>pending, <1>dead, <1>mutexes DEF ThreadRight
<1>calm. Others(t)
  BY <1>others DEF Others
<1>quiet. Quiet(t)
  <2>1. ASSUME NEW x \in Mutexes, stray' = {} PROVE Listed(t, x)' <=> Listed(t, x)
    BY <2>1, <1>1, <1>2, <1>3, <1>same, <1>case, Names DEF Listed, Off, Place, OnlyWord,
       HoldRight, Between, At, InCall, PlaceRight, DeadRight, Getting, Giving, DeadGetting,
       LockOnly, TypeOK, AllKinds
  <2>2. ASSUME NEW x \in Mutexes, owner'[x] # owner[x]
        PROVE  /\ word[x].tid = t
               /\ owner'[x] = NotRecoverable => At(t, "disown") /\ th[t].m = x
    BY <2>2, <1>same
  <2>3. /\ th[t].at \notin {"link", "dead_link"}
        /\ th'[t].at \notin {"link", "dead_link", "disown"}
    BY <1>1, <1>2, <1>3, <1>same, <1>case DEF Place
  <2> QED
    BY <2>1, <2>2, <2>3, <1>same, <1>2 DEF Quiet
<1> QED
  BY <1>types, <1>calm, <1>right, <1>free, <1>loss, OneSteps, <1>quiet

\* The kernel gives the word.
LEMMA TryKernelWonCore ==
    ASSUME CoreInv, NEW t \in Threads, TryKernel(t), kind[th[t].m].robust,
           word[th[t].m].tid = Nobody
    PROVE  CoreInv' /\ Others(t) /\ Quiet(t)
<1>1. TypeOK /\ th[t].at = "kernel" /\ InCall(t)
  BY DEF CoreInv, TryKernel, At, InCall
<1>2. /\ th[t].m \in Mutexes /\ t \notin dead /\ th[t].m # NULL
      /\ PlaceRight(t) /\ HoldRight(t) /\ PendingRight(t) /\ DeadRight(t)
      /\ \A x \in Mutexes : TellRight(t, x) /\ OwnerRight(t, x) /\ CountRight(t, x)
  BY <1>1, InCallIs
<1>word. kind[th[t].m].robust /\ kind[th[t].m].pi /\ word[th[t].m].tid = Nobody
  BY <1>1, <1>2 DEF PlaceRight, At
<1>known. depth[t][th[t].m] = 0
  BY <1>word, <1>1, <1>2, Names DEF TellRight, TypeOK
<1>3. /\ th' \in [Threads -> ThreadState] /\ OthersStay(t)
      /\ Place(t, IF word[th[t].m].died THEN "clear" ELSE "look", th[t].m, [word[th[t].m] EXCEPT !.tid = t], th[t].new)
  <2>1. th' = [th EXCEPT ![t].at = IF word[th[t].m].died THEN "clear" ELSE "look",
                         ![t].old = [word[th[t].m] EXCEPT !.tid = t]]
    BY <1>1 DEF TryKernel, TypeOK
  <2>2. [word[th[t].m] EXCEPT !.tid = t] \in Word
    <3>1. word[th[t].m] \in Word
      BY <1>1, <1>2 DEF TypeOK
    <3> QED
      BY <3>1 DEF Word
  <2>3. (IF word[th[t].m].died THEN "clear" ELSE "look") \in Places
    BY DEF Places, Getting, DeadGetting
  <2> QED
    BY <1>1, <2>1, <2>2, <2>3, SawIs
<1>same. /\ kind' = kind /\ owner' = owner /\ count' = count /\ nusers' = nusers
         /\ next' = next /\ prev' = prev /\ pending' = pending /\ depth' = depth
         /\ lost' = lost /\ stray' = stray /\ dead' = dead
  BY DEF TryKernel, fields, links, ghosts
<1>new1. /\ word' \in [Mutexes -> Word] /\ OnlyWord(th[t].m)
         /\ word'[th[t].m].tid = t /\ word'[th[t].m].died = word[th[t].m].died
  BY <1>1, <1>2, TakenIs DEF TryKernel
<1>new2. [word[th[t].m] EXCEPT !.tid = t].died = word[th[t].m].died
  BY <1>1, <1>2 DEF TypeOK, Word
<1>types. TypeOK'
  BY <1>1, <1>3, <1>same, <1>new1, <1>new2, <1>word, <1>known DEF TypeOK
<1>others. ASSUME NEW u \in Threads \ {t} PROVE Calm(u)
  <2>1. th'[u] = th[u] /\ dead' = dead
    BY <1>3, <1>same DEF OthersStay
  <2>2. pending'[u] = pending[u]
    BY <1>same
  <2>3. depth'[u] = depth[u]
    BY <1>same
  <2>4. ASSUME NEW x \in Mutexes
        PROVE  /\ word'[x].tid = u => word[x].tid = u
               /\ word[x].tid = u /\ u \notin dead
                    => /\ word'[x].tid = u /\ owner'[x] = owner[x]
                       /\ count'[x] = count[x] \/ owner[x] = NotRecoverable
               /\ owner'[x] = u => owner[x] = u
    BY <1>3, <1>same, <1>new1, <1>new2, <1>word, <1>known, <1>2, Names DEF OnlyWord
  <2> QED
    BY <2>1, <2>2, <2>3, <2>4, <1>same DEF Calm
<1>place. PlaceRight(t)'
  BY <1>1, <1>2, <1>3, <1>same, <1>new1, <1>new2, <1>word, <1>known, Names DEF PlaceRight,
     Place, InCall, At, Getting, Giving, DeadGetting, LockOnly
<1>hold. HoldRight(t)'
  BY <1>1, <1>2, <1>3, <1>same, <1>new1, <1>new2, <1>word, <1>known, Names DEF HoldRight,
     Place, Between, At, OnlyWord, Getting, Giving, DeadGetting
<1>pending. PendingRight(t)'
  BY <1>1, <1>2, <1>3, <1>same, <1>new1, <1>new2, <1>word, <1>known DEF PendingRight, Place,
     InCall, At, PlaceRight, LockOnly
<1>dead. DeadRight(t)'
  BY <1>1, <1>2, <1>3, <1>same, <1>new1, <1>new2, <1>word, <1>known, Names DEF DeadRight,
     Place, At, InCall, PlaceRight, LockOnly
<1>mutexes. ASSUME NEW x \in Mutexes
            PROVE  TellRight(t, x)' /\ OwnerRight(t, x)' /\ CountRight(t, x)'
  <2>1. TellRight(t, x)'
    BY <1>1, <1>2, <1>3, <1>same, <1>new1, <1>new2, <1>word, <1>known, Names DEF TellRight,
       Place, OnlyWord, HoldRight, Between, At, InCall, PlaceRight, Getting, Giving,
       DeadGetting, LockOnly
  <2>2. OwnerRight(t, x)'
    BY <1>1, <1>2, <1>3, <1>same, <1>new1, <1>new2, <1>word, <1>known, Names DEF OwnerRight,
       Place, OnlyWord, HoldRight, Between, At, InCall, Getting, Giving, DeadGetting,
       LockOnly
  <2>3. CountRight(t, x)'
    BY <1>1, <1>2, <1>3, <1>same, <1>new1, <1>new2, <1>word, <1>known, Names DEF CountRight,
       Place, OnlyWord, HoldRight, Between, At, InCall, Getting, Giving, DeadGetting,
       LockOnly
  <2> QED
    BY <2>1, <2>2, <2>3
<1>free. DiedFree'
  BY <1>1, <1>2, <1>3, <1>same, <1>new1, <1>new2, <1>word, <1>known DEF CoreInv, DiedFree,
     OnlyWord, PlaceRight, At, LockOnly
<1>loss. LostRight'
  <2>1. LostRight
    BY DEF CoreInv
  <2>2. th[t].m \in lost => /\ kind[th[t].m].robust
                           /\ \/ word[th[t].m].tid \in dead
                              \/ word[th[t].m].tid = Nobody /\ word[th[t].m].died
                              \/ \E v \in Threads : /\ word[th[t].m].tid = v
                                                    /\ th[v].m = th[t].m /\ th[v].at \in DeadGetting
    BY <2>1 DEF LostRight
  <2>3. dead \subseteq Threads /\ Nobody \notin Threads
    BY <1>1, Names DEF TypeOK
  <2>4. th[t].m \in lost
          => word'[th[t].m].tid = t /\ th'[t].m = th[t].m /\ th'[t].at \in DeadGetting
    BY <2>2, <2>3, <1>1, <1>2, <1>3, <1>same, <1>new1, <1>new2, <1>word, <1>known DEF Place,
       DeadGetting, PlaceRight, LockOnly
  <2> QED
    BY <2>1, <2>4, <1>3, <1>same, <1>new1, <1>new2, <1>word, <1>known, <1>1, LossTaken
<1>right. ThreadRight(t)'
  BY <1>place, <1>hold, <1>pending, <1>dead, <1>mutexes DEF ThreadRight
<1>calm. Others(t)
  BY <1>others DEF Others
<1>quiet. Quiet(t)
  <2>1. ASSUME NEW x \in Mutexes, stray' = {} PROVE Listed(t, x)' <=> Listed(t, x)
    BY <2>1, <1>1, <1>2, <1>3, <1>same, <1>new1, <1>new2, <1>word, <1>known, Names
       DEF Listed, Off, Place, OnlyWord, HoldRight, Between, At, InCall, PlaceRight,
       DeadRight, Getting, Giving, DeadGetting, LockOnly, TypeOK, AllKinds
  <2>2. ASSUME NEW x \in Mutexes, owner'[x] # owner[x]
        PROVE  /\ word[x].tid = t
               /\ owner'[x] = NotRecoverable => At(t, "disown") /\ th[t].m = x
    BY <2>2, <1>same
  <2>3. /\ th[t].at \notin {"link", "dead_link"}
        /\ th'[t].at \notin {"link", "dead_link", "disown"}
    BY <1>1, <1>2, <1>3, <1>same, <1>new1, <1>new2, <1>word, <1>known DEF Place
  <2> QED
    BY <2>1, <2>2, <2>3, <1>same, <1>2 DEF Quiet
<1> QED
  BY <1>types, <1>calm, <1>right, <1>free, <1>loss, OneSteps, <1>quiet

\* The kernel does not give it.
LEMMA TryKernelBusyCore ==
    ASSUME CoreInv, NEW t \in Threads, TryKernel(t), kind[th[t].m].robust,
           word[th[t].m].tid # Nobody
    PROVE  CoreInv' /\ Others(t) /\ Quiet(t)
<1>1. TypeOK /\ th[t].at = "kernel" /\ InCall(t)
  BY DEF CoreInv, TryKernel, At, InCall
<1>2. /\ th[t].m \in Mutexes /\ t \notin dead /\ th[t].m # NULL
      /\ PlaceRight(t) /\ HoldRight(t) /\ PendingRight(t) /\ DeadRight(t)
      /\ \A x \in Mutexes : TellRight(t, x) /\ OwnerRight(t, x) /\ CountRight(t, x)
  BY <1>1, InCallIs
<1>3. /\ th' \in [Threads -> ThreadState] /\ OthersStay(t)
      /\ Place(t, "busy", th[t].m, th[t].old, th[t].new)
  BY <1>1, GotoIs DEF TryKernel, Places
<1>same. /\ kind' = kind /\ word' = word /\ owner' = owner /\ count' = count
         /\ nusers' = nusers /\ next' = next /\ prev' = prev /\ pending' = pending
         /\ depth' = depth /\ lost' = lost /\ stray' = stray /\ dead' = dead
  BY DEF TryKernel, fields, links, ghosts
<1>types. TypeOK'
  BY <1>1, <1>3, <1>same DEF TypeOK
<1>others. ASSUME NEW u \in Threads \ {t} PROVE Calm(u)
  <2>1. th'[u] = th[u] /\ dead' = dead
    BY <1>3, <1>same DEF OthersStay
  <2>2. pending'[u] = pending[u]
    BY <1>same
  <2>3. depth'[u] = depth[u]
    BY <1>same
  <2>4. ASSUME NEW x \in Mutexes
        PROVE  /\ word'[x].tid = u => word[x].tid = u
               /\ word[x].tid = u /\ u \notin dead
                    => /\ word'[x].tid = u /\ owner'[x] = owner[x]
                       /\ count'[x] = count[x] \/ owner[x] = NotRecoverable
               /\ owner'[x] = u => owner[x] = u
    BY <1>3, <1>same, <1>2, Names DEF OnlyWord
  <2> QED
    BY <2>1, <2>2, <2>3, <2>4, <1>same DEF Calm
<1>place. PlaceRight(t)'
  BY <1>1, <1>2, <1>3, <1>same, Names DEF PlaceRight, Place, InCall, At, Getting, Giving,
     DeadGetting, LockOnly
<1>hold. HoldRight(t)'
  BY <1>1, <1>2, <1>3, <1>same, Names DEF HoldRight, Place, Between, At, OnlyWord, Getting,
     Giving, DeadGetting
<1>pending. PendingRight(t)'
  BY <1>1, <1>2, <1>3, <1>same DEF PendingRight, Place, InCall, At, PlaceRight, LockOnly
<1>dead. DeadRight(t)'
  BY <1>1, <1>2, <1>3, <1>same, Names DEF DeadRight, Place, At, InCall, PlaceRight, LockOnly
<1>mutexes. ASSUME NEW x \in Mutexes
            PROVE  TellRight(t, x)' /\ OwnerRight(t, x)' /\ CountRight(t, x)'
  <2>1. TellRight(t, x)'
    BY <1>1, <1>2, <1>3, <1>same, Names DEF TellRight, Place, OnlyWord, HoldRight, Between,
       At, InCall, PlaceRight, Getting, Giving, DeadGetting, LockOnly
  <2>2. OwnerRight(t, x)'
    BY <1>1, <1>2, <1>3, <1>same, Names DEF OwnerRight, Place, OnlyWord, HoldRight, Between,
       At, InCall, Getting, Giving, DeadGetting, LockOnly
  <2>3. CountRight(t, x)'
    BY <1>1, <1>2, <1>3, <1>same, Names DEF CountRight, Place, OnlyWord, HoldRight, Between,
       At, InCall, Getting, Giving, DeadGetting, LockOnly
  <2> QED
    BY <2>1, <2>2, <2>3
<1>free. DiedFree'
  BY <1>1, <1>2, <1>3, <1>same DEF CoreInv, DiedFree, OnlyWord, PlaceRight, At, LockOnly
<1>loss. LostRight'
  <2>1. LostRight
    BY DEF CoreInv
  <2>2. \A x \in lost' : /\ word'[x].tid = word[x].tid
                         /\ word[x].tid = Nobody /\ word[x].died => word'[x].died
                         /\ th[t].m = x /\ th[t].at \in DeadGetting
                              => th'[t].m = x /\ th'[t].at \in DeadGetting
    BY <1>1, <1>2, <1>3, <1>same, Names DEF DeadGetting, Place, OnlyWord
  <2> QED
    BY <2>1, <2>2, <1>3, <1>same, LossKept DEF OthersStay
<1>right. ThreadRight(t)'
  BY <1>place, <1>hold, <1>pending, <1>dead, <1>mutexes DEF ThreadRight
<1>calm. Others(t)
  BY <1>others DEF Others
<1>quiet. Quiet(t)
  <2>1. ASSUME NEW x \in Mutexes, stray' = {} PROVE Listed(t, x)' <=> Listed(t, x)
    BY <2>1, <1>1, <1>2, <1>3, <1>same, Names DEF Listed, Off, Place, OnlyWord, HoldRight,
       Between, At, InCall, PlaceRight, DeadRight, Getting, Giving, DeadGetting, LockOnly,
       TypeOK, AllKinds
  <2>2. ASSUME NEW x \in Mutexes, owner'[x] # owner[x]
        PROVE  /\ word[x].tid = t
               /\ owner'[x] = NotRecoverable => At(t, "disown") /\ th[t].m = x
    BY <2>2, <1>same
  <2>3. /\ th[t].at \notin {"link", "dead_link"}
        /\ th'[t].at \notin {"link", "dead_link", "disown"}
    BY <1>1, <1>2, <1>3, <1>same DEF Place
  <2> QED
    BY <2>1, <2>2, <2>3, <1>same, <1>2 DEF Quiet
<1> QED
  BY <1>types, <1>calm, <1>right, <1>free, <1>loss, OneSteps, <1>quiet

\* The mutex is unrecoverable.
LEMMA LookUnrecoverableCore ==
    ASSUME CoreInv, NEW t \in Threads, Look(t), owner[th[t].m] = NotRecoverable
    PROVE  CoreInv' /\ Others(t) /\ Quiet(t)
<1>1. TypeOK /\ th[t].at = "look" /\ InCall(t)
  BY DEF CoreInv, Look, At, InCall
<1>2. /\ th[t].m \in Mutexes /\ t \notin dead /\ th[t].m # NULL
      /\ PlaceRight(t) /\ HoldRight(t) /\ PendingRight(t) /\ DeadRight(t)
      /\ \A x \in Mutexes : TellRight(t, x) /\ OwnerRight(t, x) /\ CountRight(t, x)
  BY <1>1, InCallIs
<1>known. owner[th[t].m] = NotRecoverable
  OBVIOUS
<1>3. /\ th' \in [Threads -> ThreadState] /\ OthersStay(t)
      /\ Place(t, "busy", th[t].m, th[t].old, th[t].new)
  BY <1>1, GotoIs DEF Look, Places
<1>same. /\ kind' = kind /\ word' = word /\ owner' = owner /\ nusers' = nusers
         /\ next' = next /\ prev' = prev /\ pending' = pending /\ depth' = depth
         /\ lost' = lost /\ stray' = stray /\ dead' = dead
  BY DEF Look, fields, links, ghosts
<1>new1. /\ count' \in [Mutexes -> 0 .. CountMod - 1] /\ count'[th[t].m] = 0
         /\ \A x \in Mutexes \ {th[t].m} : count'[x] = count[x]
  BY <1>1, <1>2, BoundsAssumption DEF Look, TypeOK
<1>types. TypeOK'
  BY <1>1, <1>3, <1>same, <1>new1, <1>known DEF TypeOK
<1>others. ASSUME NEW u \in Threads \ {t} PROVE Calm(u)
  <2>1. th'[u] = th[u] /\ dead' = dead
    BY <1>3, <1>same DEF OthersStay
  <2>2. pending'[u] = pending[u]
    BY <1>same
  <2>3. depth'[u] = depth[u]
    BY <1>same
  <2>4. ASSUME NEW x \in Mutexes
        PROVE  /\ word'[x].tid = u => word[x].tid = u
               /\ word[x].tid = u /\ u \notin dead
                    => /\ word'[x].tid = u /\ owner'[x] = owner[x]
                       /\ count'[x] = count[x] \/ owner[x] = NotRecoverable
               /\ owner'[x] = u => owner[x] = u
    BY <1>3, <1>same, <1>new1, <1>known, <1>2, Names DEF OnlyWord
  <2> QED
    BY <2>1, <2>2, <2>3, <2>4, <1>same DEF Calm
<1>place. PlaceRight(t)'
  BY <1>1, <1>2, <1>3, <1>same, <1>new1, <1>known, Names DEF PlaceRight, Place, InCall, At,
     Getting, Giving, DeadGetting, LockOnly
<1>hold. HoldRight(t)'
  BY <1>1, <1>2, <1>3, <1>same, <1>new1, <1>known, Names DEF HoldRight, Place, Between, At,
     OnlyWord, Getting, Giving, DeadGetting
<1>pending. PendingRight(t)'
  BY <1>1, <1>2, <1>3, <1>same, <1>new1, <1>known DEF PendingRight, Place, InCall, At,
     PlaceRight, LockOnly
<1>dead. DeadRight(t)'
  BY <1>1, <1>2, <1>3, <1>same, <1>new1, <1>known, Names DEF DeadRight, Place, At, InCall,
     PlaceRight, LockOnly
<1>mutexes. ASSUME NEW x \in Mutexes
            PROVE  TellRight(t, x)' /\ OwnerRight(t, x)' /\ CountRight(t, x)'
  <2>1. TellRight(t, x)'
    BY <1>1, <1>2, <1>3, <1>same, <1>new1, <1>known, Names DEF TellRight, Place, OnlyWord,
       HoldRight, Between, At, InCall, PlaceRight, Getting, Giving, DeadGetting, LockOnly
  <2>2. OwnerRight(t, x)'
    BY <1>1, <1>2, <1>3, <1>same, <1>new1, <1>known, Names DEF OwnerRight, Place, OnlyWord,
       HoldRight, Between, At, InCall, Getting, Giving, DeadGetting, LockOnly
  <2>3. CountRight(t, x)'
    BY <1>1, <1>2, <1>3, <1>same, <1>new1, <1>known, Names DEF CountRight, Place, OnlyWord,
       HoldRight, Between, At, InCall, Getting, Giving, DeadGetting, LockOnly
  <2> QED
    BY <2>1, <2>2, <2>3
<1>free. DiedFree'
  BY <1>1, <1>2, <1>3, <1>same, <1>new1, <1>known DEF CoreInv, DiedFree, OnlyWord,
     PlaceRight, At, LockOnly
<1>loss. LostRight'
  <2>1. LostRight
    BY DEF CoreInv
  <2>2. \A x \in lost' : /\ word'[x].tid = word[x].tid
                         /\ word[x].tid = Nobody /\ word[x].died => word'[x].died
                         /\ th[t].m = x /\ th[t].at \in DeadGetting
                              => th'[t].m = x /\ th'[t].at \in DeadGetting
    BY <1>1, <1>2, <1>3, <1>same, <1>new1, <1>known, Names DEF DeadGetting, Place, OnlyWord
  <2> QED
    BY <2>1, <2>2, <1>3, <1>same, <1>new1, <1>known, LossKept DEF OthersStay
<1>right. ThreadRight(t)'
  BY <1>place, <1>hold, <1>pending, <1>dead, <1>mutexes DEF ThreadRight
<1>calm. Others(t)
  BY <1>others DEF Others
<1>quiet. Quiet(t)
  <2>1. ASSUME NEW x \in Mutexes, stray' = {} PROVE Listed(t, x)' <=> Listed(t, x)
    BY <2>1, <1>1, <1>2, <1>3, <1>same, <1>new1, <1>known, Names DEF Listed, Off, Place,
       OnlyWord, HoldRight, Between, At, InCall, PlaceRight, DeadRight, Getting, Giving,
       DeadGetting, LockOnly, TypeOK, AllKinds
  <2>2. ASSUME NEW x \in Mutexes, owner'[x] # owner[x]
        PROVE  /\ word[x].tid = t
               /\ owner'[x] = NotRecoverable => At(t, "disown") /\ th[t].m = x
    BY <2>2, <1>same
  <2>3. /\ th[t].at \notin {"link", "dead_link"}
        /\ th'[t].at \notin {"link", "dead_link", "disown"}
    BY <1>1, <1>2, <1>3, <1>same, <1>new1, <1>known DEF Place
  <2> QED
    BY <2>1, <2>2, <2>3, <1>same, <1>2 DEF Quiet
<1> QED
  BY <1>types, <1>calm, <1>right, <1>free, <1>loss, OneSteps, <1>quiet

\* The owner had died: once more round the loop.
LEMMA LookDiedCore ==
    ASSUME CoreInv, NEW t \in Threads, Look(t), owner[th[t].m] # NotRecoverable,
           th[t].old.died
    PROVE  CoreInv' /\ Others(t) /\ Quiet(t)
<1>1. TypeOK /\ th[t].at = "look" /\ InCall(t)
  BY DEF CoreInv, Look, At, InCall
<1>2. /\ th[t].m \in Mutexes /\ t \notin dead /\ th[t].m # NULL
      /\ PlaceRight(t) /\ HoldRight(t) /\ PendingRight(t) /\ DeadRight(t)
      /\ \A x \in Mutexes : TellRight(t, x) /\ OwnerRight(t, x) /\ CountRight(t, x)
  BY <1>1, InCallIs
<1>known. word[th[t].m].tid # t /\ ~kind[th[t].m].pi /\ th[t].old.died
  BY <1>1, <1>2 DEF PlaceRight, At
<1>3. /\ th' \in [Threads -> ThreadState] /\ OthersStay(t)
      /\ Place(t, "again", th[t].m, th[t].old, th[t].new)
  BY <1>1, GotoIs DEF Look, Places
<1>same. /\ kind' = kind /\ word' = word /\ owner' = owner /\ count' = count
         /\ nusers' = nusers /\ next' = next /\ prev' = prev /\ pending' = pending
         /\ depth' = depth /\ lost' = lost /\ stray' = stray /\ dead' = dead
  BY DEF Look, fields, links, ghosts
<1>types. TypeOK'
  BY <1>1, <1>3, <1>same, <1>known DEF TypeOK
<1>others. ASSUME NEW u \in Threads \ {t} PROVE Calm(u)
  <2>1. th'[u] = th[u] /\ dead' = dead
    BY <1>3, <1>same DEF OthersStay
  <2>2. pending'[u] = pending[u]
    BY <1>same
  <2>3. depth'[u] = depth[u]
    BY <1>same
  <2>4. ASSUME NEW x \in Mutexes
        PROVE  /\ word'[x].tid = u => word[x].tid = u
               /\ word[x].tid = u /\ u \notin dead
                    => /\ word'[x].tid = u /\ owner'[x] = owner[x]
                       /\ count'[x] = count[x] \/ owner[x] = NotRecoverable
               /\ owner'[x] = u => owner[x] = u
    BY <1>3, <1>same, <1>known, <1>2, Names DEF OnlyWord
  <2> QED
    BY <2>1, <2>2, <2>3, <2>4, <1>same DEF Calm
<1>place. PlaceRight(t)'
  BY <1>1, <1>2, <1>3, <1>same, <1>known, Names DEF PlaceRight, Place, InCall, At, Getting,
     Giving, DeadGetting, LockOnly
<1>hold. HoldRight(t)'
  BY <1>1, <1>2, <1>3, <1>same, <1>known, Names DEF HoldRight, Place, Between, At, OnlyWord,
     Getting, Giving, DeadGetting
<1>pending. PendingRight(t)'
  BY <1>1, <1>2, <1>3, <1>same, <1>known DEF PendingRight, Place, InCall, At, PlaceRight,
     LockOnly
<1>dead. DeadRight(t)'
  BY <1>1, <1>2, <1>3, <1>same, <1>known, Names DEF DeadRight, Place, At, InCall,
     PlaceRight, LockOnly
<1>mutexes. ASSUME NEW x \in Mutexes
            PROVE  TellRight(t, x)' /\ OwnerRight(t, x)' /\ CountRight(t, x)'
  <2>1. TellRight(t, x)'
    BY <1>1, <1>2, <1>3, <1>same, <1>known, Names DEF TellRight, Place, OnlyWord, HoldRight,
       Between, At, InCall, PlaceRight, Getting, Giving, DeadGetting, LockOnly
  <2>2. OwnerRight(t, x)'
    BY <1>1, <1>2, <1>3, <1>same, <1>known, Names DEF OwnerRight, Place, OnlyWord,
       HoldRight, Between, At, InCall, Getting, Giving, DeadGetting, LockOnly
  <2>3. CountRight(t, x)'
    BY <1>1, <1>2, <1>3, <1>same, <1>known, Names DEF CountRight, Place, OnlyWord,
       HoldRight, Between, At, InCall, Getting, Giving, DeadGetting, LockOnly
  <2> QED
    BY <2>1, <2>2, <2>3
<1>free. DiedFree'
  BY <1>1, <1>2, <1>3, <1>same, <1>known DEF CoreInv, DiedFree, OnlyWord, PlaceRight, At,
     LockOnly
<1>loss. LostRight'
  <2>1. LostRight
    BY DEF CoreInv
  <2>2. \A x \in lost' : /\ word'[x].tid = word[x].tid
                         /\ word[x].tid = Nobody /\ word[x].died => word'[x].died
                         /\ th[t].m = x /\ th[t].at \in DeadGetting
                              => th'[t].m = x /\ th'[t].at \in DeadGetting
    BY <1>1, <1>2, <1>3, <1>same, <1>known, Names DEF DeadGetting, Place, OnlyWord
  <2> QED
    BY <2>1, <2>2, <1>3, <1>same, <1>known, LossKept DEF OthersStay
<1>right. ThreadRight(t)'
  BY <1>place, <1>hold, <1>pending, <1>dead, <1>mutexes DEF ThreadRight
<1>calm. Others(t)
  BY <1>others DEF Others
<1>quiet. Quiet(t)
  <2>1. ASSUME NEW x \in Mutexes, stray' = {} PROVE Listed(t, x)' <=> Listed(t, x)
    BY <2>1, <1>1, <1>2, <1>3, <1>same, <1>known, Names DEF Listed, Off, Place, OnlyWord,
       HoldRight, Between, At, InCall, PlaceRight, DeadRight, Getting, Giving, DeadGetting,
       LockOnly, TypeOK, AllKinds
  <2>2. ASSUME NEW x \in Mutexes, owner'[x] # owner[x]
        PROVE  /\ word[x].tid = t
               /\ owner'[x] = NotRecoverable => At(t, "disown") /\ th[t].m = x
    BY <2>2, <1>same
  <2>3. /\ th[t].at \notin {"link", "dead_link"}
        /\ th'[t].at \notin {"link", "dead_link", "disown"}
    BY <1>1, <1>2, <1>3, <1>same, <1>known DEF Place
  <2> QED
    BY <2>1, <2>2, <2>3, <1>same, <1>2 DEF Quiet
<1> QED
  BY <1>types, <1>calm, <1>right, <1>free, <1>loss, OneSteps, <1>quiet

\* The thread has the mutex.
LEMMA LookWonCore ==
    ASSUME CoreInv, NEW t \in Threads, Look(t), owner[th[t].m] # NotRecoverable,
           ~th[t].old.died
    PROVE  CoreInv' /\ Others(t) /\ Quiet(t)
<1>1. TypeOK /\ th[t].at = "look" /\ InCall(t)
  BY DEF CoreInv, Look, At, InCall
<1>2. /\ th[t].m \in Mutexes /\ t \notin dead /\ th[t].m # NULL
      /\ PlaceRight(t) /\ HoldRight(t) /\ PendingRight(t) /\ DeadRight(t)
      /\ \A x \in Mutexes : TellRight(t, x) /\ OwnerRight(t, x) /\ CountRight(t, x)
  BY <1>1, InCallIs
<1>case. owner[th[t].m] # NotRecoverable
  OBVIOUS
<1>known. word[th[t].m].tid = t /\ depth[t][th[t].m] = 0
  BY <1>1, <1>2 DEF HoldRight, Between, At
<1>3. /\ th' \in [Threads -> ThreadState] /\ OthersStay(t)
      /\ Place(t, IF kind[th[t].m].robust THEN "prepare" ELSE "record", th[t].m, th[t].old, th[t].new)
  BY <1>1, GotoIs DEF Look, Places, Getting
<1>same. /\ kind' = kind /\ word' = word /\ owner' = owner /\ count' = count
         /\ nusers' = nusers /\ next' = next /\ prev' = prev /\ pending' = pending
         /\ depth' = depth /\ lost' = lost /\ stray' = stray /\ dead' = dead
  BY DEF Look, fields, links, ghosts
<1>types. TypeOK'
  BY <1>1, <1>3, <1>same, <1>case, <1>known DEF TypeOK
<1>others. ASSUME NEW u \in Threads \ {t} PROVE Calm(u)
  <2>1. th'[u] = th[u] /\ dead' = dead
    BY <1>3, <1>same DEF OthersStay
  <2>2. pending'[u] = pending[u]
    BY <1>same
  <2>3. depth'[u] = depth[u]
    BY <1>same
  <2>4. ASSUME NEW x \in Mutexes
        PROVE  /\ word'[x].tid = u => word[x].tid = u
               /\ word[x].tid = u /\ u \notin dead
                    => /\ word'[x].tid = u /\ owner'[x] = owner[x]
                       /\ count'[x] = count[x] \/ owner[x] = NotRecoverable
               /\ owner'[x] = u => owner[x] = u
    BY <1>3, <1>same, <1>case, <1>known, <1>2, Names DEF OnlyWord
  <2> QED
    BY <2>1, <2>2, <2>3, <2>4, <1>same DEF Calm
<1>place. PlaceRight(t)'
  BY <1>1, <1>2, <1>3, <1>same, <1>case, <1>known, Names DEF PlaceRight, Place, InCall, At,
     Getting, Giving, DeadGetting, LockOnly
<1>hold. HoldRight(t)'
  BY <1>1, <1>2, <1>3, <1>same, <1>case, <1>known, Names DEF HoldRight, Place, Between, At,
     OnlyWord, Getting, Giving, DeadGetting
<1>pending. PendingRight(t)'
  BY <1>1, <1>2, <1>3, <1>same, <1>case, <1>known DEF PendingRight, Place, InCall, At,
     PlaceRight, LockOnly
<1>dead. DeadRight(t)'
  BY <1>1, <1>2, <1>3, <1>same, <1>case, <1>known, Names DEF DeadRight, Place, At, InCall,
     PlaceRight, LockOnly
<1>mutexes. ASSUME NEW x \in Mutexes
            PROVE  TellRight(t, x)' /\ OwnerRight(t, x)' /\ CountRight(t, x)'
  <2>1. TellRight(t, x)'
    BY <1>1, <1>2, <1>3, <1>same, <1>case, <1>known, Names DEF TellRight, Place, OnlyWord,
       HoldRight, Between, At, InCall, PlaceRight, Getting, Giving, DeadGetting, LockOnly
  <2>2. OwnerRight(t, x)'
    BY <1>1, <1>2, <1>3, <1>same, <1>case, <1>known, Names DEF OwnerRight, Place, OnlyWord,
       HoldRight, Between, At, InCall, Getting, Giving, DeadGetting, LockOnly
  <2>3. CountRight(t, x)'
    BY <1>1, <1>2, <1>3, <1>same, <1>case, <1>known, Names DEF CountRight, Place, OnlyWord,
       HoldRight, Between, At, InCall, Getting, Giving, DeadGetting, LockOnly
  <2> QED
    BY <2>1, <2>2, <2>3
<1>free. DiedFree'
  BY <1>1, <1>2, <1>3, <1>same, <1>case, <1>known DEF CoreInv, DiedFree, OnlyWord,
     PlaceRight, At, LockOnly
<1>loss. LostRight'
  <2>1. LostRight
    BY DEF CoreInv
  <2>2. \A x \in lost' : /\ word'[x].tid = word[x].tid
                         /\ word[x].tid = Nobody /\ word[x].died => word'[x].died
                         /\ th[t].m = x /\ th[t].at \in DeadGetting
                              => th'[t].m = x /\ th'[t].at \in DeadGetting
    BY <1>1, <1>2, <1>3, <1>same, <1>case, <1>known, Names DEF DeadGetting, Place, OnlyWord
  <2> QED
    BY <2>1, <2>2, <1>3, <1>same, <1>case, <1>known, LossKept DEF OthersStay
<1>right. ThreadRight(t)'
  BY <1>place, <1>hold, <1>pending, <1>dead, <1>mutexes DEF ThreadRight
<1>calm. Others(t)
  BY <1>others DEF Others
<1>quiet. Quiet(t)
  <2>1. ASSUME NEW x \in Mutexes, stray' = {} PROVE Listed(t, x)' <=> Listed(t, x)
    BY <2>1, <1>1, <1>2, <1>3, <1>same, <1>case, <1>known, Names DEF Listed, Off, Place,
       OnlyWord, HoldRight, Between, At, InCall, PlaceRight, DeadRight, Getting, Giving,
       DeadGetting, LockOnly, TypeOK, AllKinds
  <2>2. ASSUME NEW x \in Mutexes, owner'[x] # owner[x]
        PROVE  /\ word[x].tid = t
               /\ owner'[x] = NotRecoverable => At(t, "disown") /\ th[t].m = x
    BY <2>2, <1>same
  <2>3. /\ th[t].at \notin {"link", "dead_link"}
        /\ th'[t].at \notin {"link", "dead_link", "disown"}
    BY <1>1, <1>2, <1>3, <1>same, <1>case, <1>known DEF Place
  <2> QED
    BY <2>1, <2>2, <2>3, <1>same, <1>2 DEF Quiet
<1> QED
  BY <1>types, <1>calm, <1>right, <1>free, <1>loss, OneSteps, <1>quiet

\* The links of the mutex.
LEMMA PrepareCore ==
    ASSUME CoreInv, NEW t \in Threads, Prepare(t, "prepare", "link")
    PROVE  CoreInv' /\ Others(t)
<1>1. TypeOK /\ th[t].at = "prepare" /\ InCall(t)
  BY DEF CoreInv, Prepare, At, InCall
<1>2. /\ th[t].m \in Mutexes /\ t \notin dead /\ th[t].m # NULL
      /\ PlaceRight(t) /\ HoldRight(t) /\ PendingRight(t) /\ DeadRight(t)
      /\ \A x \in Mutexes : TellRight(t, x) /\ OwnerRight(t, x) /\ CountRight(t, x)
  BY <1>1, InCallIs
<1>known. word[th[t].m].tid = t /\ depth[t][th[t].m] = 0
  BY <1>1, <1>2 DEF HoldRight, Between, Getting, Giving, DeadGetting
<1>3. /\ th' \in [Threads -> ThreadState] /\ OthersStay(t)
      /\ Place(t, "link", th[t].m, th[t].old, th[t].new)
  BY <1>1, GotoIs DEF Prepare, Places, Getting, Giving, DeadGetting, LockOnly
<1>same. /\ kind' = kind /\ word' = word /\ owner' = owner /\ count' = count
         /\ nusers' = nusers /\ pending' = pending /\ depth' = depth /\ lost' = lost
         /\ stray' = stray /\ dead' = dead
  BY DEF Prepare, fields, links, ghosts
<1>new1. next' \in [Nodes -> Nodes \cup {NULL}]
  BY <1>1, <1>2 DEF Prepare, TypeOK, Nodes
<1>new2. prev' \in [Nodes -> Nodes \cup {NULL}]
  BY <1>1, <1>2 DEF Prepare, TypeOK, Nodes
<1>types. TypeOK'
  BY <1>1, <1>3, <1>same, <1>new1, <1>new2, <1>known DEF TypeOK
<1>others. ASSUME NEW u \in Threads \ {t} PROVE Calm(u)
  <2>1. th'[u] = th[u] /\ dead' = dead
    BY <1>3, <1>same DEF OthersStay
  <2>2. pending'[u] = pending[u]
    BY <1>same
  <2>3. depth'[u] = depth[u]
    BY <1>same
  <2>4. ASSUME NEW x \in Mutexes
        PROVE  /\ word'[x].tid = u => word[x].tid = u
               /\ word[x].tid = u /\ u \notin dead
                    => /\ word'[x].tid = u /\ owner'[x] = owner[x]
                       /\ count'[x] = count[x] \/ owner[x] = NotRecoverable
               /\ owner'[x] = u => owner[x] = u
    BY <1>3, <1>same, <1>new1, <1>new2, <1>known, <1>2, Names DEF OnlyWord
  <2> QED
    BY <2>1, <2>2, <2>3, <2>4, <1>same DEF Calm
<1>place. PlaceRight(t)'
  BY <1>1, <1>2, <1>3, <1>same, <1>new1, <1>new2, <1>known, Names DEF PlaceRight, Place,
     InCall, At, Getting, Giving, DeadGetting, LockOnly
<1>hold. HoldRight(t)'
  BY <1>1, <1>2, <1>3, <1>same, <1>new1, <1>new2, <1>known, Names DEF HoldRight, Place,
     Between, At, OnlyWord, Getting, Giving, DeadGetting
<1>pending. PendingRight(t)'
  BY <1>1, <1>2, <1>3, <1>same, <1>new1, <1>new2, <1>known DEF PendingRight, Place, InCall,
     At, PlaceRight, LockOnly
<1>dead. DeadRight(t)'
  BY <1>1, <1>2, <1>3, <1>same, <1>new1, <1>new2, <1>known, Names DEF DeadRight, Place, At,
     InCall, PlaceRight, LockOnly
<1>mutexes. ASSUME NEW x \in Mutexes
            PROVE  TellRight(t, x)' /\ OwnerRight(t, x)' /\ CountRight(t, x)'
  <2>1. TellRight(t, x)'
    BY <1>1, <1>2, <1>3, <1>same, <1>new1, <1>new2, <1>known, Names DEF TellRight, Place,
       OnlyWord, HoldRight, Between, At, InCall, PlaceRight, Getting, Giving, DeadGetting,
       LockOnly
  <2>2. OwnerRight(t, x)'
    BY <1>1, <1>2, <1>3, <1>same, <1>new1, <1>new2, <1>known, Names DEF OwnerRight, Place,
       OnlyWord, HoldRight, Between, At, InCall, Getting, Giving, DeadGetting, LockOnly
  <2>3. CountRight(t, x)'
    BY <1>1, <1>2, <1>3, <1>same, <1>new1, <1>new2, <1>known, Names DEF CountRight, Place,
       OnlyWord, HoldRight, Between, At, InCall, Getting, Giving, DeadGetting, LockOnly
  <2> QED
    BY <2>1, <2>2, <2>3
<1>free. DiedFree'
  BY <1>1, <1>2, <1>3, <1>same, <1>new1, <1>new2, <1>known DEF CoreInv, DiedFree, OnlyWord,
     PlaceRight, At, LockOnly
<1>loss. LostRight'
  <2>1. LostRight
    BY DEF CoreInv
  <2>2. \A x \in lost' : /\ word'[x].tid = word[x].tid
                         /\ word[x].tid = Nobody /\ word[x].died => word'[x].died
                         /\ th[t].m = x /\ th[t].at \in DeadGetting
                              => th'[t].m = x /\ th'[t].at \in DeadGetting
    BY <1>1, <1>2, <1>3, <1>same, <1>new1, <1>new2, <1>known, Names DEF DeadGetting, Place,
       OnlyWord
  <2> QED
    BY <2>1, <2>2, <1>3, <1>same, <1>new1, <1>new2, <1>known, LossKept DEF OthersStay
<1>right. ThreadRight(t)'
  BY <1>place, <1>hold, <1>pending, <1>dead, <1>mutexes DEF ThreadRight
<1>calm. Others(t)
  BY <1>others DEF Others
<1> QED
  BY <1>types, <1>calm, <1>right, <1>free, <1>loss, OneSteps

\* The links of the mutex.
LEMMA PrepareDeadCore ==
    ASSUME CoreInv, NEW t \in Threads, Prepare(t, "dead_prepare", "dead_link")
    PROVE  CoreInv' /\ Others(t)
<1>1. TypeOK /\ th[t].at = "dead_prepare" /\ InCall(t)
  BY DEF CoreInv, Prepare, At, InCall
<1>2. /\ th[t].m \in Mutexes /\ t \notin dead /\ th[t].m # NULL
      /\ PlaceRight(t) /\ HoldRight(t) /\ PendingRight(t) /\ DeadRight(t)
      /\ \A x \in Mutexes : TellRight(t, x) /\ OwnerRight(t, x) /\ CountRight(t, x)
  BY <1>1, InCallIs
<1>known. word[th[t].m].tid = t /\ depth[t][th[t].m] = 0
  BY <1>1, <1>2 DEF HoldRight, Between, Getting, Giving, DeadGetting
<1>3. /\ th' \in [Threads -> ThreadState] /\ OthersStay(t)
      /\ Place(t, "dead_link", th[t].m, th[t].old, th[t].new)
  BY <1>1, GotoIs DEF Prepare, Places, Getting, Giving, DeadGetting, LockOnly
<1>same. /\ kind' = kind /\ word' = word /\ owner' = owner /\ count' = count
         /\ nusers' = nusers /\ pending' = pending /\ depth' = depth /\ lost' = lost
         /\ stray' = stray /\ dead' = dead
  BY DEF Prepare, fields, links, ghosts
<1>new1. next' \in [Nodes -> Nodes \cup {NULL}]
  BY <1>1, <1>2 DEF Prepare, TypeOK, Nodes
<1>new2. prev' \in [Nodes -> Nodes \cup {NULL}]
  BY <1>1, <1>2 DEF Prepare, TypeOK, Nodes
<1>types. TypeOK'
  BY <1>1, <1>3, <1>same, <1>new1, <1>new2, <1>known DEF TypeOK
<1>others. ASSUME NEW u \in Threads \ {t} PROVE Calm(u)
  <2>1. th'[u] = th[u] /\ dead' = dead
    BY <1>3, <1>same DEF OthersStay
  <2>2. pending'[u] = pending[u]
    BY <1>same
  <2>3. depth'[u] = depth[u]
    BY <1>same
  <2>4. ASSUME NEW x \in Mutexes
        PROVE  /\ word'[x].tid = u => word[x].tid = u
               /\ word[x].tid = u /\ u \notin dead
                    => /\ word'[x].tid = u /\ owner'[x] = owner[x]
                       /\ count'[x] = count[x] \/ owner[x] = NotRecoverable
               /\ owner'[x] = u => owner[x] = u
    BY <1>3, <1>same, <1>new1, <1>new2, <1>known, <1>2, Names DEF OnlyWord
  <2> QED
    BY <2>1, <2>2, <2>3, <2>4, <1>same DEF Calm
<1>place. PlaceRight(t)'
  BY <1>1, <1>2, <1>3, <1>same, <1>new1, <1>new2, <1>known, Names DEF PlaceRight, Place,
     InCall, At, Getting, Giving, DeadGetting, LockOnly
<1>hold. HoldRight(t)'
  BY <1>1, <1>2, <1>3, <1>same, <1>new1, <1>new2, <1>known, Names DEF HoldRight, Place,
     Between, At, OnlyWord, Getting, Giving, DeadGetting
<1>pending. PendingRight(t)'
  BY <1>1, <1>2, <1>3, <1>same, <1>new1, <1>new2, <1>known DEF PendingRight, Place, InCall,
     At, PlaceRight, LockOnly
<1>dead. DeadRight(t)'
  BY <1>1, <1>2, <1>3, <1>same, <1>new1, <1>new2, <1>known, Names DEF DeadRight, Place, At,
     InCall, PlaceRight, LockOnly
<1>mutexes. ASSUME NEW x \in Mutexes
            PROVE  TellRight(t, x)' /\ OwnerRight(t, x)' /\ CountRight(t, x)'
  <2>1. TellRight(t, x)'
    BY <1>1, <1>2, <1>3, <1>same, <1>new1, <1>new2, <1>known, Names DEF TellRight, Place,
       OnlyWord, HoldRight, Between, At, InCall, PlaceRight, Getting, Giving, DeadGetting,
       LockOnly
  <2>2. OwnerRight(t, x)'
    BY <1>1, <1>2, <1>3, <1>same, <1>new1, <1>new2, <1>known, Names DEF OwnerRight, Place,
       OnlyWord, HoldRight, Between, At, InCall, Getting, Giving, DeadGetting, LockOnly
  <2>3. CountRight(t, x)'
    BY <1>1, <1>2, <1>3, <1>same, <1>new1, <1>new2, <1>known, Names DEF CountRight, Place,
       OnlyWord, HoldRight, Between, At, InCall, Getting, Giving, DeadGetting, LockOnly
  <2> QED
    BY <2>1, <2>2, <2>3
<1>free. DiedFree'
  BY <1>1, <1>2, <1>3, <1>same, <1>new1, <1>new2, <1>known DEF CoreInv, DiedFree, OnlyWord,
     PlaceRight, At, LockOnly
<1>loss. LostRight'
  <2>1. LostRight
    BY DEF CoreInv
  <2>2. \A x \in lost' : /\ word'[x].tid = word[x].tid
                         /\ word[x].tid = Nobody /\ word[x].died => word'[x].died
                         /\ th[t].m = x /\ th[t].at \in DeadGetting
                              => th'[t].m = x /\ th'[t].at \in DeadGetting
    BY <1>1, <1>2, <1>3, <1>same, <1>new1, <1>new2, <1>known, Names DEF DeadGetting, Place,
       OnlyWord
  <2> QED
    BY <2>1, <2>2, <1>3, <1>same, <1>new1, <1>new2, <1>known, LossKept DEF OthersStay
<1>right. ThreadRight(t)'
  BY <1>place, <1>hold, <1>pending, <1>dead, <1>mutexes DEF ThreadRight
<1>calm. Others(t)
  BY <1>others DEF Others
<1> QED
  BY <1>types, <1>calm, <1>right, <1>free, <1>loss, OneSteps

\* The link of the thread.
LEMMA LinkCore ==
    ASSUME CoreInv, NEW t \in Threads, Link(t, "link", "record")
    PROVE  CoreInv' /\ Others(t)
<1>1. TypeOK /\ th[t].at = "link" /\ InCall(t)
  BY DEF CoreInv, Link, At, InCall
<1>2. /\ th[t].m \in Mutexes /\ t \notin dead /\ th[t].m # NULL
      /\ PlaceRight(t) /\ HoldRight(t) /\ PendingRight(t) /\ DeadRight(t)
      /\ \A x \in Mutexes : TellRight(t, x) /\ OwnerRight(t, x) /\ CountRight(t, x)
  BY <1>1, InCallIs
<1>known. word[th[t].m].tid = t /\ depth[t][th[t].m] = 0
  BY <1>1, <1>2 DEF HoldRight, Between, Getting, Giving, DeadGetting
<1>3. /\ th' \in [Threads -> ThreadState] /\ OthersStay(t)
      /\ Place(t, "record", th[t].m, th[t].old, th[t].new)
  BY <1>1, GotoIs DEF Link, Places, Getting, Giving, DeadGetting, LockOnly
<1>same. /\ kind' = kind /\ word' = word /\ owner' = owner /\ count' = count
         /\ nusers' = nusers /\ prev' = prev /\ pending' = pending /\ depth' = depth
         /\ lost' = lost /\ stray' = stray /\ dead' = dead
  BY DEF Link, fields, links, ghosts
<1>new1. next' \in [Nodes -> Nodes \cup {NULL}]
  BY <1>1, <1>2 DEF Link, TypeOK, Nodes
<1>types. TypeOK'
  BY <1>1, <1>3, <1>same, <1>new1, <1>known DEF TypeOK
<1>others. ASSUME NEW u \in Threads \ {t} PROVE Calm(u)
  <2>1. th'[u] = th[u] /\ dead' = dead
    BY <1>3, <1>same DEF OthersStay
  <2>2. pending'[u] = pending[u]
    BY <1>same
  <2>3. depth'[u] = depth[u]
    BY <1>same
  <2>4. ASSUME NEW x \in Mutexes
        PROVE  /\ word'[x].tid = u => word[x].tid = u
               /\ word[x].tid = u /\ u \notin dead
                    => /\ word'[x].tid = u /\ owner'[x] = owner[x]
                       /\ count'[x] = count[x] \/ owner[x] = NotRecoverable
               /\ owner'[x] = u => owner[x] = u
    BY <1>3, <1>same, <1>new1, <1>known, <1>2, Names DEF OnlyWord
  <2> QED
    BY <2>1, <2>2, <2>3, <2>4, <1>same DEF Calm
<1>place. PlaceRight(t)'
  BY <1>1, <1>2, <1>3, <1>same, <1>new1, <1>known, Names DEF PlaceRight, Place, InCall, At,
     Getting, Giving, DeadGetting, LockOnly
<1>hold. HoldRight(t)'
  BY <1>1, <1>2, <1>3, <1>same, <1>new1, <1>known, Names DEF HoldRight, Place, Between, At,
     OnlyWord, Getting, Giving, DeadGetting
<1>pending. PendingRight(t)'
  BY <1>1, <1>2, <1>3, <1>same, <1>new1, <1>known DEF PendingRight, Place, InCall, At,
     PlaceRight, LockOnly
<1>dead. DeadRight(t)'
  BY <1>1, <1>2, <1>3, <1>same, <1>new1, <1>known, Names DEF DeadRight, Place, At, InCall,
     PlaceRight, LockOnly
<1>mutexes. ASSUME NEW x \in Mutexes
            PROVE  TellRight(t, x)' /\ OwnerRight(t, x)' /\ CountRight(t, x)'
  <2>1. TellRight(t, x)'
    BY <1>1, <1>2, <1>3, <1>same, <1>new1, <1>known, Names DEF TellRight, Place, OnlyWord,
       HoldRight, Between, At, InCall, PlaceRight, Getting, Giving, DeadGetting, LockOnly
  <2>2. OwnerRight(t, x)'
    BY <1>1, <1>2, <1>3, <1>same, <1>new1, <1>known, Names DEF OwnerRight, Place, OnlyWord,
       HoldRight, Between, At, InCall, Getting, Giving, DeadGetting, LockOnly
  <2>3. CountRight(t, x)'
    BY <1>1, <1>2, <1>3, <1>same, <1>new1, <1>known, Names DEF CountRight, Place, OnlyWord,
       HoldRight, Between, At, InCall, Getting, Giving, DeadGetting, LockOnly
  <2> QED
    BY <2>1, <2>2, <2>3
<1>free. DiedFree'
  BY <1>1, <1>2, <1>3, <1>same, <1>new1, <1>known DEF CoreInv, DiedFree, OnlyWord,
     PlaceRight, At, LockOnly
<1>loss. LostRight'
  <2>1. LostRight
    BY DEF CoreInv
  <2>2. \A x \in lost' : /\ word'[x].tid = word[x].tid
                         /\ word[x].tid = Nobody /\ word[x].died => word'[x].died
                         /\ th[t].m = x /\ th[t].at \in DeadGetting
                              => th'[t].m = x /\ th'[t].at \in DeadGetting
    BY <1>1, <1>2, <1>3, <1>same, <1>new1, <1>known, Names DEF DeadGetting, Place, OnlyWord
  <2> QED
    BY <2>1, <2>2, <1>3, <1>same, <1>new1, <1>known, LossKept DEF OthersStay
<1>right. ThreadRight(t)'
  BY <1>place, <1>hold, <1>pending, <1>dead, <1>mutexes DEF ThreadRight
<1>calm. Others(t)
  BY <1>others DEF Others
<1> QED
  BY <1>types, <1>calm, <1>right, <1>free, <1>loss, OneSteps

\* The link of the thread.
LEMMA LinkDeadCore ==
    ASSUME CoreInv, NEW t \in Threads, Link(t, "dead_link", "dead_record")
    PROVE  CoreInv' /\ Others(t)
<1>1. TypeOK /\ th[t].at = "dead_link" /\ InCall(t)
  BY DEF CoreInv, Link, At, InCall
<1>2. /\ th[t].m \in Mutexes /\ t \notin dead /\ th[t].m # NULL
      /\ PlaceRight(t) /\ HoldRight(t) /\ PendingRight(t) /\ DeadRight(t)
      /\ \A x \in Mutexes : TellRight(t, x) /\ OwnerRight(t, x) /\ CountRight(t, x)
  BY <1>1, InCallIs
<1>known. word[th[t].m].tid = t /\ depth[t][th[t].m] = 0
  BY <1>1, <1>2 DEF HoldRight, Between, Getting, Giving, DeadGetting
<1>3. /\ th' \in [Threads -> ThreadState] /\ OthersStay(t)
      /\ Place(t, "dead_record", th[t].m, th[t].old, th[t].new)
  BY <1>1, GotoIs DEF Link, Places, Getting, Giving, DeadGetting, LockOnly
<1>same. /\ kind' = kind /\ word' = word /\ owner' = owner /\ count' = count
         /\ nusers' = nusers /\ prev' = prev /\ pending' = pending /\ depth' = depth
         /\ lost' = lost /\ stray' = stray /\ dead' = dead
  BY DEF Link, fields, links, ghosts
<1>new1. next' \in [Nodes -> Nodes \cup {NULL}]
  BY <1>1, <1>2 DEF Link, TypeOK, Nodes
<1>types. TypeOK'
  BY <1>1, <1>3, <1>same, <1>new1, <1>known DEF TypeOK
<1>others. ASSUME NEW u \in Threads \ {t} PROVE Calm(u)
  <2>1. th'[u] = th[u] /\ dead' = dead
    BY <1>3, <1>same DEF OthersStay
  <2>2. pending'[u] = pending[u]
    BY <1>same
  <2>3. depth'[u] = depth[u]
    BY <1>same
  <2>4. ASSUME NEW x \in Mutexes
        PROVE  /\ word'[x].tid = u => word[x].tid = u
               /\ word[x].tid = u /\ u \notin dead
                    => /\ word'[x].tid = u /\ owner'[x] = owner[x]
                       /\ count'[x] = count[x] \/ owner[x] = NotRecoverable
               /\ owner'[x] = u => owner[x] = u
    BY <1>3, <1>same, <1>new1, <1>known, <1>2, Names DEF OnlyWord
  <2> QED
    BY <2>1, <2>2, <2>3, <2>4, <1>same DEF Calm
<1>place. PlaceRight(t)'
  BY <1>1, <1>2, <1>3, <1>same, <1>new1, <1>known, Names DEF PlaceRight, Place, InCall, At,
     Getting, Giving, DeadGetting, LockOnly
<1>hold. HoldRight(t)'
  BY <1>1, <1>2, <1>3, <1>same, <1>new1, <1>known, Names DEF HoldRight, Place, Between, At,
     OnlyWord, Getting, Giving, DeadGetting
<1>pending. PendingRight(t)'
  BY <1>1, <1>2, <1>3, <1>same, <1>new1, <1>known DEF PendingRight, Place, InCall, At,
     PlaceRight, LockOnly
<1>dead. DeadRight(t)'
  BY <1>1, <1>2, <1>3, <1>same, <1>new1, <1>known, Names DEF DeadRight, Place, At, InCall,
     PlaceRight, LockOnly
<1>mutexes. ASSUME NEW x \in Mutexes
            PROVE  TellRight(t, x)' /\ OwnerRight(t, x)' /\ CountRight(t, x)'
  <2>1. TellRight(t, x)'
    BY <1>1, <1>2, <1>3, <1>same, <1>new1, <1>known, Names DEF TellRight, Place, OnlyWord,
       HoldRight, Between, At, InCall, PlaceRight, Getting, Giving, DeadGetting, LockOnly
  <2>2. OwnerRight(t, x)'
    BY <1>1, <1>2, <1>3, <1>same, <1>new1, <1>known, Names DEF OwnerRight, Place, OnlyWord,
       HoldRight, Between, At, InCall, Getting, Giving, DeadGetting, LockOnly
  <2>3. CountRight(t, x)'
    BY <1>1, <1>2, <1>3, <1>same, <1>new1, <1>known, Names DEF CountRight, Place, OnlyWord,
       HoldRight, Between, At, InCall, Getting, Giving, DeadGetting, LockOnly
  <2> QED
    BY <2>1, <2>2, <2>3
<1>free. DiedFree'
  BY <1>1, <1>2, <1>3, <1>same, <1>new1, <1>known DEF CoreInv, DiedFree, OnlyWord,
     PlaceRight, At, LockOnly
<1>loss. LostRight'
  <2>1. LostRight
    BY DEF CoreInv
  <2>2. \A x \in lost' : /\ word'[x].tid = word[x].tid
                         /\ word[x].tid = Nobody /\ word[x].died => word'[x].died
                         /\ th[t].m = x /\ th[t].at \in DeadGetting
                              => th'[t].m = x /\ th'[t].at \in DeadGetting
    BY <1>1, <1>2, <1>3, <1>same, <1>new1, <1>known, Names DEF DeadGetting, Place, OnlyWord
  <2> QED
    BY <2>1, <2>2, <1>3, <1>same, <1>new1, <1>known, LossKept DEF OthersStay
<1>right. ThreadRight(t)'
  BY <1>place, <1>hold, <1>pending, <1>dead, <1>mutexes DEF ThreadRight
<1>calm. Others(t)
  BY <1>others DEF Others
<1> QED
  BY <1>types, <1>calm, <1>right, <1>free, <1>loss, OneSteps

\* The mutex is in no list.
LEMMA ClearLinksCore ==
    ASSUME CoreInv, NEW t \in Threads, ClearLinks(t)
    PROVE  CoreInv' /\ Others(t)
<1>1. TypeOK /\ th[t].at = "unlinked" /\ InCall(t)
  BY DEF CoreInv, ClearLinks, At, InCall
<1>2. /\ th[t].m \in Mutexes /\ t \notin dead /\ th[t].m # NULL
      /\ PlaceRight(t) /\ HoldRight(t) /\ PendingRight(t) /\ DeadRight(t)
      /\ \A x \in Mutexes : TellRight(t, x) /\ OwnerRight(t, x) /\ CountRight(t, x)
  BY <1>1, InCallIs
<1>known. word[th[t].m].tid = t /\ depth[t][th[t].m] = 0
  BY <1>1, <1>2 DEF HoldRight, Between, Getting, Giving, DeadGetting
<1>3. /\ th' \in [Threads -> ThreadState] /\ OthersStay(t)
      /\ Place(t, "disown", th[t].m, th[t].old, th[t].new)
  BY <1>1, GotoIs DEF ClearLinks, Places, Getting, Giving, DeadGetting, LockOnly
<1>same. /\ kind' = kind /\ word' = word /\ owner' = owner /\ count' = count
         /\ nusers' = nusers /\ pending' = pending /\ depth' = depth /\ lost' = lost
         /\ stray' = stray /\ dead' = dead
  BY DEF ClearLinks, fields, links, ghosts
<1>new1. next' \in [Nodes -> Nodes \cup {NULL}]
  BY <1>1, <1>2 DEF ClearLinks, TypeOK, Nodes
<1>new2. prev' \in [Nodes -> Nodes \cup {NULL}]
  BY <1>1, <1>2 DEF ClearLinks, TypeOK, Nodes
<1>types. TypeOK'
  BY <1>1, <1>3, <1>same, <1>new1, <1>new2, <1>known DEF TypeOK
<1>others. ASSUME NEW u \in Threads \ {t} PROVE Calm(u)
  <2>1. th'[u] = th[u] /\ dead' = dead
    BY <1>3, <1>same DEF OthersStay
  <2>2. pending'[u] = pending[u]
    BY <1>same
  <2>3. depth'[u] = depth[u]
    BY <1>same
  <2>4. ASSUME NEW x \in Mutexes
        PROVE  /\ word'[x].tid = u => word[x].tid = u
               /\ word[x].tid = u /\ u \notin dead
                    => /\ word'[x].tid = u /\ owner'[x] = owner[x]
                       /\ count'[x] = count[x] \/ owner[x] = NotRecoverable
               /\ owner'[x] = u => owner[x] = u
    BY <1>3, <1>same, <1>new1, <1>new2, <1>known, <1>2, Names DEF OnlyWord
  <2> QED
    BY <2>1, <2>2, <2>3, <2>4, <1>same DEF Calm
<1>place. PlaceRight(t)'
  BY <1>1, <1>2, <1>3, <1>same, <1>new1, <1>new2, <1>known, Names DEF PlaceRight, Place,
     InCall, At, Getting, Giving, DeadGetting, LockOnly
<1>hold. HoldRight(t)'
  BY <1>1, <1>2, <1>3, <1>same, <1>new1, <1>new2, <1>known, Names DEF HoldRight, Place,
     Between, At, OnlyWord, Getting, Giving, DeadGetting
<1>pending. PendingRight(t)'
  BY <1>1, <1>2, <1>3, <1>same, <1>new1, <1>new2, <1>known DEF PendingRight, Place, InCall,
     At, PlaceRight, LockOnly
<1>dead. DeadRight(t)'
  BY <1>1, <1>2, <1>3, <1>same, <1>new1, <1>new2, <1>known, Names DEF DeadRight, Place, At,
     InCall, PlaceRight, LockOnly
<1>mutexes. ASSUME NEW x \in Mutexes
            PROVE  TellRight(t, x)' /\ OwnerRight(t, x)' /\ CountRight(t, x)'
  <2>1. TellRight(t, x)'
    BY <1>1, <1>2, <1>3, <1>same, <1>new1, <1>new2, <1>known, Names DEF TellRight, Place,
       OnlyWord, HoldRight, Between, At, InCall, PlaceRight, Getting, Giving, DeadGetting,
       LockOnly
  <2>2. OwnerRight(t, x)'
    BY <1>1, <1>2, <1>3, <1>same, <1>new1, <1>new2, <1>known, Names DEF OwnerRight, Place,
       OnlyWord, HoldRight, Between, At, InCall, Getting, Giving, DeadGetting, LockOnly
  <2>3. CountRight(t, x)'
    BY <1>1, <1>2, <1>3, <1>same, <1>new1, <1>new2, <1>known, Names DEF CountRight, Place,
       OnlyWord, HoldRight, Between, At, InCall, Getting, Giving, DeadGetting, LockOnly
  <2> QED
    BY <2>1, <2>2, <2>3
<1>free. DiedFree'
  BY <1>1, <1>2, <1>3, <1>same, <1>new1, <1>new2, <1>known DEF CoreInv, DiedFree, OnlyWord,
     PlaceRight, At, LockOnly
<1>loss. LostRight'
  <2>1. LostRight
    BY DEF CoreInv
  <2>2. \A x \in lost' : /\ word'[x].tid = word[x].tid
                         /\ word[x].tid = Nobody /\ word[x].died => word'[x].died
                         /\ th[t].m = x /\ th[t].at \in DeadGetting
                              => th'[t].m = x /\ th'[t].at \in DeadGetting
    BY <1>1, <1>2, <1>3, <1>same, <1>new1, <1>new2, <1>known, Names DEF DeadGetting, Place,
       OnlyWord
  <2> QED
    BY <2>1, <2>2, <1>3, <1>same, <1>new1, <1>new2, <1>known, LossKept DEF OthersStay
<1>right. ThreadRight(t)'
  BY <1>place, <1>hold, <1>pending, <1>dead, <1>mutexes DEF ThreadRight
<1>calm. Others(t)
  BY <1>others DEF Others
<1> QED
  BY <1>types, <1>calm, <1>right, <1>free, <1>loss, OneSteps

\* The mutex is taken off its list.
LEMMA UnlinkCore ==
    ASSUME CoreInv, NEW t \in Threads, Unlink(t), next[th[t].m] # NULL
    PROVE  CoreInv' /\ Others(t)
<1>1. TypeOK /\ th[t].at = "unlink" /\ InCall(t)
  BY DEF CoreInv, Unlink, At, InCall
<1>2. /\ th[t].m \in Mutexes /\ t \notin dead /\ th[t].m # NULL
      /\ PlaceRight(t) /\ HoldRight(t) /\ PendingRight(t) /\ DeadRight(t)
      /\ \A x \in Mutexes : TellRight(t, x) /\ OwnerRight(t, x) /\ CountRight(t, x)
  BY <1>1, InCallIs
<1>known. word[th[t].m].tid = t /\ depth[t][th[t].m] = 0
  BY <1>1, <1>2 DEF HoldRight, Between, Getting, Giving, DeadGetting
<1>3. /\ th' \in [Threads -> ThreadState] /\ OthersStay(t)
      /\ Place(t, "unlinked", th[t].m, th[t].old, th[t].new)
  BY <1>1, GotoIs DEF Unlink, Places, Getting, Giving, DeadGetting, LockOnly
<1>same. /\ kind' = kind /\ word' = word /\ owner' = owner /\ count' = count
         /\ nusers' = nusers /\ pending' = pending /\ depth' = depth /\ lost' = lost
         /\ stray' = stray /\ dead' = dead
  BY DEF Unlink, fields, links, ghosts
<1>new1. next' \in [Nodes -> Nodes \cup {NULL}]
  BY <1>1, <1>2 DEF Unlink, TypeOK, Nodes
<1>new2. prev' \in [Nodes -> Nodes \cup {NULL}]
  BY <1>1, <1>2 DEF Unlink, TypeOK, Nodes
<1>types. TypeOK'
  BY <1>1, <1>3, <1>same, <1>new1, <1>new2, <1>known DEF TypeOK
<1>others. ASSUME NEW u \in Threads \ {t} PROVE Calm(u)
  <2>1. th'[u] = th[u] /\ dead' = dead
    BY <1>3, <1>same DEF OthersStay
  <2>2. pending'[u] = pending[u]
    BY <1>same
  <2>3. depth'[u] = depth[u]
    BY <1>same
  <2>4. ASSUME NEW x \in Mutexes
        PROVE  /\ word'[x].tid = u => word[x].tid = u
               /\ word[x].tid = u /\ u \notin dead
                    => /\ word'[x].tid = u /\ owner'[x] = owner[x]
                       /\ count'[x] = count[x] \/ owner[x] = NotRecoverable
               /\ owner'[x] = u => owner[x] = u
    BY <1>3, <1>same, <1>new1, <1>new2, <1>known, <1>2, Names DEF OnlyWord
  <2> QED
    BY <2>1, <2>2, <2>3, <2>4, <1>same DEF Calm
<1>place. PlaceRight(t)'
  BY <1>1, <1>2, <1>3, <1>same, <1>new1, <1>new2, <1>known, Names DEF PlaceRight, Place,
     InCall, At, Getting, Giving, DeadGetting, LockOnly
<1>hold. HoldRight(t)'
  BY <1>1, <1>2, <1>3, <1>same, <1>new1, <1>new2, <1>known, Names DEF HoldRight, Place,
     Between, At, OnlyWord, Getting, Giving, DeadGetting
<1>pending. PendingRight(t)'
  BY <1>1, <1>2, <1>3, <1>same, <1>new1, <1>new2, <1>known DEF PendingRight, Place, InCall,
     At, PlaceRight, LockOnly
<1>dead. DeadRight(t)'
  BY <1>1, <1>2, <1>3, <1>same, <1>new1, <1>new2, <1>known, Names DEF DeadRight, Place, At,
     InCall, PlaceRight, LockOnly
<1>mutexes. ASSUME NEW x \in Mutexes
            PROVE  TellRight(t, x)' /\ OwnerRight(t, x)' /\ CountRight(t, x)'
  <2>1. TellRight(t, x)'
    BY <1>1, <1>2, <1>3, <1>same, <1>new1, <1>new2, <1>known, Names DEF TellRight, Place,
       OnlyWord, HoldRight, Between, At, InCall, PlaceRight, Getting, Giving, DeadGetting,
       LockOnly
  <2>2. OwnerRight(t, x)'
    BY <1>1, <1>2, <1>3, <1>same, <1>new1, <1>new2, <1>known, Names DEF OwnerRight, Place,
       OnlyWord, HoldRight, Between, At, InCall, Getting, Giving, DeadGetting, LockOnly
  <2>3. CountRight(t, x)'
    BY <1>1, <1>2, <1>3, <1>same, <1>new1, <1>new2, <1>known, Names DEF CountRight, Place,
       OnlyWord, HoldRight, Between, At, InCall, Getting, Giving, DeadGetting, LockOnly
  <2> QED
    BY <2>1, <2>2, <2>3
<1>free. DiedFree'
  BY <1>1, <1>2, <1>3, <1>same, <1>new1, <1>new2, <1>known DEF CoreInv, DiedFree, OnlyWord,
     PlaceRight, At, LockOnly
<1>loss. LostRight'
  <2>1. LostRight
    BY DEF CoreInv
  <2>2. \A x \in lost' : /\ word'[x].tid = word[x].tid
                         /\ word[x].tid = Nobody /\ word[x].died => word'[x].died
                         /\ th[t].m = x /\ th[t].at \in DeadGetting
                              => th'[t].m = x /\ th'[t].at \in DeadGetting
    BY <1>1, <1>2, <1>3, <1>same, <1>new1, <1>new2, <1>known, Names DEF DeadGetting, Place,
       OnlyWord
  <2> QED
    BY <2>1, <2>2, <1>3, <1>same, <1>new1, <1>new2, <1>known, LossKept DEF OthersStay
<1>right. ThreadRight(t)'
  BY <1>place, <1>hold, <1>pending, <1>dead, <1>mutexes DEF ThreadRight
<1>calm. Others(t)
  BY <1>others DEF Others
<1> QED
  BY <1>types, <1>calm, <1>right, <1>free, <1>loss, OneSteps

\* __owner is written.
LEMMA DisownCore ==
    ASSUME CoreInv, NEW t \in Threads, Disown(t)
    PROVE  CoreInv' /\ Others(t) /\ Quiet(t)
<1>1. TypeOK /\ th[t].at = "disown" /\ InCall(t)
  BY DEF CoreInv, Disown, At, InCall
<1>2. /\ th[t].m \in Mutexes /\ t \notin dead /\ th[t].m # NULL
      /\ PlaceRight(t) /\ HoldRight(t) /\ PendingRight(t) /\ DeadRight(t)
      /\ \A x \in Mutexes : TellRight(t, x) /\ OwnerRight(t, x) /\ CountRight(t, x)
  BY <1>1, InCallIs
<1>known. word[th[t].m].tid = t /\ depth[t][th[t].m] = 0
  BY <1>1, <1>2 DEF HoldRight, Between, Getting, Giving, DeadGetting
<1>3. /\ th' \in [Threads -> ThreadState] /\ OthersStay(t)
      /\ Place(t, "release", th[t].m, th[t].old, th[t].new)
  BY <1>1, GotoIs DEF Disown, Places, Getting, Giving, DeadGetting, LockOnly, Giving
<1>same. /\ kind' = kind /\ word' = word /\ count' = count /\ next' = next
         /\ prev' = prev /\ pending' = pending /\ depth' = depth /\ lost' = lost
         /\ stray' = stray /\ dead' = dead
  BY DEF Disown, fields, links, ghosts
<1>new1. /\ owner' \in [Mutexes -> Threads \cup {Nobody, Inconsistent, NotRecoverable}]
         /\ owner'[th[t].m] = th[t].new
         /\ \A x \in Mutexes \ {th[t].m} : owner'[x] = owner[x]
  BY <1>1, <1>2, StateIs DEF Disown, TypeOK
<1>new2. th[t].new # Inconsistent /\ \A u \in Threads : th[t].new # u
  BY <1>1, StateIs, Names
<1>types. TypeOK'
  BY <1>1, <1>3, <1>same, <1>new1, <1>new2, <1>known DEF TypeOK
<1>others. ASSUME NEW u \in Threads \ {t} PROVE Calm(u)
  <2>1. th'[u] = th[u] /\ dead' = dead
    BY <1>3, <1>same DEF OthersStay
  <2>2. pending'[u] = pending[u]
    BY <1>same
  <2>3. depth'[u] = depth[u]
    BY <1>same
  <2>4. ASSUME NEW x \in Mutexes
        PROVE  /\ word'[x].tid = u => word[x].tid = u
               /\ word[x].tid = u /\ u \notin dead
                    => /\ word'[x].tid = u /\ owner'[x] = owner[x]
                       /\ count'[x] = count[x] \/ owner[x] = NotRecoverable
               /\ owner'[x] = u => owner[x] = u
    BY <1>3, <1>same, <1>new1, <1>new2, <1>known, <1>2, Names DEF OnlyWord
  <2> QED
    BY <2>1, <2>2, <2>3, <2>4, <1>same DEF Calm
<1>place. PlaceRight(t)'
  BY <1>1, <1>2, <1>3, <1>same, <1>new1, <1>new2, <1>known, Names DEF PlaceRight, Place,
     InCall, At, Getting, Giving, DeadGetting, LockOnly
<1>hold. HoldRight(t)'
  BY <1>1, <1>2, <1>3, <1>same, <1>new1, <1>new2, <1>known, Names DEF HoldRight, Place,
     Between, At, OnlyWord, Getting, Giving, DeadGetting
<1>pending. PendingRight(t)'
  BY <1>1, <1>2, <1>3, <1>same, <1>new1, <1>new2, <1>known DEF PendingRight, Place, InCall,
     At, PlaceRight, LockOnly
<1>dead. DeadRight(t)'
  BY <1>1, <1>2, <1>3, <1>same, <1>new1, <1>new2, <1>known, Names DEF DeadRight, Place, At,
     InCall, PlaceRight, LockOnly
<1>mutexes. ASSUME NEW x \in Mutexes
            PROVE  TellRight(t, x)' /\ OwnerRight(t, x)' /\ CountRight(t, x)'
  <2>1. TellRight(t, x)'
    BY <1>1, <1>2, <1>3, <1>same, <1>new1, <1>new2, <1>known, Names DEF TellRight, Place,
       OnlyWord, HoldRight, Between, At, InCall, PlaceRight, Getting, Giving, DeadGetting,
       LockOnly
  <2>2. OwnerRight(t, x)'
    BY <1>1, <1>2, <1>3, <1>same, <1>new1, <1>new2, <1>known, Names DEF OwnerRight, Place,
       OnlyWord, HoldRight, Between, At, InCall, Getting, Giving, DeadGetting, LockOnly
  <2>3. CountRight(t, x)'
    BY <1>1, <1>2, <1>3, <1>same, <1>new1, <1>new2, <1>known, Names DEF CountRight, Place,
       OnlyWord, HoldRight, Between, At, InCall, Getting, Giving, DeadGetting, LockOnly
  <2> QED
    BY <2>1, <2>2, <2>3
<1>free. DiedFree'
  BY <1>1, <1>2, <1>3, <1>same, <1>new1, <1>new2, <1>known DEF CoreInv, DiedFree, OnlyWord,
     PlaceRight, At, LockOnly
<1>loss. LostRight'
  <2>1. LostRight
    BY DEF CoreInv
  <2>2. \A x \in lost' : /\ word'[x].tid = word[x].tid
                         /\ word[x].tid = Nobody /\ word[x].died => word'[x].died
                         /\ th[t].m = x /\ th[t].at \in DeadGetting
                              => th'[t].m = x /\ th'[t].at \in DeadGetting
    BY <1>1, <1>2, <1>3, <1>same, <1>new1, <1>new2, <1>known, Names DEF DeadGetting, Place,
       OnlyWord
  <2> QED
    BY <2>1, <2>2, <1>3, <1>same, <1>new1, <1>new2, <1>known, LossKept DEF OthersStay
<1>right. ThreadRight(t)'
  BY <1>place, <1>hold, <1>pending, <1>dead, <1>mutexes DEF ThreadRight
<1>calm. Others(t)
  BY <1>others DEF Others
<1>quiet. Quiet(t)
  <2>1. ASSUME NEW x \in Mutexes, stray' = {} PROVE Listed(t, x)' <=> Listed(t, x)
    BY <2>1, <1>1, <1>2, <1>3, <1>same, <1>new1, <1>new2, <1>known, Names DEF Listed, Off,
       Place, OnlyWord, HoldRight, Between, At, InCall, PlaceRight, DeadRight, Getting,
       Giving, DeadGetting, LockOnly, TypeOK, AllKinds
  <2>2. ASSUME NEW x \in Mutexes, owner'[x] # owner[x]
        PROVE  /\ word[x].tid = t
               /\ owner'[x] = NotRecoverable => At(t, "disown") /\ th[t].m = x
    BY <2>2, <1>1, <1>2, <1>3, <1>same, <1>new1, <1>new2, <1>known, Names DEF At
  <2>3. /\ th[t].at \notin {"link", "dead_link"}
        /\ th'[t].at \notin {"link", "dead_link", "disown"}
    BY <1>1, <1>2, <1>3, <1>same, <1>new1, <1>new2, <1>known DEF Place
  <2> QED
    BY <2>1, <2>2, <2>3, <1>same, <1>2 DEF Quiet
<1> QED
  BY <1>types, <1>calm, <1>right, <1>free, <1>loss, OneSteps, <1>quiet

\* The word is given back.
LEMMA ReleaseCore ==
    ASSUME CoreInv, NEW t \in Threads, Release(t)
    PROVE  CoreInv' /\ Others(t) /\ Quiet(t)
<1>1. TypeOK /\ th[t].at = "release" /\ InCall(t)
  BY DEF CoreInv, Release, At, InCall
<1>2. /\ th[t].m \in Mutexes /\ t \notin dead /\ th[t].m # NULL
      /\ PlaceRight(t) /\ HoldRight(t) /\ PendingRight(t) /\ DeadRight(t)
      /\ \A x \in Mutexes : TellRight(t, x) /\ OwnerRight(t, x) /\ CountRight(t, x)
  BY <1>1, InCallIs
<1>known. word[th[t].m].tid = t /\ depth[t][th[t].m] = 0
  BY <1>1, <1>2 DEF HoldRight, Between, Getting, Giving, DeadGetting
<1>3. /\ th' \in [Threads -> ThreadState] /\ OthersStay(t)
      /\ Place(t, "busy", th[t].m, th[t].old, th[t].new)
  BY <1>1, GotoIs DEF Release, Places, Getting, Giving, DeadGetting, LockOnly
<1>same. /\ kind' = kind /\ owner' = owner /\ count' = count /\ nusers' = nusers
         /\ next' = next /\ prev' = prev /\ pending' = pending /\ depth' = depth
         /\ lost' = lost /\ stray' = stray /\ dead' = dead
  BY DEF Release, fields, links, ghosts
<1>new1. /\ word' \in [Mutexes -> Word] /\ OnlyWord(th[t].m)
         /\ word'[th[t].m].tid = Nobody /\ ~word'[th[t].m].died
  BY <1>1, <1>2, WordIs, FreeIs DEF Release
<1>types. TypeOK'
  BY <1>1, <1>3, <1>same, <1>new1, <1>known DEF TypeOK
<1>others. ASSUME NEW u \in Threads \ {t} PROVE Calm(u)
  <2>1. th'[u] = th[u] /\ dead' = dead
    BY <1>3, <1>same DEF OthersStay
  <2>2. pending'[u] = pending[u]
    BY <1>same
  <2>3. depth'[u] = depth[u]
    BY <1>same
  <2>4. ASSUME NEW x \in Mutexes
        PROVE  /\ word'[x].tid = u => word[x].tid = u
               /\ word[x].tid = u /\ u \notin dead
                    => /\ word'[x].tid = u /\ owner'[x] = owner[x]
                       /\ count'[x] = count[x] \/ owner[x] = NotRecoverable
               /\ owner'[x] = u => owner[x] = u
    BY <1>3, <1>same, <1>new1, <1>known, <1>2, Names DEF OnlyWord
  <2> QED
    BY <2>1, <2>2, <2>3, <2>4, <1>same DEF Calm
<1>place. PlaceRight(t)'
  BY <1>1, <1>2, <1>3, <1>same, <1>new1, <1>known, Names DEF PlaceRight, Place, InCall, At,
     Getting, Giving, DeadGetting, LockOnly
<1>hold. HoldRight(t)'
  BY <1>1, <1>2, <1>3, <1>same, <1>new1, <1>known, Names DEF HoldRight, Place, Between, At,
     OnlyWord, Getting, Giving, DeadGetting
<1>pending. PendingRight(t)'
  BY <1>1, <1>2, <1>3, <1>same, <1>new1, <1>known DEF PendingRight, Place, InCall, At,
     PlaceRight, LockOnly
<1>dead. DeadRight(t)'
  BY <1>1, <1>2, <1>3, <1>same, <1>new1, <1>known, Names DEF DeadRight, Place, At, InCall,
     PlaceRight, LockOnly
<1>mutexes. ASSUME NEW x \in Mutexes
            PROVE  TellRight(t, x)' /\ OwnerRight(t, x)' /\ CountRight(t, x)'
  <2>1. TellRight(t, x)'
    BY <1>1, <1>2, <1>3, <1>same, <1>new1, <1>known, Names DEF TellRight, Place, OnlyWord,
       HoldRight, Between, At, InCall, PlaceRight, Getting, Giving, DeadGetting, LockOnly
  <2>2. OwnerRight(t, x)'
    BY <1>1, <1>2, <1>3, <1>same, <1>new1, <1>known, Names DEF OwnerRight, Place, OnlyWord,
       HoldRight, Between, At, InCall, Getting, Giving, DeadGetting, LockOnly
  <2>3. CountRight(t, x)'
    BY <1>1, <1>2, <1>3, <1>same, <1>new1, <1>known, Names DEF CountRight, Place, OnlyWord,
       HoldRight, Between, At, InCall, Getting, Giving, DeadGetting, LockOnly
  <2> QED
    BY <2>1, <2>2, <2>3
<1>free. DiedFree'
  BY <1>1, <1>2, <1>3, <1>same, <1>new1, <1>known DEF CoreInv, DiedFree, OnlyWord,
     PlaceRight, At, LockOnly
<1>loss. LostRight'
  <2>1. LostRight
    BY DEF CoreInv
  <2>2. th[t].m \in lost => /\ kind[th[t].m].robust
                           /\ \/ word[th[t].m].tid \in dead
                              \/ word[th[t].m].tid = Nobody /\ word[th[t].m].died
                              \/ \E v \in Threads : /\ word[th[t].m].tid = v
                                                    /\ th[v].m = th[t].m /\ th[v].at \in DeadGetting
    BY <2>1 DEF LostRight
  <2>3. dead \subseteq Threads /\ Nobody \notin Threads
    BY <1>1, Names DEF TypeOK
  <2>4. th[t].m \in lost
          => word'[th[t].m].tid = t /\ th'[t].m = th[t].m /\ th'[t].at \in DeadGetting
    BY <2>2, <2>3, <1>1, <1>2, <1>3, <1>same, <1>new1, <1>known DEF Place, DeadGetting,
       PlaceRight, LockOnly
  <2> QED
    BY <2>1, <2>4, <1>3, <1>same, <1>new1, <1>known, <1>1, LossTaken
<1>right. ThreadRight(t)'
  BY <1>place, <1>hold, <1>pending, <1>dead, <1>mutexes DEF ThreadRight
<1>calm. Others(t)
  BY <1>others DEF Others
<1>quiet. Quiet(t)
  <2>1. ASSUME NEW x \in Mutexes, stray' = {} PROVE Listed(t, x)' <=> Listed(t, x)
    BY <2>1, <1>1, <1>2, <1>3, <1>same, <1>new1, <1>known, Names DEF Listed, Off, Place,
       OnlyWord, HoldRight, Between, At, InCall, PlaceRight, DeadRight, Getting, Giving,
       DeadGetting, LockOnly, TypeOK, AllKinds
  <2>2. ASSUME NEW x \in Mutexes, owner'[x] # owner[x]
        PROVE  /\ word[x].tid = t
               /\ owner'[x] = NotRecoverable => At(t, "disown") /\ th[t].m = x
    BY <2>2, <1>same
  <2>3. /\ th[t].at \notin {"link", "dead_link"}
        /\ th'[t].at \notin {"link", "dead_link", "disown"}
    BY <1>1, <1>2, <1>3, <1>same, <1>new1, <1>known DEF Place
  <2> QED
    BY <2>1, <2>2, <2>3, <1>same, <1>2 DEF Quiet
<1> QED
  BY <1>types, <1>calm, <1>right, <1>free, <1>loss, OneSteps, <1>quiet

\* The id of a PI word is given back.
LEMMA ReleasePICore ==
    ASSUME CoreInv, NEW t \in Threads, ReleasePI(t)
    PROVE  CoreInv' /\ Others(t) /\ Quiet(t)
<1>1. TypeOK /\ th[t].at = "prelease" /\ InCall(t)
  BY DEF CoreInv, ReleasePI, At, InCall
<1>2. /\ th[t].m \in Mutexes /\ t \notin dead /\ th[t].m # NULL
      /\ PlaceRight(t) /\ HoldRight(t) /\ PendingRight(t) /\ DeadRight(t)
      /\ \A x \in Mutexes : TellRight(t, x) /\ OwnerRight(t, x) /\ CountRight(t, x)
  BY <1>1, InCallIs
<1>known. word[th[t].m].tid = t /\ depth[t][th[t].m] = 0
  BY <1>1, <1>2 DEF HoldRight, Between, Getting, Giving, DeadGetting
<1>3. /\ th' \in [Threads -> ThreadState] /\ OthersStay(t)
      /\ Place(t, "ptpp", th[t].m, th[t].old, th[t].new)
  BY <1>1, GotoIs DEF ReleasePI, Places, Getting, Giving, DeadGetting, LockOnly
<1>same. /\ kind' = kind /\ owner' = owner /\ count' = count /\ nusers' = nusers
         /\ next' = next /\ prev' = prev /\ pending' = pending /\ depth' = depth
         /\ lost' = lost /\ dead' = dead
  BY DEF ReleasePI, fields, links, ghosts
<1>new1. /\ word' \in [Mutexes -> Word] /\ OnlyWord(th[t].m)
         /\ word'[th[t].m].tid = Nobody /\ word'[th[t].m].died = word[th[t].m].died
  BY <1>1, <1>2, TakenIs DEF ReleasePI
<1>new2. stray' \subseteq Mutexes /\ stray \subseteq stray' /\ (kind[th[t].m].robust => stray' # {})
  BY <1>1, <1>2 DEF ReleasePI, TypeOK
<1>types. TypeOK'
  BY <1>1, <1>3, <1>same, <1>new1, <1>new2, <1>known DEF TypeOK
<1>others. ASSUME NEW u \in Threads \ {t} PROVE Calm(u)
  <2>1. th'[u] = th[u] /\ dead' = dead
    BY <1>3, <1>same DEF OthersStay
  <2>2. pending'[u] = pending[u]
    BY <1>same
  <2>3. depth'[u] = depth[u]
    BY <1>same
  <2>4. ASSUME NEW x \in Mutexes
        PROVE  /\ word'[x].tid = u => word[x].tid = u
               /\ word[x].tid = u /\ u \notin dead
                    => /\ word'[x].tid = u /\ owner'[x] = owner[x]
                       /\ count'[x] = count[x] \/ owner[x] = NotRecoverable
               /\ owner'[x] = u => owner[x] = u
    BY <1>3, <1>same, <1>new1, <1>new2, <1>known, <1>2, Names DEF OnlyWord
  <2> QED
    BY <2>1, <2>2, <2>3, <2>4, <1>same DEF Calm
<1>place. PlaceRight(t)'
  BY <1>1, <1>2, <1>3, <1>same, <1>new1, <1>new2, <1>known, Names DEF PlaceRight, Place,
     InCall, At, Getting, Giving, DeadGetting, LockOnly
<1>hold. HoldRight(t)'
  BY <1>1, <1>2, <1>3, <1>same, <1>new1, <1>new2, <1>known, Names DEF HoldRight, Place,
     Between, At, OnlyWord, Getting, Giving, DeadGetting
<1>pending. PendingRight(t)'
  BY <1>1, <1>2, <1>3, <1>same, <1>new1, <1>new2, <1>known DEF PendingRight, Place, InCall,
     At, PlaceRight, LockOnly
<1>dead. DeadRight(t)'
  BY <1>1, <1>2, <1>3, <1>same, <1>new1, <1>new2, <1>known, Names DEF DeadRight, Place, At,
     InCall, PlaceRight, LockOnly
<1>mutexes. ASSUME NEW x \in Mutexes
            PROVE  TellRight(t, x)' /\ OwnerRight(t, x)' /\ CountRight(t, x)'
  <2>1. TellRight(t, x)'
    BY <1>1, <1>2, <1>3, <1>same, <1>new1, <1>new2, <1>known, Names DEF TellRight, Place,
       OnlyWord, HoldRight, Between, At, InCall, PlaceRight, Getting, Giving, DeadGetting,
       LockOnly
  <2>2. OwnerRight(t, x)'
    BY <1>1, <1>2, <1>3, <1>same, <1>new1, <1>new2, <1>known, Names DEF OwnerRight, Place,
       OnlyWord, HoldRight, Between, At, InCall, Getting, Giving, DeadGetting, LockOnly
  <2>3. CountRight(t, x)'
    BY <1>1, <1>2, <1>3, <1>same, <1>new1, <1>new2, <1>known, Names DEF CountRight, Place,
       OnlyWord, HoldRight, Between, At, InCall, Getting, Giving, DeadGetting, LockOnly
  <2> QED
    BY <2>1, <2>2, <2>3
<1>free. DiedFree'
  BY <1>1, <1>2, <1>3, <1>same, <1>new1, <1>new2, <1>known DEF CoreInv, DiedFree, OnlyWord,
     PlaceRight, At, LockOnly
<1>loss. LostRight'
  <2>1. LostRight
    BY DEF CoreInv
  <2>2. th[t].m \in lost => /\ kind[th[t].m].robust
                           /\ \/ word[th[t].m].tid \in dead
                              \/ word[th[t].m].tid = Nobody /\ word[th[t].m].died
                              \/ \E v \in Threads : /\ word[th[t].m].tid = v
                                                    /\ th[v].m = th[t].m /\ th[v].at \in DeadGetting
    BY <2>1 DEF LostRight
  <2>3. dead \subseteq Threads /\ Nobody \notin Threads
    BY <1>1, Names DEF TypeOK
  <2>4. th[t].m \in lost
          => word'[th[t].m].tid = t /\ th'[t].m = th[t].m /\ th'[t].at \in DeadGetting
    BY <2>2, <2>3, <1>1, <1>2, <1>3, <1>same, <1>new1, <1>new2, <1>known DEF Place,
       DeadGetting, PlaceRight, LockOnly
  <2> QED
    BY <2>1, <2>4, <1>3, <1>same, <1>new1, <1>new2, <1>known, <1>1, LossTaken
<1>right. ThreadRight(t)'
  BY <1>place, <1>hold, <1>pending, <1>dead, <1>mutexes DEF ThreadRight
<1>calm. Others(t)
  BY <1>others DEF Others
<1>quiet. Quiet(t)
  <2>1. ASSUME NEW x \in Mutexes, stray' = {} PROVE Listed(t, x)' <=> Listed(t, x)
    BY <2>1, <1>1, <1>2, <1>3, <1>same, <1>new1, <1>new2, <1>known, Names DEF Listed, Off,
       Place, OnlyWord, HoldRight, Between, At, InCall, PlaceRight, DeadRight, Getting,
       Giving, DeadGetting, LockOnly, TypeOK, AllKinds
  <2>2. ASSUME NEW x \in Mutexes, owner'[x] # owner[x]
        PROVE  /\ word[x].tid = t
               /\ owner'[x] = NotRecoverable => At(t, "disown") /\ th[t].m = x
    BY <2>2, <1>same
  <2>3. /\ th[t].at \notin {"link", "dead_link"}
        /\ th'[t].at \notin {"link", "dead_link", "disown"}
    BY <1>1, <1>2, <1>3, <1>same, <1>new1, <1>new2, <1>known DEF Place
  <2> QED
    BY <2>1, <2>2, <2>3, <1>same, <1>2, <1>new2 DEF Quiet
<1> QED
  BY <1>types, <1>calm, <1>right, <1>free, <1>loss, OneSteps, <1>quiet

\* The caller has the word.
LEMMA LockReadMineCore ==
    ASSUME CoreInv, NEW t \in Threads, LockRead(t),
           word[th[t].m].tid = t /\ kind[th[t].m].type # "normal"
    PROVE  CoreInv' /\ Others(t) /\ Quiet(t)
<1>1. TypeOK /\ th[t].at = "pread" /\ InCall(t)
  BY DEF CoreInv, LockRead, At, InCall
<1>2. /\ th[t].m \in Mutexes /\ t \notin dead /\ th[t].m # NULL
      /\ PlaceRight(t) /\ HoldRight(t) /\ PendingRight(t) /\ DeadRight(t)
      /\ \A x \in Mutexes : TellRight(t, x) /\ OwnerRight(t, x) /\ CountRight(t, x)
  BY <1>1, InCallIs
<1>known. word[th[t].m].tid = t /\ ~kind[th[t].m].robust
  BY <1>1, <1>2 DEF PlaceRight, LockOnly
<1>3. /\ th' \in [Threads -> ThreadState] /\ OthersStay(t)
      /\ Place(t, "mine", th[t].m, th[t].old, th[t].new)
  BY <1>1, GotoIs DEF LockRead, Places, Getting, Giving, DeadGetting, LockOnly
<1>same. /\ kind' = kind /\ word' = word /\ owner' = owner /\ count' = count
         /\ nusers' = nusers /\ next' = next /\ prev' = prev /\ pending' = pending
         /\ depth' = depth /\ lost' = lost /\ stray' = stray /\ dead' = dead
  BY DEF LockRead, fields, links, ghosts
<1>types. TypeOK'
  BY <1>1, <1>3, <1>same, <1>known DEF TypeOK
<1>others. ASSUME NEW u \in Threads \ {t} PROVE Calm(u)
  <2>1. th'[u] = th[u] /\ dead' = dead
    BY <1>3, <1>same DEF OthersStay
  <2>2. pending'[u] = pending[u]
    BY <1>same
  <2>3. depth'[u] = depth[u]
    BY <1>same
  <2>4. ASSUME NEW x \in Mutexes
        PROVE  /\ word'[x].tid = u => word[x].tid = u
               /\ word[x].tid = u /\ u \notin dead
                    => /\ word'[x].tid = u /\ owner'[x] = owner[x]
                       /\ count'[x] = count[x] \/ owner[x] = NotRecoverable
               /\ owner'[x] = u => owner[x] = u
    BY <1>3, <1>same, <1>known, <1>2, Names DEF OnlyWord
  <2> QED
    BY <2>1, <2>2, <2>3, <2>4, <1>same DEF Calm
<1>place. PlaceRight(t)'
  BY <1>1, <1>2, <1>3, <1>same, <1>known, Names DEF PlaceRight, Place, InCall, At, Getting,
     Giving, DeadGetting, LockOnly
<1>hold. HoldRight(t)'
  BY <1>1, <1>2, <1>3, <1>same, <1>known, Names DEF HoldRight, Place, Between, At, OnlyWord,
     Getting, Giving, DeadGetting
<1>pending. PendingRight(t)'
  BY <1>1, <1>2, <1>3, <1>same, <1>known DEF PendingRight, Place, InCall, At, PlaceRight,
     LockOnly
<1>dead. DeadRight(t)'
  BY <1>1, <1>2, <1>3, <1>same, <1>known, Names DEF DeadRight, Place, At, InCall,
     PlaceRight, LockOnly
<1>mutexes. ASSUME NEW x \in Mutexes
            PROVE  TellRight(t, x)' /\ OwnerRight(t, x)' /\ CountRight(t, x)'
  <2>1. TellRight(t, x)'
    BY <1>1, <1>2, <1>3, <1>same, <1>known, Names DEF TellRight, Place, OnlyWord, HoldRight,
       Between, At, InCall, PlaceRight, Getting, Giving, DeadGetting, LockOnly
  <2>2. OwnerRight(t, x)'
    BY <1>1, <1>2, <1>3, <1>same, <1>known, Names DEF OwnerRight, Place, OnlyWord,
       HoldRight, Between, At, InCall, Getting, Giving, DeadGetting, LockOnly
  <2>3. CountRight(t, x)'
    BY <1>1, <1>2, <1>3, <1>same, <1>known, Names DEF CountRight, Place, OnlyWord,
       HoldRight, Between, At, InCall, Getting, Giving, DeadGetting, LockOnly
  <2> QED
    BY <2>1, <2>2, <2>3
<1>free. DiedFree'
  BY <1>1, <1>2, <1>3, <1>same, <1>known DEF CoreInv, DiedFree, OnlyWord, PlaceRight, At,
     LockOnly
<1>loss. LostRight'
  <2>1. LostRight
    BY DEF CoreInv
  <2>2. \A x \in lost' : /\ word'[x].tid = word[x].tid
                         /\ word[x].tid = Nobody /\ word[x].died => word'[x].died
                         /\ th[t].m = x /\ th[t].at \in DeadGetting
                              => th'[t].m = x /\ th'[t].at \in DeadGetting
    BY <1>1, <1>2, <1>3, <1>same, <1>known, Names DEF DeadGetting, Place, OnlyWord
  <2> QED
    BY <2>1, <2>2, <1>3, <1>same, <1>known, LossKept DEF OthersStay
<1>right. ThreadRight(t)'
  BY <1>place, <1>hold, <1>pending, <1>dead, <1>mutexes DEF ThreadRight
<1>calm. Others(t)
  BY <1>others DEF Others
<1>quiet. Quiet(t)
  <2>1. ASSUME NEW x \in Mutexes, stray' = {} PROVE Listed(t, x)' <=> Listed(t, x)
    BY <2>1, <1>1, <1>2, <1>3, <1>same, <1>known, Names DEF Listed, Off, Place, OnlyWord,
       HoldRight, Between, At, InCall, PlaceRight, DeadRight, Getting, Giving, DeadGetting,
       LockOnly, TypeOK, AllKinds
  <2>2. ASSUME NEW x \in Mutexes, owner'[x] # owner[x]
        PROVE  /\ word[x].tid = t
               /\ owner'[x] = NotRecoverable => At(t, "disown") /\ th[t].m = x
    BY <2>2, <1>same
  <2>3. /\ th[t].at \notin {"link", "dead_link"}
        /\ th'[t].at \notin {"link", "dead_link", "disown"}
    BY <1>1, <1>2, <1>3, <1>same, <1>known DEF Place
  <2> QED
    BY <2>1, <2>2, <2>3, <1>same, <1>2 DEF Quiet
<1> QED
  BY <1>types, <1>calm, <1>right, <1>free, <1>loss, OneSteps, <1>quiet

\* It does not.
LEMMA LockReadFreeCore ==
    ASSUME CoreInv, NEW t \in Threads, LockRead(t),
           ~(word[th[t].m].tid = t /\ kind[th[t].m].type # "normal")
    PROVE  CoreInv' /\ Others(t) /\ Quiet(t)
<1>1. TypeOK /\ th[t].at = "pread" /\ InCall(t)
  BY DEF CoreInv, LockRead, At, InCall
<1>2. /\ th[t].m \in Mutexes /\ t \notin dead /\ th[t].m # NULL
      /\ PlaceRight(t) /\ HoldRight(t) /\ PendingRight(t) /\ DeadRight(t)
      /\ \A x \in Mutexes : TellRight(t, x) /\ OwnerRight(t, x) /\ CountRight(t, x)
  BY <1>1, InCallIs
<1>3. /\ th' \in [Threads -> ThreadState] /\ OthersStay(t)
      /\ Place(t, "pcas", th[t].m, th[t].old, th[t].new)
  BY <1>1, GotoIs DEF LockRead, Places, Getting, Giving, DeadGetting, LockOnly
<1>same. /\ kind' = kind /\ word' = word /\ owner' = owner /\ count' = count
         /\ nusers' = nusers /\ next' = next /\ prev' = prev /\ pending' = pending
         /\ depth' = depth /\ lost' = lost /\ stray' = stray /\ dead' = dead
  BY DEF LockRead, fields, links, ghosts
<1>types. TypeOK'
  BY <1>1, <1>3, <1>same DEF TypeOK
<1>others. ASSUME NEW u \in Threads \ {t} PROVE Calm(u)
  <2>1. th'[u] = th[u] /\ dead' = dead
    BY <1>3, <1>same DEF OthersStay
  <2>2. pending'[u] = pending[u]
    BY <1>same
  <2>3. depth'[u] = depth[u]
    BY <1>same
  <2>4. ASSUME NEW x \in Mutexes
        PROVE  /\ word'[x].tid = u => word[x].tid = u
               /\ word[x].tid = u /\ u \notin dead
                    => /\ word'[x].tid = u /\ owner'[x] = owner[x]
                       /\ count'[x] = count[x] \/ owner[x] = NotRecoverable
               /\ owner'[x] = u => owner[x] = u
    BY <1>3, <1>same, <1>2, Names DEF OnlyWord
  <2> QED
    BY <2>1, <2>2, <2>3, <2>4, <1>same DEF Calm
<1>place. PlaceRight(t)'
  BY <1>1, <1>2, <1>3, <1>same, Names DEF PlaceRight, Place, InCall, At, Getting, Giving,
     DeadGetting, LockOnly
<1>hold. HoldRight(t)'
  BY <1>1, <1>2, <1>3, <1>same, Names DEF HoldRight, Place, Between, At, OnlyWord, Getting,
     Giving, DeadGetting
<1>pending. PendingRight(t)'
  BY <1>1, <1>2, <1>3, <1>same DEF PendingRight, Place, InCall, At, PlaceRight, LockOnly
<1>dead. DeadRight(t)'
  BY <1>1, <1>2, <1>3, <1>same, Names DEF DeadRight, Place, At, InCall, PlaceRight, LockOnly
<1>mutexes. ASSUME NEW x \in Mutexes
            PROVE  TellRight(t, x)' /\ OwnerRight(t, x)' /\ CountRight(t, x)'
  <2>1. TellRight(t, x)'
    BY <1>1, <1>2, <1>3, <1>same, Names DEF TellRight, Place, OnlyWord, HoldRight, Between,
       At, InCall, PlaceRight, Getting, Giving, DeadGetting, LockOnly
  <2>2. OwnerRight(t, x)'
    BY <1>1, <1>2, <1>3, <1>same, Names DEF OwnerRight, Place, OnlyWord, HoldRight, Between,
       At, InCall, Getting, Giving, DeadGetting, LockOnly
  <2>3. CountRight(t, x)'
    BY <1>1, <1>2, <1>3, <1>same, Names DEF CountRight, Place, OnlyWord, HoldRight, Between,
       At, InCall, Getting, Giving, DeadGetting, LockOnly
  <2> QED
    BY <2>1, <2>2, <2>3
<1>free. DiedFree'
  BY <1>1, <1>2, <1>3, <1>same DEF CoreInv, DiedFree, OnlyWord, PlaceRight, At, LockOnly
<1>loss. LostRight'
  <2>1. LostRight
    BY DEF CoreInv
  <2>2. \A x \in lost' : /\ word'[x].tid = word[x].tid
                         /\ word[x].tid = Nobody /\ word[x].died => word'[x].died
                         /\ th[t].m = x /\ th[t].at \in DeadGetting
                              => th'[t].m = x /\ th'[t].at \in DeadGetting
    BY <1>1, <1>2, <1>3, <1>same, Names DEF DeadGetting, Place, OnlyWord
  <2> QED
    BY <2>1, <2>2, <1>3, <1>same, LossKept DEF OthersStay
<1>right. ThreadRight(t)'
  BY <1>place, <1>hold, <1>pending, <1>dead, <1>mutexes DEF ThreadRight
<1>calm. Others(t)
  BY <1>others DEF Others
<1>quiet. Quiet(t)
  <2>1. ASSUME NEW x \in Mutexes, stray' = {} PROVE Listed(t, x)' <=> Listed(t, x)
    BY <2>1, <1>1, <1>2, <1>3, <1>same, Names DEF Listed, Off, Place, OnlyWord, HoldRight,
       Between, At, InCall, PlaceRight, DeadRight, Getting, Giving, DeadGetting, LockOnly,
       TypeOK, AllKinds
  <2>2. ASSUME NEW x \in Mutexes, owner'[x] # owner[x]
        PROVE  /\ word[x].tid = t
               /\ owner'[x] = NotRecoverable => At(t, "disown") /\ th[t].m = x
    BY <2>2, <1>same
  <2>3. /\ th[t].at \notin {"link", "dead_link"}
        /\ th'[t].at \notin {"link", "dead_link", "disown"}
    BY <1>1, <1>2, <1>3, <1>same DEF Place
  <2> QED
    BY <2>1, <2>2, <2>3, <1>same, <1>2 DEF Quiet
<1> QED
  BY <1>types, <1>calm, <1>right, <1>free, <1>loss, OneSteps, <1>quiet

\* The word was free.
LEMMA LockCasWonCore ==
    ASSUME CoreInv, NEW t \in Threads, LockCas(t), word[th[t].m] = Free
    PROVE  CoreInv' /\ Others(t) /\ Quiet(t)
<1>1. TypeOK /\ th[t].at = "pcas" /\ InCall(t)
  BY DEF CoreInv, LockCas, At, InCall
<1>2. /\ th[t].m \in Mutexes /\ t \notin dead /\ th[t].m # NULL
      /\ PlaceRight(t) /\ HoldRight(t) /\ PendingRight(t) /\ DeadRight(t)
      /\ \A x \in Mutexes : TellRight(t, x) /\ OwnerRight(t, x) /\ CountRight(t, x)
  BY <1>1, InCallIs
<1>kind. ~kind[th[t].m].robust /\ kind[th[t].m].pi
  BY <1>1, <1>2 DEF PlaceRight, LockOnly, TypeOK, AllKinds
<1>word. ~word[th[t].m].died /\ word[th[t].m].tid = Nobody
  BY FreeIs
<1>known. depth[t][th[t].m] = 0
  BY <1>word, <1>1, <1>2, Names DEF TellRight, TypeOK
<1>3. /\ th' \in [Threads -> ThreadState] /\ OthersStay(t)
      /\ Place(t, "record", th[t].m, th[t].old, th[t].new)
  BY <1>1, GotoIs DEF LockCas, Places, Getting, Giving, DeadGetting, LockOnly
<1>same. /\ kind' = kind /\ owner' = owner /\ count' = count /\ nusers' = nusers
         /\ next' = next /\ prev' = prev /\ pending' = pending /\ depth' = depth
         /\ lost' = lost /\ stray' = stray /\ dead' = dead
  BY DEF LockCas, fields, links, ghosts
<1>new1. /\ word' \in [Mutexes -> Word] /\ OnlyWord(th[t].m)
         /\ word'[th[t].m].tid = t /\ word'[th[t].m].died = word[th[t].m].died
  BY <1>1, <1>2, TakenIs DEF LockCas
<1>types. TypeOK'
  BY <1>1, <1>3, <1>same, <1>new1, <1>kind, <1>word, <1>known DEF TypeOK
<1>others. ASSUME NEW u \in Threads \ {t} PROVE Calm(u)
  <2>1. th'[u] = th[u] /\ dead' = dead
    BY <1>3, <1>same DEF OthersStay
  <2>2. pending'[u] = pending[u]
    BY <1>same
  <2>3. depth'[u] = depth[u]
    BY <1>same
  <2>4. ASSUME NEW x \in Mutexes
        PROVE  /\ word'[x].tid = u => word[x].tid = u
               /\ word[x].tid = u /\ u \notin dead
                    => /\ word'[x].tid = u /\ owner'[x] = owner[x]
                       /\ count'[x] = count[x] \/ owner[x] = NotRecoverable
               /\ owner'[x] = u => owner[x] = u
    BY <1>3, <1>same, <1>new1, <1>kind, <1>word, <1>known, <1>2, Names DEF OnlyWord
  <2> QED
    BY <2>1, <2>2, <2>3, <2>4, <1>same DEF Calm
<1>place. PlaceRight(t)'
  BY <1>1, <1>2, <1>3, <1>same, <1>new1, <1>kind, <1>word, <1>known, Names DEF PlaceRight,
     Place, InCall, At, Getting, Giving, DeadGetting, LockOnly
<1>hold. HoldRight(t)'
  BY <1>1, <1>2, <1>3, <1>same, <1>new1, <1>kind, <1>word, <1>known, Names DEF HoldRight,
     Place, Between, At, OnlyWord, Getting, Giving, DeadGetting
<1>pending. PendingRight(t)'
  BY <1>1, <1>2, <1>3, <1>same, <1>new1, <1>kind, <1>word, <1>known DEF PendingRight, Place,
     InCall, At, PlaceRight, LockOnly
<1>dead. DeadRight(t)'
  BY <1>1, <1>2, <1>3, <1>same, <1>new1, <1>kind, <1>word, <1>known, Names DEF DeadRight,
     Place, At, InCall, PlaceRight, LockOnly
<1>mutexes. ASSUME NEW x \in Mutexes
            PROVE  TellRight(t, x)' /\ OwnerRight(t, x)' /\ CountRight(t, x)'
  <2>1. TellRight(t, x)'
    BY <1>1, <1>2, <1>3, <1>same, <1>new1, <1>kind, <1>word, <1>known, Names DEF TellRight,
       Place, OnlyWord, HoldRight, Between, At, InCall, PlaceRight, Getting, Giving,
       DeadGetting, LockOnly
  <2>2. OwnerRight(t, x)'
    BY <1>1, <1>2, <1>3, <1>same, <1>new1, <1>kind, <1>word, <1>known, Names DEF OwnerRight,
       Place, OnlyWord, HoldRight, Between, At, InCall, Getting, Giving, DeadGetting,
       LockOnly
  <2>3. CountRight(t, x)'
    BY <1>1, <1>2, <1>3, <1>same, <1>new1, <1>kind, <1>word, <1>known, Names DEF CountRight,
       Place, OnlyWord, HoldRight, Between, At, InCall, Getting, Giving, DeadGetting,
       LockOnly
  <2> QED
    BY <2>1, <2>2, <2>3
<1>free. DiedFree'
  BY <1>1, <1>2, <1>3, <1>same, <1>new1, <1>kind, <1>word, <1>known DEF CoreInv, DiedFree,
     OnlyWord, PlaceRight, At, LockOnly
<1>loss. LostRight'
  <2>1. LostRight
    BY DEF CoreInv
  <2>2. th[t].m \in lost => /\ kind[th[t].m].robust
                           /\ \/ word[th[t].m].tid \in dead
                              \/ word[th[t].m].tid = Nobody /\ word[th[t].m].died
                              \/ \E v \in Threads : /\ word[th[t].m].tid = v
                                                    /\ th[v].m = th[t].m /\ th[v].at \in DeadGetting
    BY <2>1 DEF LostRight
  <2>3. dead \subseteq Threads /\ Nobody \notin Threads
    BY <1>1, Names DEF TypeOK
  <2>4. th[t].m \in lost
          => word'[th[t].m].tid = t /\ th'[t].m = th[t].m /\ th'[t].at \in DeadGetting
    BY <2>2, <2>3, <1>1, <1>2, <1>3, <1>same, <1>new1, <1>kind, <1>word, <1>known DEF Place,
       DeadGetting, PlaceRight, LockOnly
  <2> QED
    BY <2>1, <2>4, <1>3, <1>same, <1>new1, <1>kind, <1>word, <1>known, <1>1, LossTaken
<1>right. ThreadRight(t)'
  BY <1>place, <1>hold, <1>pending, <1>dead, <1>mutexes DEF ThreadRight
<1>calm. Others(t)
  BY <1>others DEF Others
<1>quiet. Quiet(t)
  <2>1. ASSUME NEW x \in Mutexes, stray' = {} PROVE Listed(t, x)' <=> Listed(t, x)
    BY <2>1, <1>1, <1>2, <1>3, <1>same, <1>new1, <1>kind, <1>word, <1>known, Names
       DEF Listed, Off, Place, OnlyWord, HoldRight, Between, At, InCall, PlaceRight,
       DeadRight, Getting, Giving, DeadGetting, LockOnly, TypeOK, AllKinds
  <2>2. ASSUME NEW x \in Mutexes, owner'[x] # owner[x]
        PROVE  /\ word[x].tid = t
               /\ owner'[x] = NotRecoverable => At(t, "disown") /\ th[t].m = x
    BY <2>2, <1>same
  <2>3. /\ th[t].at \notin {"link", "dead_link"}
        /\ th'[t].at \notin {"link", "dead_link", "disown"}
    BY <1>1, <1>2, <1>3, <1>same, <1>new1, <1>kind, <1>word, <1>known DEF Place
  <2> QED
    BY <2>1, <2>2, <2>3, <1>same, <1>2 DEF Quiet
<1> QED
  BY <1>types, <1>calm, <1>right, <1>free, <1>loss, OneSteps, <1>quiet

\* The word was not free.
LEMMA LockCasLostCore ==
    ASSUME CoreInv, NEW t \in Threads, LockCas(t), word[th[t].m] # Free
    PROVE  CoreInv' /\ Others(t) /\ Quiet(t)
<1>1. TypeOK /\ th[t].at = "pcas" /\ InCall(t)
  BY DEF CoreInv, LockCas, At, InCall
<1>2. /\ th[t].m \in Mutexes /\ t \notin dead /\ th[t].m # NULL
      /\ PlaceRight(t) /\ HoldRight(t) /\ PendingRight(t) /\ DeadRight(t)
      /\ \A x \in Mutexes : TellRight(t, x) /\ OwnerRight(t, x) /\ CountRight(t, x)
  BY <1>1, InCallIs
<1>3. /\ th' \in [Threads -> ThreadState] /\ OthersStay(t)
      /\ Place(t, "pcall", th[t].m, th[t].old, th[t].new)
  BY <1>1, GotoIs DEF LockCas, Places, Getting, Giving, DeadGetting, LockOnly
<1>same. /\ kind' = kind /\ word' = word /\ owner' = owner /\ count' = count
         /\ nusers' = nusers /\ next' = next /\ prev' = prev /\ pending' = pending
         /\ depth' = depth /\ lost' = lost /\ stray' = stray /\ dead' = dead
  BY DEF LockCas, fields, links, ghosts
<1>types. TypeOK'
  BY <1>1, <1>3, <1>same DEF TypeOK
<1>others. ASSUME NEW u \in Threads \ {t} PROVE Calm(u)
  <2>1. th'[u] = th[u] /\ dead' = dead
    BY <1>3, <1>same DEF OthersStay
  <2>2. pending'[u] = pending[u]
    BY <1>same
  <2>3. depth'[u] = depth[u]
    BY <1>same
  <2>4. ASSUME NEW x \in Mutexes
        PROVE  /\ word'[x].tid = u => word[x].tid = u
               /\ word[x].tid = u /\ u \notin dead
                    => /\ word'[x].tid = u /\ owner'[x] = owner[x]
                       /\ count'[x] = count[x] \/ owner[x] = NotRecoverable
               /\ owner'[x] = u => owner[x] = u
    BY <1>3, <1>same, <1>2, Names DEF OnlyWord
  <2> QED
    BY <2>1, <2>2, <2>3, <2>4, <1>same DEF Calm
<1>place. PlaceRight(t)'
  BY <1>1, <1>2, <1>3, <1>same, Names DEF PlaceRight, Place, InCall, At, Getting, Giving,
     DeadGetting, LockOnly
<1>hold. HoldRight(t)'
  BY <1>1, <1>2, <1>3, <1>same, Names DEF HoldRight, Place, Between, At, OnlyWord, Getting,
     Giving, DeadGetting
<1>pending. PendingRight(t)'
  BY <1>1, <1>2, <1>3, <1>same DEF PendingRight, Place, InCall, At, PlaceRight, LockOnly
<1>dead. DeadRight(t)'
  BY <1>1, <1>2, <1>3, <1>same, Names DEF DeadRight, Place, At, InCall, PlaceRight, LockOnly
<1>mutexes. ASSUME NEW x \in Mutexes
            PROVE  TellRight(t, x)' /\ OwnerRight(t, x)' /\ CountRight(t, x)'
  <2>1. TellRight(t, x)'
    BY <1>1, <1>2, <1>3, <1>same, Names DEF TellRight, Place, OnlyWord, HoldRight, Between,
       At, InCall, PlaceRight, Getting, Giving, DeadGetting, LockOnly
  <2>2. OwnerRight(t, x)'
    BY <1>1, <1>2, <1>3, <1>same, Names DEF OwnerRight, Place, OnlyWord, HoldRight, Between,
       At, InCall, Getting, Giving, DeadGetting, LockOnly
  <2>3. CountRight(t, x)'
    BY <1>1, <1>2, <1>3, <1>same, Names DEF CountRight, Place, OnlyWord, HoldRight, Between,
       At, InCall, Getting, Giving, DeadGetting, LockOnly
  <2> QED
    BY <2>1, <2>2, <2>3
<1>free. DiedFree'
  BY <1>1, <1>2, <1>3, <1>same DEF CoreInv, DiedFree, OnlyWord, PlaceRight, At, LockOnly
<1>loss. LostRight'
  <2>1. LostRight
    BY DEF CoreInv
  <2>2. \A x \in lost' : /\ word'[x].tid = word[x].tid
                         /\ word[x].tid = Nobody /\ word[x].died => word'[x].died
                         /\ th[t].m = x /\ th[t].at \in DeadGetting
                              => th'[t].m = x /\ th'[t].at \in DeadGetting
    BY <1>1, <1>2, <1>3, <1>same, Names DEF DeadGetting, Place, OnlyWord
  <2> QED
    BY <2>1, <2>2, <1>3, <1>same, LossKept DEF OthersStay
<1>right. ThreadRight(t)'
  BY <1>place, <1>hold, <1>pending, <1>dead, <1>mutexes DEF ThreadRight
<1>calm. Others(t)
  BY <1>others DEF Others
<1>quiet. Quiet(t)
  <2>1. ASSUME NEW x \in Mutexes, stray' = {} PROVE Listed(t, x)' <=> Listed(t, x)
    BY <2>1, <1>1, <1>2, <1>3, <1>same, Names DEF Listed, Off, Place, OnlyWord, HoldRight,
       Between, At, InCall, PlaceRight, DeadRight, Getting, Giving, DeadGetting, LockOnly,
       TypeOK, AllKinds
  <2>2. ASSUME NEW x \in Mutexes, owner'[x] # owner[x]
        PROVE  /\ word[x].tid = t
               /\ owner'[x] = NotRecoverable => At(t, "disown") /\ th[t].m = x
    BY <2>2, <1>same
  <2>3. /\ th[t].at \notin {"link", "dead_link"}
        /\ th'[t].at \notin {"link", "dead_link", "disown"}
    BY <1>1, <1>2, <1>3, <1>same DEF Place
  <2> QED
    BY <2>1, <2>2, <2>3, <1>same, <1>2 DEF Quiet
<1> QED
  BY <1>types, <1>calm, <1>right, <1>free, <1>loss, OneSteps, <1>quiet

\* The kernel gives the word.
LEMMA LockKernelWonCore ==
    ASSUME CoreInv, NEW t \in Threads, LockKernel(t), word[th[t].m].tid = Nobody, Goto(t,
           "pcheck"),
           word' = [word EXCEPT ![th[t].m].tid = t]
    PROVE  CoreInv' /\ Others(t) /\ Quiet(t)
<1>1. TypeOK /\ th[t].at = "pcall" /\ InCall(t)
  BY DEF CoreInv, LockKernel, At, InCall
<1>2. /\ th[t].m \in Mutexes /\ t \notin dead /\ th[t].m # NULL
      /\ PlaceRight(t) /\ HoldRight(t) /\ PendingRight(t) /\ DeadRight(t)
      /\ \A x \in Mutexes : TellRight(t, x) /\ OwnerRight(t, x) /\ CountRight(t, x)
  BY <1>1, InCallIs
<1>kind. ~kind[th[t].m].robust /\ kind[th[t].m].pi
  BY <1>1, <1>2 DEF PlaceRight, LockOnly, TypeOK, AllKinds
<1>word. word[th[t].m].tid = Nobody
  OBVIOUS
<1>known. depth[t][th[t].m] = 0
  BY <1>word, <1>1, <1>2, Names DEF TellRight, TypeOK
<1>3. /\ th' \in [Threads -> ThreadState] /\ OthersStay(t)
      /\ Place(t, "pcheck", th[t].m, th[t].old, th[t].new)
  BY <1>1, GotoIs DEF LockKernel, Places, Getting, Giving, DeadGetting, LockOnly
<1>same. /\ kind' = kind /\ owner' = owner /\ count' = count /\ nusers' = nusers
         /\ next' = next /\ prev' = prev /\ pending' = pending /\ depth' = depth
         /\ lost' = lost /\ stray' = stray /\ dead' = dead
  BY DEF LockKernel, fields, links, ghosts
<1>new1. /\ word' \in [Mutexes -> Word] /\ OnlyWord(th[t].m)
         /\ word'[th[t].m].tid = t /\ word'[th[t].m].died = word[th[t].m].died
  BY <1>1, <1>2, TakenIs DEF LockKernel
<1>types. TypeOK'
  BY <1>1, <1>3, <1>same, <1>new1, <1>kind, <1>word, <1>known DEF TypeOK
<1>others. ASSUME NEW u \in Threads \ {t} PROVE Calm(u)
  <2>1. th'[u] = th[u] /\ dead' = dead
    BY <1>3, <1>same DEF OthersStay
  <2>2. pending'[u] = pending[u]
    BY <1>same
  <2>3. depth'[u] = depth[u]
    BY <1>same
  <2>4. ASSUME NEW x \in Mutexes
        PROVE  /\ word'[x].tid = u => word[x].tid = u
               /\ word[x].tid = u /\ u \notin dead
                    => /\ word'[x].tid = u /\ owner'[x] = owner[x]
                       /\ count'[x] = count[x] \/ owner[x] = NotRecoverable
               /\ owner'[x] = u => owner[x] = u
    BY <1>3, <1>same, <1>new1, <1>kind, <1>word, <1>known, <1>2, Names DEF OnlyWord
  <2> QED
    BY <2>1, <2>2, <2>3, <2>4, <1>same DEF Calm
<1>place. PlaceRight(t)'
  BY <1>1, <1>2, <1>3, <1>same, <1>new1, <1>kind, <1>word, <1>known, Names DEF PlaceRight,
     Place, InCall, At, Getting, Giving, DeadGetting, LockOnly
<1>hold. HoldRight(t)'
  BY <1>1, <1>2, <1>3, <1>same, <1>new1, <1>kind, <1>word, <1>known, Names DEF HoldRight,
     Place, Between, At, OnlyWord, Getting, Giving, DeadGetting
<1>pending. PendingRight(t)'
  BY <1>1, <1>2, <1>3, <1>same, <1>new1, <1>kind, <1>word, <1>known DEF PendingRight, Place,
     InCall, At, PlaceRight, LockOnly
<1>dead. DeadRight(t)'
  BY <1>1, <1>2, <1>3, <1>same, <1>new1, <1>kind, <1>word, <1>known, Names DEF DeadRight,
     Place, At, InCall, PlaceRight, LockOnly
<1>mutexes. ASSUME NEW x \in Mutexes
            PROVE  TellRight(t, x)' /\ OwnerRight(t, x)' /\ CountRight(t, x)'
  <2>1. TellRight(t, x)'
    BY <1>1, <1>2, <1>3, <1>same, <1>new1, <1>kind, <1>word, <1>known, Names DEF TellRight,
       Place, OnlyWord, HoldRight, Between, At, InCall, PlaceRight, Getting, Giving,
       DeadGetting, LockOnly
  <2>2. OwnerRight(t, x)'
    BY <1>1, <1>2, <1>3, <1>same, <1>new1, <1>kind, <1>word, <1>known, Names DEF OwnerRight,
       Place, OnlyWord, HoldRight, Between, At, InCall, Getting, Giving, DeadGetting,
       LockOnly
  <2>3. CountRight(t, x)'
    BY <1>1, <1>2, <1>3, <1>same, <1>new1, <1>kind, <1>word, <1>known, Names DEF CountRight,
       Place, OnlyWord, HoldRight, Between, At, InCall, Getting, Giving, DeadGetting,
       LockOnly
  <2> QED
    BY <2>1, <2>2, <2>3
<1>free. DiedFree'
  BY <1>1, <1>2, <1>3, <1>same, <1>new1, <1>kind, <1>word, <1>known DEF CoreInv, DiedFree,
     OnlyWord, PlaceRight, At, LockOnly
<1>loss. LostRight'
  <2>1. LostRight
    BY DEF CoreInv
  <2>2. th[t].m \in lost => /\ kind[th[t].m].robust
                           /\ \/ word[th[t].m].tid \in dead
                              \/ word[th[t].m].tid = Nobody /\ word[th[t].m].died
                              \/ \E v \in Threads : /\ word[th[t].m].tid = v
                                                    /\ th[v].m = th[t].m /\ th[v].at \in DeadGetting
    BY <2>1 DEF LostRight
  <2>3. dead \subseteq Threads /\ Nobody \notin Threads
    BY <1>1, Names DEF TypeOK
  <2>4. th[t].m \in lost
          => word'[th[t].m].tid = t /\ th'[t].m = th[t].m /\ th'[t].at \in DeadGetting
    BY <2>2, <2>3, <1>1, <1>2, <1>3, <1>same, <1>new1, <1>kind, <1>word, <1>known DEF Place,
       DeadGetting, PlaceRight, LockOnly
  <2> QED
    BY <2>1, <2>4, <1>3, <1>same, <1>new1, <1>kind, <1>word, <1>known, <1>1, LossTaken
<1>right. ThreadRight(t)'
  BY <1>place, <1>hold, <1>pending, <1>dead, <1>mutexes DEF ThreadRight
<1>calm. Others(t)
  BY <1>others DEF Others
<1>quiet. Quiet(t)
  <2>1. ASSUME NEW x \in Mutexes, stray' = {} PROVE Listed(t, x)' <=> Listed(t, x)
    BY <2>1, <1>1, <1>2, <1>3, <1>same, <1>new1, <1>kind, <1>word, <1>known, Names
       DEF Listed, Off, Place, OnlyWord, HoldRight, Between, At, InCall, PlaceRight,
       DeadRight, Getting, Giving, DeadGetting, LockOnly, TypeOK, AllKinds
  <2>2. ASSUME NEW x \in Mutexes, owner'[x] # owner[x]
        PROVE  /\ word[x].tid = t
               /\ owner'[x] = NotRecoverable => At(t, "disown") /\ th[t].m = x
    BY <2>2, <1>same
  <2>3. /\ th[t].at \notin {"link", "dead_link"}
        /\ th'[t].at \notin {"link", "dead_link", "disown"}
    BY <1>1, <1>2, <1>3, <1>same, <1>new1, <1>kind, <1>word, <1>known DEF Place
  <2> QED
    BY <2>1, <2>2, <2>3, <1>same, <1>2 DEF Quiet
<1> QED
  BY <1>types, <1>calm, <1>right, <1>free, <1>loss, OneSteps, <1>quiet

\* ESRCH or EDEADLK.
LEMMA LockKernelHungCore ==
    ASSUME CoreInv, NEW t \in Threads, LockKernel(t), Goto(t, "hung"), word' = word
    PROVE  CoreInv' /\ Others(t) /\ Quiet(t)
<1>1. TypeOK /\ th[t].at = "pcall" /\ InCall(t)
  BY DEF CoreInv, LockKernel, At, InCall
<1>2. /\ th[t].m \in Mutexes /\ t \notin dead /\ th[t].m # NULL
      /\ PlaceRight(t) /\ HoldRight(t) /\ PendingRight(t) /\ DeadRight(t)
      /\ \A x \in Mutexes : TellRight(t, x) /\ OwnerRight(t, x) /\ CountRight(t, x)
  BY <1>1, InCallIs
<1>3. /\ th' \in [Threads -> ThreadState] /\ OthersStay(t)
      /\ Place(t, "hung", th[t].m, th[t].old, th[t].new)
  BY <1>1, GotoIs DEF LockKernel, Places, Getting, Giving, DeadGetting, LockOnly
<1>same. /\ kind' = kind /\ word' = word /\ owner' = owner /\ count' = count
         /\ nusers' = nusers /\ next' = next /\ prev' = prev /\ pending' = pending
         /\ depth' = depth /\ lost' = lost /\ stray' = stray /\ dead' = dead
  BY DEF LockKernel, fields, links, ghosts
<1>types. TypeOK'
  BY <1>1, <1>3, <1>same DEF TypeOK
<1>others. ASSUME NEW u \in Threads \ {t} PROVE Calm(u)
  <2>1. th'[u] = th[u] /\ dead' = dead
    BY <1>3, <1>same DEF OthersStay
  <2>2. pending'[u] = pending[u]
    BY <1>same
  <2>3. depth'[u] = depth[u]
    BY <1>same
  <2>4. ASSUME NEW x \in Mutexes
        PROVE  /\ word'[x].tid = u => word[x].tid = u
               /\ word[x].tid = u /\ u \notin dead
                    => /\ word'[x].tid = u /\ owner'[x] = owner[x]
                       /\ count'[x] = count[x] \/ owner[x] = NotRecoverable
               /\ owner'[x] = u => owner[x] = u
    BY <1>3, <1>same, <1>2, Names DEF OnlyWord
  <2> QED
    BY <2>1, <2>2, <2>3, <2>4, <1>same DEF Calm
<1>place. PlaceRight(t)'
  BY <1>1, <1>2, <1>3, <1>same, Names DEF PlaceRight, Place, InCall, At, Getting, Giving,
     DeadGetting, LockOnly
<1>hold. HoldRight(t)'
  BY <1>1, <1>2, <1>3, <1>same, Names DEF HoldRight, Place, Between, At, OnlyWord, Getting,
     Giving, DeadGetting
<1>pending. PendingRight(t)'
  BY <1>1, <1>2, <1>3, <1>same DEF PendingRight, Place, InCall, At, PlaceRight, LockOnly
<1>dead. DeadRight(t)'
  BY <1>1, <1>2, <1>3, <1>same, Names DEF DeadRight, Place, At, InCall, PlaceRight, LockOnly
<1>mutexes. ASSUME NEW x \in Mutexes
            PROVE  TellRight(t, x)' /\ OwnerRight(t, x)' /\ CountRight(t, x)'
  <2>1. TellRight(t, x)'
    BY <1>1, <1>2, <1>3, <1>same, Names DEF TellRight, Place, OnlyWord, HoldRight, Between,
       At, InCall, PlaceRight, Getting, Giving, DeadGetting, LockOnly
  <2>2. OwnerRight(t, x)'
    BY <1>1, <1>2, <1>3, <1>same, Names DEF OwnerRight, Place, OnlyWord, HoldRight, Between,
       At, InCall, Getting, Giving, DeadGetting, LockOnly
  <2>3. CountRight(t, x)'
    BY <1>1, <1>2, <1>3, <1>same, Names DEF CountRight, Place, OnlyWord, HoldRight, Between,
       At, InCall, Getting, Giving, DeadGetting, LockOnly
  <2> QED
    BY <2>1, <2>2, <2>3
<1>free. DiedFree'
  BY <1>1, <1>2, <1>3, <1>same DEF CoreInv, DiedFree, OnlyWord, PlaceRight, At, LockOnly
<1>loss. LostRight'
  <2>1. LostRight
    BY DEF CoreInv
  <2>2. \A x \in lost' : /\ word'[x].tid = word[x].tid
                         /\ word[x].tid = Nobody /\ word[x].died => word'[x].died
                         /\ th[t].m = x /\ th[t].at \in DeadGetting
                              => th'[t].m = x /\ th'[t].at \in DeadGetting
    BY <1>1, <1>2, <1>3, <1>same, Names DEF DeadGetting, Place, OnlyWord
  <2> QED
    BY <2>1, <2>2, <1>3, <1>same, LossKept DEF OthersStay
<1>right. ThreadRight(t)'
  BY <1>place, <1>hold, <1>pending, <1>dead, <1>mutexes DEF ThreadRight
<1>calm. Others(t)
  BY <1>others DEF Others
<1>quiet. Quiet(t)
  <2>1. ASSUME NEW x \in Mutexes, stray' = {} PROVE Listed(t, x)' <=> Listed(t, x)
    BY <2>1, <1>1, <1>2, <1>3, <1>same, Names DEF Listed, Off, Place, OnlyWord, HoldRight,
       Between, At, InCall, PlaceRight, DeadRight, Getting, Giving, DeadGetting, LockOnly,
       TypeOK, AllKinds
  <2>2. ASSUME NEW x \in Mutexes, owner'[x] # owner[x]
        PROVE  /\ word[x].tid = t
               /\ owner'[x] = NotRecoverable => At(t, "disown") /\ th[t].m = x
    BY <2>2, <1>same
  <2>3. /\ th[t].at \notin {"link", "dead_link"}
        /\ th'[t].at \notin {"link", "dead_link", "disown"}
    BY <1>1, <1>2, <1>3, <1>same DEF Place
  <2> QED
    BY <2>1, <2>2, <2>3, <1>same, <1>2 DEF Quiet
<1> QED
  BY <1>types, <1>calm, <1>right, <1>free, <1>loss, OneSteps, <1>quiet

\* The thread waits in the kernel.
LEMMA LockKernelBlockedCore ==
    ASSUME CoreInv, NEW t \in Threads, LockKernel(t), Goto(t, "pblock"),
           word' = [word EXCEPT ![th[t].m].waiters = TRUE]
    PROVE  CoreInv' /\ Others(t) /\ Quiet(t)
<1>1. TypeOK /\ th[t].at = "pcall" /\ InCall(t)
  BY DEF CoreInv, LockKernel, At, InCall
<1>2. /\ th[t].m \in Mutexes /\ t \notin dead /\ th[t].m # NULL
      /\ PlaceRight(t) /\ HoldRight(t) /\ PendingRight(t) /\ DeadRight(t)
      /\ \A x \in Mutexes : TellRight(t, x) /\ OwnerRight(t, x) /\ CountRight(t, x)
  BY <1>1, InCallIs
<1>kind. ~kind[th[t].m].robust /\ kind[th[t].m].pi
  BY <1>1, <1>2 DEF PlaceRight, LockOnly, TypeOK, AllKinds
<1>3. /\ th' \in [Threads -> ThreadState] /\ OthersStay(t)
      /\ Place(t, "pblock", th[t].m, th[t].old, th[t].new)
  BY <1>1, GotoIs DEF LockKernel, Places, Getting, Giving, DeadGetting, LockOnly
<1>same. /\ kind' = kind /\ owner' = owner /\ count' = count /\ nusers' = nusers
         /\ next' = next /\ prev' = prev /\ pending' = pending /\ depth' = depth
         /\ lost' = lost /\ stray' = stray /\ dead' = dead
  BY DEF LockKernel, fields, links, ghosts
<1>new1. /\ word' \in [Mutexes -> Word] /\ OnlyWord(th[t].m)
         /\ word'[th[t].m].tid = word[th[t].m].tid /\ word'[th[t].m].died = word[th[t].m].died
  <2>1. word[th[t].m] \in Word
    BY <1>1, <1>2 DEF TypeOK
  <2> DEFINE w == [word[th[t].m] EXCEPT !.waiters = TRUE]
  <2>2. w \in Word /\ w.tid = word[th[t].m].tid /\ w.died = word[th[t].m].died
    BY <2>1 DEF Word
  <2>3. word' = [word EXCEPT ![th[t].m] = w]
    OBVIOUS
  <2> HIDE DEF w
  <2> QED
    BY <1>1, <1>2, <2>2, <2>3, WordIs
<1>types. TypeOK'
  BY <1>1, <1>3, <1>same, <1>new1, <1>kind DEF TypeOK
<1>others. ASSUME NEW u \in Threads \ {t} PROVE Calm(u)
  <2>1. th'[u] = th[u] /\ dead' = dead
    BY <1>3, <1>same DEF OthersStay
  <2>2. pending'[u] = pending[u]
    BY <1>same
  <2>3. depth'[u] = depth[u]
    BY <1>same
  <2>4. ASSUME NEW x \in Mutexes
        PROVE  /\ word'[x].tid = u => word[x].tid = u
               /\ word[x].tid = u /\ u \notin dead
                    => /\ word'[x].tid = u /\ owner'[x] = owner[x]
                       /\ count'[x] = count[x] \/ owner[x] = NotRecoverable
               /\ owner'[x] = u => owner[x] = u
    BY <1>3, <1>same, <1>new1, <1>kind, <1>2, Names DEF OnlyWord
  <2> QED
    BY <2>1, <2>2, <2>3, <2>4, <1>same DEF Calm
<1>place. PlaceRight(t)'
  BY <1>1, <1>2, <1>3, <1>same, <1>new1, <1>kind, Names DEF PlaceRight, Place, InCall, At,
     Getting, Giving, DeadGetting, LockOnly
<1>hold. HoldRight(t)'
  BY <1>1, <1>2, <1>3, <1>same, <1>new1, <1>kind, Names DEF HoldRight, Place, Between, At,
     OnlyWord, Getting, Giving, DeadGetting
<1>pending. PendingRight(t)'
  BY <1>1, <1>2, <1>3, <1>same, <1>new1, <1>kind DEF PendingRight, Place, InCall, At,
     PlaceRight, LockOnly
<1>dead. DeadRight(t)'
  BY <1>1, <1>2, <1>3, <1>same, <1>new1, <1>kind, Names DEF DeadRight, Place, At, InCall,
     PlaceRight, LockOnly
<1>mutexes. ASSUME NEW x \in Mutexes
            PROVE  TellRight(t, x)' /\ OwnerRight(t, x)' /\ CountRight(t, x)'
  <2>1. TellRight(t, x)'
    BY <1>1, <1>2, <1>3, <1>same, <1>new1, <1>kind, Names DEF TellRight, Place, OnlyWord,
       HoldRight, Between, At, InCall, PlaceRight, Getting, Giving, DeadGetting, LockOnly
  <2>2. OwnerRight(t, x)'
    BY <1>1, <1>2, <1>3, <1>same, <1>new1, <1>kind, Names DEF OwnerRight, Place, OnlyWord,
       HoldRight, Between, At, InCall, Getting, Giving, DeadGetting, LockOnly
  <2>3. CountRight(t, x)'
    BY <1>1, <1>2, <1>3, <1>same, <1>new1, <1>kind, Names DEF CountRight, Place, OnlyWord,
       HoldRight, Between, At, InCall, Getting, Giving, DeadGetting, LockOnly
  <2> QED
    BY <2>1, <2>2, <2>3
<1>free. DiedFree'
  BY <1>1, <1>2, <1>3, <1>same, <1>new1, <1>kind DEF CoreInv, DiedFree, OnlyWord,
     PlaceRight, At, LockOnly
<1>loss. LostRight'
  <2>1. LostRight
    BY DEF CoreInv
  <2>2. th[t].m \in lost => /\ kind[th[t].m].robust
                           /\ \/ word[th[t].m].tid \in dead
                              \/ word[th[t].m].tid = Nobody /\ word[th[t].m].died
                              \/ \E v \in Threads : /\ word[th[t].m].tid = v
                                                    /\ th[v].m = th[t].m /\ th[v].at \in DeadGetting
    BY <2>1 DEF LostRight
  <2>3. dead \subseteq Threads /\ Nobody \notin Threads
    BY <1>1, Names DEF TypeOK
  <2>4. th[t].m \in lost
          => word'[th[t].m].tid = t /\ th'[t].m = th[t].m /\ th'[t].at \in DeadGetting
    BY <2>2, <1>kind
  <2> QED
    BY <2>1, <2>4, <1>3, <1>same, <1>new1, <1>kind, <1>1, LossTaken
<1>right. ThreadRight(t)'
  BY <1>place, <1>hold, <1>pending, <1>dead, <1>mutexes DEF ThreadRight
<1>calm. Others(t)
  BY <1>others DEF Others
<1>quiet. Quiet(t)
  <2>1. ASSUME NEW x \in Mutexes, stray' = {} PROVE Listed(t, x)' <=> Listed(t, x)
    BY <2>1, <1>1, <1>2, <1>3, <1>same, <1>new1, <1>kind, Names DEF Listed, Off, Place,
       OnlyWord, HoldRight, Between, At, InCall, PlaceRight, DeadRight, Getting, Giving,
       DeadGetting, LockOnly, TypeOK, AllKinds
  <2>2. ASSUME NEW x \in Mutexes, owner'[x] # owner[x]
        PROVE  /\ word[x].tid = t
               /\ owner'[x] = NotRecoverable => At(t, "disown") /\ th[t].m = x
    BY <2>2, <1>same
  <2>3. /\ th[t].at \notin {"link", "dead_link"}
        /\ th'[t].at \notin {"link", "dead_link", "disown"}
    BY <1>1, <1>2, <1>3, <1>same, <1>new1, <1>kind DEF Place
  <2> QED
    BY <2>1, <2>2, <2>3, <1>same, <1>2 DEF Quiet
<1> QED
  BY <1>types, <1>calm, <1>right, <1>free, <1>loss, OneSteps, <1>quiet

\* The kernel passes on the word of a dead thread.
LEMMA HandOffCore ==
    ASSUME CoreInv, NEW t \in Threads, HandOff(t)
    PROVE  CoreInv' /\ Others(t) /\ Quiet(t)
<1>1. TypeOK /\ th[t].at = "pblock" /\ InCall(t)
  BY DEF CoreInv, HandOff, At, InCall
<1>2. /\ th[t].m \in Mutexes /\ t \notin dead /\ th[t].m # NULL
      /\ PlaceRight(t) /\ HoldRight(t) /\ PendingRight(t) /\ DeadRight(t)
      /\ \A x \in Mutexes : TellRight(t, x) /\ OwnerRight(t, x) /\ CountRight(t, x)
  BY <1>1, InCallIs
<1>kind. ~kind[th[t].m].robust /\ kind[th[t].m].pi
  BY <1>1, <1>2 DEF PlaceRight, LockOnly, TypeOK, AllKinds
<1>word. word[th[t].m].tid \in dead /\ word[th[t].m].tid # t /\ dead \subseteq Threads
  BY <1>1, <1>2 DEF HandOff, TypeOK
<1>known. depth[t][th[t].m] = 0
  BY <1>word, <1>1, <1>2, Names DEF TellRight, TypeOK
<1>3. /\ th' \in [Threads -> ThreadState] /\ OthersStay(t)
      /\ Place(t, "pcheck", th[t].m, th[t].old, th[t].new)
  BY <1>1, GotoIs DEF HandOff, Places, Getting, Giving, DeadGetting, LockOnly
<1>same. /\ kind' = kind /\ owner' = owner /\ count' = count /\ nusers' = nusers
         /\ next' = next /\ prev' = prev /\ pending' = pending /\ depth' = depth
         /\ lost' = lost /\ stray' = stray /\ dead' = dead
  BY DEF HandOff, fields, links, ghosts
<1>new1. /\ word' \in [Mutexes -> Word] /\ OnlyWord(th[t].m)
         /\ word'[th[t].m].tid = t
  <2> DEFINE w == [tid |-> t, died |-> TRUE, waiters |-> Blocked(th[t].m) # {t}]
  <2>1. w \in Word /\ w.tid = t
    BY DEF Word
  <2>2. word' = [word EXCEPT ![th[t].m] = w]
    BY DEF HandOff
  <2> HIDE DEF w
  <2> QED
    BY <1>1, <1>2, <2>1, <2>2, WordIs
<1>types. TypeOK'
  BY <1>1, <1>3, <1>same, <1>new1, <1>kind, <1>word, <1>known DEF TypeOK
<1>others. ASSUME NEW u \in Threads \ {t} PROVE Calm(u)
  <2>1. th'[u] = th[u] /\ dead' = dead
    BY <1>3, <1>same DEF OthersStay
  <2>2. pending'[u] = pending[u]
    BY <1>same
  <2>3. depth'[u] = depth[u]
    BY <1>same
  <2>4. ASSUME NEW x \in Mutexes
        PROVE  /\ word'[x].tid = u => word[x].tid = u
               /\ word[x].tid = u /\ u \notin dead
                    => /\ word'[x].tid = u /\ owner'[x] = owner[x]
                       /\ count'[x] = count[x] \/ owner[x] = NotRecoverable
               /\ owner'[x] = u => owner[x] = u
    BY <1>3, <1>same, <1>new1, <1>kind, <1>word, <1>known, <1>2, Names DEF OnlyWord
  <2> QED
    BY <2>1, <2>2, <2>3, <2>4, <1>same DEF Calm
<1>place. PlaceRight(t)'
  BY <1>1, <1>2, <1>3, <1>same, <1>new1, <1>kind, <1>word, <1>known, Names DEF PlaceRight,
     Place, InCall, At, Getting, Giving, DeadGetting, LockOnly
<1>hold. HoldRight(t)'
  BY <1>1, <1>2, <1>3, <1>same, <1>new1, <1>kind, <1>word, <1>known, Names DEF HoldRight,
     Place, Between, At, OnlyWord, Getting, Giving, DeadGetting
<1>pending. PendingRight(t)'
  BY <1>1, <1>2, <1>3, <1>same, <1>new1, <1>kind, <1>word, <1>known DEF PendingRight, Place,
     InCall, At, PlaceRight, LockOnly
<1>dead. DeadRight(t)'
  BY <1>1, <1>2, <1>3, <1>same, <1>new1, <1>kind, <1>word, <1>known, Names DEF DeadRight,
     Place, At, InCall, PlaceRight, LockOnly
<1>mutexes. ASSUME NEW x \in Mutexes
            PROVE  TellRight(t, x)' /\ OwnerRight(t, x)' /\ CountRight(t, x)'
  <2>1. TellRight(t, x)'
    BY <1>1, <1>2, <1>3, <1>same, <1>new1, <1>kind, <1>word, <1>known, Names DEF TellRight,
       Place, OnlyWord, HoldRight, Between, At, InCall, PlaceRight, Getting, Giving,
       DeadGetting, LockOnly
  <2>2. OwnerRight(t, x)'
    BY <1>1, <1>2, <1>3, <1>same, <1>new1, <1>kind, <1>word, <1>known, Names DEF OwnerRight,
       Place, OnlyWord, HoldRight, Between, At, InCall, Getting, Giving, DeadGetting,
       LockOnly
  <2>3. CountRight(t, x)'
    BY <1>1, <1>2, <1>3, <1>same, <1>new1, <1>kind, <1>word, <1>known, Names DEF CountRight,
       Place, OnlyWord, HoldRight, Between, At, InCall, Getting, Giving, DeadGetting,
       LockOnly
  <2> QED
    BY <2>1, <2>2, <2>3
<1>free. DiedFree'
  BY <1>1, <1>2, <1>3, <1>same, <1>new1, <1>kind, <1>word, <1>known DEF CoreInv, DiedFree,
     OnlyWord, PlaceRight, At, LockOnly
<1>loss. LostRight'
  <2>1. LostRight
    BY DEF CoreInv
  <2>2. th[t].m \in lost => /\ kind[th[t].m].robust
                           /\ \/ word[th[t].m].tid \in dead
                              \/ word[th[t].m].tid = Nobody /\ word[th[t].m].died
                              \/ \E v \in Threads : /\ word[th[t].m].tid = v
                                                    /\ th[v].m = th[t].m /\ th[v].at \in DeadGetting
    BY <2>1 DEF LostRight
  <2>3. dead \subseteq Threads /\ Nobody \notin Threads
    BY <1>1, Names DEF TypeOK
  <2>4. th[t].m \in lost
          => word'[th[t].m].tid = t /\ th'[t].m = th[t].m /\ th'[t].at \in DeadGetting
    BY <2>2, <2>3, <1>1, <1>2, <1>3, <1>same, <1>new1, <1>kind, <1>word, <1>known DEF Place,
       DeadGetting, PlaceRight, LockOnly
  <2> QED
    BY <2>1, <2>4, <1>3, <1>same, <1>new1, <1>kind, <1>word, <1>known, <1>1, LossTaken
<1>right. ThreadRight(t)'
  BY <1>place, <1>hold, <1>pending, <1>dead, <1>mutexes DEF ThreadRight
<1>calm. Others(t)
  BY <1>others DEF Others
<1>quiet. Quiet(t)
  <2>1. ASSUME NEW x \in Mutexes, stray' = {} PROVE Listed(t, x)' <=> Listed(t, x)
    BY <2>1, <1>1, <1>2, <1>3, <1>same, <1>new1, <1>kind, <1>word, <1>known, Names
       DEF Listed, Off, Place, OnlyWord, HoldRight, Between, At, InCall, PlaceRight,
       DeadRight, Getting, Giving, DeadGetting, LockOnly, TypeOK, AllKinds
  <2>2. ASSUME NEW x \in Mutexes, owner'[x] # owner[x]
        PROVE  /\ word[x].tid = t
               /\ owner'[x] = NotRecoverable => At(t, "disown") /\ th[t].m = x
    BY <2>2, <1>same
  <2>3. /\ th[t].at \notin {"link", "dead_link"}
        /\ th'[t].at \notin {"link", "dead_link", "disown"}
    BY <1>1, <1>2, <1>3, <1>same, <1>new1, <1>kind, <1>word, <1>known DEF Place
  <2> QED
    BY <2>1, <2>2, <2>3, <1>same, <1>2 DEF Quiet
<1> QED
  BY <1>types, <1>calm, <1>right, <1>free, <1>loss, OneSteps, <1>quiet

\* The owner had not died.
LEMMA LockCheckCore ==
    ASSUME CoreInv, NEW t \in Threads, LockCheck(t), ~word[th[t].m].died
    PROVE  CoreInv' /\ Others(t) /\ Quiet(t)
<1>1. TypeOK /\ th[t].at = "pcheck" /\ InCall(t)
  BY DEF CoreInv, LockCheck, At, InCall
<1>2. /\ th[t].m \in Mutexes /\ t \notin dead /\ th[t].m # NULL
      /\ PlaceRight(t) /\ HoldRight(t) /\ PendingRight(t) /\ DeadRight(t)
      /\ \A x \in Mutexes : TellRight(t, x) /\ OwnerRight(t, x) /\ CountRight(t, x)
  BY <1>1, InCallIs
<1>known. word[th[t].m].tid = t /\ depth[t][th[t].m] = 0
  BY <1>1, <1>2 DEF HoldRight, Between, Getting, Giving, DeadGetting
<1>3. /\ th' \in [Threads -> ThreadState] /\ OthersStay(t)
      /\ Place(t, "record", th[t].m, th[t].old, th[t].new)
  BY <1>1, GotoIs DEF LockCheck, Places, Getting, Giving, DeadGetting, LockOnly
<1>same. /\ kind' = kind /\ word' = word /\ owner' = owner /\ count' = count
         /\ nusers' = nusers /\ next' = next /\ prev' = prev /\ pending' = pending
         /\ depth' = depth /\ lost' = lost /\ stray' = stray /\ dead' = dead
  BY DEF LockCheck, fields, links, ghosts
<1>types. TypeOK'
  BY <1>1, <1>3, <1>same, <1>known DEF TypeOK
<1>others. ASSUME NEW u \in Threads \ {t} PROVE Calm(u)
  <2>1. th'[u] = th[u] /\ dead' = dead
    BY <1>3, <1>same DEF OthersStay
  <2>2. pending'[u] = pending[u]
    BY <1>same
  <2>3. depth'[u] = depth[u]
    BY <1>same
  <2>4. ASSUME NEW x \in Mutexes
        PROVE  /\ word'[x].tid = u => word[x].tid = u
               /\ word[x].tid = u /\ u \notin dead
                    => /\ word'[x].tid = u /\ owner'[x] = owner[x]
                       /\ count'[x] = count[x] \/ owner[x] = NotRecoverable
               /\ owner'[x] = u => owner[x] = u
    BY <1>3, <1>same, <1>known, <1>2, Names DEF OnlyWord
  <2> QED
    BY <2>1, <2>2, <2>3, <2>4, <1>same DEF Calm
<1>place. PlaceRight(t)'
  BY <1>1, <1>2, <1>3, <1>same, <1>known, Names DEF PlaceRight, Place, InCall, At, Getting,
     Giving, DeadGetting, LockOnly
<1>hold. HoldRight(t)'
  BY <1>1, <1>2, <1>3, <1>same, <1>known, Names DEF HoldRight, Place, Between, At, OnlyWord,
     Getting, Giving, DeadGetting
<1>pending. PendingRight(t)'
  BY <1>1, <1>2, <1>3, <1>same, <1>known DEF PendingRight, Place, InCall, At, PlaceRight,
     LockOnly
<1>dead. DeadRight(t)'
  BY <1>1, <1>2, <1>3, <1>same, <1>known, Names DEF DeadRight, Place, At, InCall,
     PlaceRight, LockOnly
<1>mutexes. ASSUME NEW x \in Mutexes
            PROVE  TellRight(t, x)' /\ OwnerRight(t, x)' /\ CountRight(t, x)'
  <2>1. TellRight(t, x)'
    BY <1>1, <1>2, <1>3, <1>same, <1>known, Names DEF TellRight, Place, OnlyWord, HoldRight,
       Between, At, InCall, PlaceRight, Getting, Giving, DeadGetting, LockOnly
  <2>2. OwnerRight(t, x)'
    BY <1>1, <1>2, <1>3, <1>same, <1>known, Names DEF OwnerRight, Place, OnlyWord,
       HoldRight, Between, At, InCall, Getting, Giving, DeadGetting, LockOnly
  <2>3. CountRight(t, x)'
    BY <1>1, <1>2, <1>3, <1>same, <1>known, Names DEF CountRight, Place, OnlyWord,
       HoldRight, Between, At, InCall, Getting, Giving, DeadGetting, LockOnly
  <2> QED
    BY <2>1, <2>2, <2>3
<1>free. DiedFree'
  BY <1>1, <1>2, <1>3, <1>same, <1>known DEF CoreInv, DiedFree, OnlyWord, PlaceRight, At,
     LockOnly
<1>loss. LostRight'
  <2>1. LostRight
    BY DEF CoreInv
  <2>2. \A x \in lost' : /\ word'[x].tid = word[x].tid
                         /\ word[x].tid = Nobody /\ word[x].died => word'[x].died
                         /\ th[t].m = x /\ th[t].at \in DeadGetting
                              => th'[t].m = x /\ th'[t].at \in DeadGetting
    BY <1>1, <1>2, <1>3, <1>same, <1>known, Names DEF DeadGetting, Place, OnlyWord
  <2> QED
    BY <2>1, <2>2, <1>3, <1>same, <1>known, LossKept DEF OthersStay
<1>right. ThreadRight(t)'
  BY <1>place, <1>hold, <1>pending, <1>dead, <1>mutexes DEF ThreadRight
<1>calm. Others(t)
  BY <1>others DEF Others
<1>quiet. Quiet(t)
  <2>1. ASSUME NEW x \in Mutexes, stray' = {} PROVE Listed(t, x)' <=> Listed(t, x)
    BY <2>1, <1>1, <1>2, <1>3, <1>same, <1>known, Names DEF Listed, Off, Place, OnlyWord,
       HoldRight, Between, At, InCall, PlaceRight, DeadRight, Getting, Giving, DeadGetting,
       LockOnly, TypeOK, AllKinds
  <2>2. ASSUME NEW x \in Mutexes, owner'[x] # owner[x]
        PROVE  /\ word[x].tid = t
               /\ owner'[x] = NotRecoverable => At(t, "disown") /\ th[t].m = x
    BY <2>2, <1>same
  <2>3. /\ th[t].at \notin {"link", "dead_link"}
        /\ th'[t].at \notin {"link", "dead_link", "disown"}
    BY <1>1, <1>2, <1>3, <1>same, <1>known DEF Place
  <2> QED
    BY <2>1, <2>2, <2>3, <1>same, <1>2 DEF Quiet
<1> QED
  BY <1>types, <1>calm, <1>right, <1>free, <1>loss, OneSteps, <1>quiet

\* A call of lock.
LEMMA LockCore ==
    ASSUME CoreInv, NEW t \in Threads, NEW m \in Mutexes, Lock(t, m)
    PROVE  CoreInv' /\ Others(t) /\ Quiet(t)
<1>1. TypeOK /\ th[t].at = "user" /\ ~InCall(t)
  BY DEF CoreInv, Lock, Enter, At, InCall
<1>2. /\ t \notin dead
      /\ \A x \in Mutexes : TellRight(t, x) /\ OwnerRight(t, x) /\ CountRight(t, x)
  BY <1>1 DEF CoreInv, ThreadRight, PlaceRight, At
<1>known. ~kind[m].robust
  BY DEF Lock
<1>3. /\ th' \in [Threads -> ThreadState] /\ OthersStay(t)
      /\ Place(t, "pread", m, Free, Nobody)
  BY <1>1, EnterIs DEF Lock, Places, LockOnly
<1>same. /\ kind' = kind /\ word' = word /\ owner' = owner /\ count' = count
         /\ nusers' = nusers /\ next' = next /\ prev' = prev /\ pending' = pending
         /\ depth' = depth /\ lost' = lost /\ stray' = stray /\ dead' = dead
  BY DEF Lock, fields, links, ghosts
<1>types. TypeOK'
  BY <1>1, <1>3, <1>same, <1>known DEF TypeOK
<1>others. ASSUME NEW u \in Threads \ {t} PROVE Calm(u)
  <2>1. th'[u] = th[u] /\ dead' = dead
    BY <1>3, <1>same DEF OthersStay
  <2>2. pending'[u] = pending[u]
    BY <1>same
  <2>3. depth'[u] = depth[u]
    BY <1>same
  <2>4. ASSUME NEW x \in Mutexes
        PROVE  /\ word'[x].tid = u => word[x].tid = u
               /\ word[x].tid = u /\ u \notin dead
                    => /\ word'[x].tid = u /\ owner'[x] = owner[x]
                       /\ count'[x] = count[x] \/ owner[x] = NotRecoverable
               /\ owner'[x] = u => owner[x] = u
    BY <1>3, <1>same, <1>known, <1>2, Names DEF OnlyWord
  <2> QED
    BY <2>1, <2>2, <2>3, <2>4, <1>same DEF Calm
<1>place. PlaceRight(t)'
  BY <1>1, <1>2, <1>3, <1>same, <1>known, Names DEF PlaceRight, Place, InCall, At, Getting,
     Giving, DeadGetting, LockOnly
<1>hold. HoldRight(t)'
  BY <1>1, <1>2, <1>3, <1>same, <1>known, Names DEF HoldRight, Place, Between, At, OnlyWord,
     Getting, Giving, DeadGetting
<1>pending. PendingRight(t)'
  BY <1>1, <1>2, <1>3, <1>same, <1>known DEF PendingRight, Place, InCall, At, PlaceRight,
     LockOnly
<1>dead. DeadRight(t)'
  BY <1>1, <1>2, <1>3, <1>same, <1>known, Names DEF DeadRight, Place, At, InCall,
     PlaceRight, LockOnly
<1>mutexes. ASSUME NEW x \in Mutexes
            PROVE  TellRight(t, x)' /\ OwnerRight(t, x)' /\ CountRight(t, x)'
  <2>1. TellRight(t, x)'
    BY <1>1, <1>2, <1>3, <1>same, <1>known, Names DEF TellRight, Place, OnlyWord, HoldRight,
       Between, At, InCall, PlaceRight, Getting, Giving, DeadGetting, LockOnly
  <2>2. OwnerRight(t, x)'
    BY <1>1, <1>2, <1>3, <1>same, <1>known, Names DEF OwnerRight, Place, OnlyWord,
       HoldRight, Between, At, InCall, Getting, Giving, DeadGetting, LockOnly
  <2>3. CountRight(t, x)'
    BY <1>1, <1>2, <1>3, <1>same, <1>known, Names DEF CountRight, Place, OnlyWord,
       HoldRight, Between, At, InCall, Getting, Giving, DeadGetting, LockOnly
  <2> QED
    BY <2>1, <2>2, <2>3
<1>free. DiedFree'
  BY <1>1, <1>2, <1>3, <1>same, <1>known DEF CoreInv, DiedFree, OnlyWord, PlaceRight, At,
     LockOnly
<1>loss. LostRight'
  <2>1. LostRight
    BY DEF CoreInv
  <2>2. \A x \in lost' : /\ word'[x].tid = word[x].tid
                         /\ word[x].tid = Nobody /\ word[x].died => word'[x].died
                         /\ th[t].m = x /\ th[t].at \in DeadGetting
                              => th'[t].m = x /\ th'[t].at \in DeadGetting
    BY <1>1, <1>2, <1>3, <1>same, <1>known, Names DEF DeadGetting, Place, OnlyWord
  <2> QED
    BY <2>1, <2>2, <1>3, <1>same, <1>known, LossKept DEF OthersStay
<1>right. ThreadRight(t)'
  BY <1>place, <1>hold, <1>pending, <1>dead, <1>mutexes DEF ThreadRight
<1>calm. Others(t)
  BY <1>others DEF Others
<1>quiet. Quiet(t)
  <2>1. ASSUME NEW x \in Mutexes, stray' = {} PROVE Listed(t, x)' <=> Listed(t, x)
    BY <2>1, <1>1, <1>2, <1>3, <1>same, <1>known, Names DEF Listed, Off, Place, OnlyWord,
       HoldRight, Between, At, InCall, PlaceRight, DeadRight, Getting, Giving, DeadGetting,
       LockOnly
  <2>2. ASSUME NEW x \in Mutexes, owner'[x] # owner[x]
        PROVE  /\ word[x].tid = t
               /\ owner'[x] = NotRecoverable => At(t, "disown") /\ th[t].m = x
    BY <2>2, <1>same
  <2>3. /\ th[t].at \notin {"link", "dead_link"}
        /\ th'[t].at \notin {"link", "dead_link", "disown"}
    BY <1>1, <1>2, <1>3, <1>same, <1>known DEF Place
  <2> QED
    BY <2>1, <2>2, <2>3, <1>same, <1>2 DEF Quiet
<1> QED
  BY <1>types, <1>calm, <1>right, <1>free, <1>loss, OneSteps, <1>quiet

\* One level less.
LEMMA UnlockOnceCore ==
    ASSUME CoreInv, NEW t \in Threads, NEW m \in Mutexes, UnlockOnce(t, m)
    PROVE  CoreInv' /\ Others(t) /\ Quiet(t)
<1>1. TypeOK /\ th[t].at = "user" /\ ~InCall(t)
  BY DEF CoreInv, UnlockOnce, Enter, At, InCall
<1>2. /\ t \notin dead
      /\ \A x \in Mutexes : TellRight(t, x) /\ OwnerRight(t, x) /\ CountRight(t, x)
  BY <1>1 DEF CoreInv, ThreadRight, PlaceRight, At
<1>word. /\ ~kind[m].pi /\ kind[m].robust /\ kind[m].type = "recursive" /\ word[m].tid = t
         /\ owner[m] \in {t, Inconsistent} /\ count[m] # 1
  <2>1. ~kind[m].pi /\ IsOwner(t, m) /\ Levels(m) # 1
    BY DEF UnlockOnce
  <2>2. kind[m].robust
    BY <1>1, <2>1 DEF TypeOK, AllKinds
  <2>3. kind[m].type = "recursive" /\ count[m] # 1
    BY <2>1 DEF Levels
  <2>4. CASE owner[m] = Inconsistent
    BY <2>1, <2>2, <2>3, <2>4 DEF IsOwner
  <2>5. CASE owner[m] # Inconsistent
    <3>1. owner[m] = t
      BY <2>1, <2>3, <2>5 DEF IsOwner
    <3> QED
      BY <3>1, <1>2, <2>1, <2>2, <2>3 DEF OwnerRight
  <2> QED
    BY <2>4, <2>5
<1>case. count[m] = depth[t][m] /\ count[m] \in 2 .. CountMod - 1
  <2>1. count[m] = depth[t][m] /\ depth[t][m] > 0
    BY <1>1, <1>2, <1>word DEF CountRight, Getting, Giving, DeadGetting
  <2>2. count[m] \in 0 .. CountMod - 1
    BY <1>1 DEF TypeOK
  <2> QED
    BY <2>1, <2>2, <1>word, BoundsAssumption
<1>depth. Less(depth[t][m]) = depth[t][m] - 1 /\ depth[t][m] - 1 \in Nat
  BY <1>case, BoundsAssumption, LessIs
<1>count. Down(count[m]) = count[m] - 1 /\ Down(count[m]) \in 0 .. CountMod - 1
  BY <1>case, BoundsAssumption, DownIs
<1>3. /\ th' \in [Threads -> ThreadState] /\ OthersStay(t)
      /\ Place(t, "user", th[t].m, th[t].old, th[t].new) /\ th' = th
  BY <1>1 DEF UnlockOnce, TypeOK, OthersStay, Place
<1>same. /\ kind' = kind /\ word' = word /\ owner' = owner /\ nusers' = nusers
         /\ next' = next /\ prev' = prev /\ pending' = pending /\ lost' = lost
         /\ stray' = stray /\ dead' = dead
  BY DEF UnlockOnce, fields, links, ghosts
<1>new1. /\ count' \in [Mutexes -> 0 .. CountMod - 1] /\ count'[m] = count[m] - 1
         /\ \A x \in Mutexes \ {m} : count'[x] = count[x]
  <2>1. count \in [Mutexes -> 0 .. CountMod - 1]
    BY <1>1 DEF TypeOK
  <2>2. count' = [count EXCEPT ![m] = Down(count[m])]
    BY DEF UnlockOnce
  <2> QED
    BY <2>1, <2>2, <1>count
<1>new2. depth' \in [Threads -> [Mutexes -> Nat]]
  <2>1. depth \in [Threads -> [Mutexes -> Nat]]
    BY <1>1 DEF TypeOK
  <2>2. depth' = [depth EXCEPT ![t][m] = Less(depth[t][m])]
    BY DEF UnlockOnce, GiveUp
  <2> QED
    BY <2>1, <2>2, <1>depth
<1>new3. OnlyDepth(t)
  <2>1. depth \in [Threads -> [Mutexes -> Nat]]
    BY <1>1 DEF TypeOK
  <2>2. depth' = [depth EXCEPT ![t][m] = Less(depth[t][m])]
    BY DEF UnlockOnce, GiveUp
  <2> QED
    BY <2>1, <2>2, <1>depth DEF OnlyDepth
<1>new4. \A x \in Mutexes \ {m} : depth'[t][x] = depth[t][x]
  <2>1. depth \in [Threads -> [Mutexes -> Nat]]
    BY <1>1 DEF TypeOK
  <2>2. depth' = [depth EXCEPT ![t][m] = Less(depth[t][m])]
    BY DEF UnlockOnce, GiveUp
  <2> QED
    BY <2>1, <2>2, <1>depth
<1>new5. depth'[t][m] = depth[t][m] - 1
  <2>1. depth \in [Threads -> [Mutexes -> Nat]]
    BY <1>1 DEF TypeOK
  <2>2. depth' = [depth EXCEPT ![t][m] = Less(depth[t][m])]
    BY DEF UnlockOnce, GiveUp
  <2> QED
    BY <2>1, <2>2, <1>depth
<1>types. TypeOK'
  BY <1>1, <1>3, <1>same, <1>new1, <1>new2, <1>new3, <1>new4, <1>new5, <1>word, <1>case
     DEF TypeOK
<1>others. ASSUME NEW u \in Threads \ {t} PROVE Calm(u)
  <2>1. th'[u] = th[u] /\ dead' = dead
    BY <1>3, <1>same DEF OthersStay
  <2>2. pending'[u] = pending[u]
    BY <1>same
  <2>3. depth'[u] = depth[u]
    BY <1>new3 DEF OnlyDepth
  <2>4. ASSUME NEW x \in Mutexes
        PROVE  /\ word'[x].tid = u => word[x].tid = u
               /\ word[x].tid = u /\ u \notin dead
                    => /\ word'[x].tid = u /\ owner'[x] = owner[x]
                       /\ count'[x] = count[x] \/ owner[x] = NotRecoverable
               /\ owner'[x] = u => owner[x] = u
    BY <1>3, <1>same, <1>new1, <1>new2, <1>new3, <1>new4, <1>new5, <1>word, <1>case, <1>2,
       Names DEF OnlyWord
  <2> QED
    BY <2>1, <2>2, <2>3, <2>4, <1>same DEF Calm
<1>place. PlaceRight(t)'
  BY <1>1, <1>2, <1>3, <1>same, <1>new1, <1>new2, <1>new3, <1>new4, <1>new5, <1>word,
     <1>case, Names DEF PlaceRight, Place, InCall, At, Getting, Giving, DeadGetting,
     LockOnly
<1>hold. HoldRight(t)'
  BY <1>1, <1>2, <1>3, <1>same, <1>new1, <1>new2, <1>new3, <1>new4, <1>new5, <1>word,
     <1>case, Names DEF HoldRight, Place, Between, At, OnlyWord, Getting, Giving,
     DeadGetting
<1>pending. PendingRight(t)'
  BY <1>1, <1>2, <1>3, <1>same, <1>new1, <1>new2, <1>new3, <1>new4, <1>new5, <1>word,
     <1>case DEF PendingRight, Place, InCall, At, PlaceRight, LockOnly
<1>dead. DeadRight(t)'
  BY <1>1, <1>2, <1>3, <1>same, <1>new1, <1>new2, <1>new3, <1>new4, <1>new5, <1>word,
     <1>case, Names DEF DeadRight, Place, At, InCall, PlaceRight, LockOnly
<1>mutexes. ASSUME NEW x \in Mutexes
            PROVE  TellRight(t, x)' /\ OwnerRight(t, x)' /\ CountRight(t, x)'
  <2>1. TellRight(t, x)'
    BY <1>1, <1>2, <1>3, <1>same, <1>new1, <1>new2, <1>new3, <1>new4, <1>new5, <1>word,
       <1>case, Names DEF TellRight, Place, OnlyWord, HoldRight, Between, At, InCall,
       PlaceRight, Getting, Giving, DeadGetting, LockOnly
  <2>2. OwnerRight(t, x)'
    BY <1>1, <1>2, <1>3, <1>same, <1>new1, <1>new2, <1>new3, <1>new4, <1>new5, <1>word,
       <1>case, Names DEF OwnerRight, Place, OnlyWord, HoldRight, Between, At, InCall,
       Getting, Giving, DeadGetting, LockOnly
  <2>3. CountRight(t, x)'
    <3>1. CountRight(t, x) /\ count[x] \in Nat /\ depth[t][x] \in Nat
      BY <1>1, <1>2 DEF TypeOK
    <3>2. CASE x = m
      BY <3>1, <3>2, <1>1, <1>2, <1>3, <1>same, <1>new1, <1>new2, <1>new3, <1>new4, <1>new5,
         <1>word, <1>case, Names DEF CountRight, Place, Getting, Giving, DeadGetting
    <3>3. CASE x # m
      <4>1. count'[x] = count[x] /\ depth'[t][x] = depth[t][x] /\ word' = word /\ kind' = kind
            /\ owner'[x] = owner[x] /\ dead' = dead
        BY <3>3, <1>3, <1>same, <1>new1, <1>new2, <1>new3, <1>new4, <1>new5, <1>word,
           <1>case
      <4> QED
        BY <3>1, <3>3, <4>1, <1>1 DEF CountRight, Getting, Giving, DeadGetting
    <3> QED
      BY <3>2, <3>3
  <2> QED
    BY <2>1, <2>2, <2>3
<1>free. DiedFree'
  BY <1>1, <1>2, <1>3, <1>same, <1>new1, <1>new2, <1>new3, <1>new4, <1>new5, <1>word,
     <1>case DEF CoreInv, DiedFree, OnlyWord, PlaceRight, At, LockOnly
<1>loss. LostRight'
  <2>1. LostRight
    BY DEF CoreInv
  <2>2. \A x \in lost' : /\ word'[x].tid = word[x].tid
                         /\ word[x].tid = Nobody /\ word[x].died => word'[x].died
                         /\ th[t].m = x /\ th[t].at \in DeadGetting
                              => th'[t].m = x /\ th'[t].at \in DeadGetting
    BY <1>1, <1>2, <1>3, <1>same, <1>new1, <1>new2, <1>new3, <1>new4, <1>new5, <1>word,
       <1>case, Names DEF DeadGetting, Place, OnlyWord
  <2> QED
    BY <2>1, <2>2, <1>3, <1>same, <1>new1, <1>new2, <1>new3, <1>new4, <1>new5, <1>word,
       <1>case, LossKept DEF OthersStay
<1>right. ThreadRight(t)'
  BY <1>place, <1>hold, <1>pending, <1>dead, <1>mutexes DEF ThreadRight
<1>calm. Others(t)
  BY <1>others DEF Others
<1>quiet. Quiet(t)
  <2>1. ASSUME NEW x \in Mutexes, stray' = {} PROVE Listed(t, x)' <=> Listed(t, x)
    BY <2>1, <1>1, <1>2, <1>3, <1>same, <1>new1, <1>new2, <1>new3, <1>new4, <1>new5,
       <1>word, <1>case, Names DEF Listed, Off, Place, OnlyWord, HoldRight, Between, At,
       InCall, PlaceRight, DeadRight, Getting, Giving, DeadGetting, LockOnly
  <2>2. ASSUME NEW x \in Mutexes, owner'[x] # owner[x]
        PROVE  /\ word[x].tid = t
               /\ owner'[x] = NotRecoverable => At(t, "disown") /\ th[t].m = x
    BY <2>2, <1>same
  <2>3. /\ th[t].at \notin {"link", "dead_link"}
        /\ th'[t].at \notin {"link", "dead_link", "disown"}
    BY <1>1, <1>2, <1>3, <1>same, <1>new1, <1>new2, <1>new3, <1>new4, <1>new5, <1>word,
       <1>case DEF Place
  <2> QED
    BY <2>1, <2>2, <2>3, <1>same, <1>2 DEF Quiet
<1> QED
  BY <1>types, <1>calm, <1>right, <1>free, <1>loss, OneSteps, <1>quiet

\* The unlock of the last level.
LEMMA UnlockRobustCore ==
    ASSUME CoreInv, NEW t \in Threads, NEW m \in Mutexes, UnlockRobust(t, m)
    PROVE  CoreInv' /\ Others(t) /\ Quiet(t)
<1>1. TypeOK /\ th[t].at = "user" /\ ~InCall(t)
  BY DEF CoreInv, UnlockRobust, Enter, At, InCall
<1>2. /\ t \notin dead
      /\ \A x \in Mutexes : TellRight(t, x) /\ OwnerRight(t, x) /\ CountRight(t, x)
  BY <1>1 DEF CoreInv, ThreadRight, PlaceRight, At
<1>word. ~kind[m].pi /\ kind[m].robust /\ word[m].tid = t /\ depth[t][m] <= 1
  <2>1. ~kind[m].pi /\ IsOwner(t, m) /\ Levels(m) = 1
    BY DEF UnlockRobust
  <2>2. kind[m].robust
    BY <1>1, <2>1 DEF TypeOK, AllKinds
  <2>3. word[m].tid = t
    BY <2>1, <1>2 DEF IsOwner, OwnerRight
  <2>4. ASSUME kind[m].type = "recursive"
        PROVE  owner[m] \in {t, Inconsistent} /\ count[m] = 1
    BY <2>1, <2>4 DEF IsOwner, Levels
  <2>5. kind[m].type = "recursive" => depth[t][m] <= 1
    BY <2>2, <2>3, <2>4, <1>1, <1>2 DEF CountRight, Getting, Giving, DeadGetting
  <2> QED
    BY <2>1, <2>2, <2>3, <2>5, <1>2 DEF TellRight
<1>depth. Less(depth[t][m]) = 0
  <2>1. depth[t][m] \in Nat
    BY <1>1 DEF TypeOK
  <2> QED
    BY <2>1, <1>word, LessIs
<1>count. Down(count[m]) \in 0 .. CountMod - 1
  BY <1>1, DownIs DEF TypeOK
<1>3. /\ th' \in [Threads -> ThreadState] /\ OthersStay(t)
      /\ Place(t, "unlink", m, Free, th'[t].new)
  <2> DEFINE new == IF owner[m] = Inconsistent THEN NotRecoverable ELSE Nobody
           s == [AtUser EXCEPT !.at = "unlink", !.m = m, !.new = new]
  <2>1. /\ s \in ThreadState
        /\ s.at = "unlink" /\ s.m = m /\ s.old = Free /\ s.new = new
    BY FreeIs DEF AtUser, ThreadState, Places, Giving
  <2>2. th' = [th EXCEPT ![t] = s]
    BY DEF UnlockRobust
  <2> HIDE DEF s
  <2>3. th' \in [Threads -> ThreadState] /\ OthersStay(t) /\ Place(t, s.at, s.m, s.old, s.new)
    BY <1>1, <2>1, <2>2, MoveIs
  <2>4. Place(t, "unlink", m, Free, new)
    BY <2>1, <2>3
  <2> QED
    BY <2>3, <2>4 DEF Place
<1>same. /\ kind' = kind /\ word' = word /\ owner' = owner /\ nusers' = nusers
         /\ next' = next /\ prev' = prev /\ lost' = lost /\ stray' = stray
         /\ dead' = dead
  BY DEF UnlockRobust, fields, links, ghosts
<1>new1. /\ pending' \in [Threads -> Mutexes \cup {NULL}] /\ pending'[t] = m
         /\ \A u \in Threads \ {t} : pending'[u] = pending[u]
  BY <1>1 DEF UnlockRobust, TypeOK
<1>new2. /\ count' \in [Mutexes -> 0 .. CountMod - 1]
         /\ \A x \in Mutexes \ {m} : count'[x] = count[x]
  <2>1. count \in [Mutexes -> 0 .. CountMod - 1]
    BY <1>1 DEF TypeOK
  <2>2. count' = count \/ count' = [count EXCEPT ![m] = Down(count[m])]
    BY DEF UnlockRobust
  <2> QED
    BY <2>1, <2>2, <1>count
<1>new3. depth' \in [Threads -> [Mutexes -> Nat]]
  <2>1. depth \in [Threads -> [Mutexes -> Nat]]
    BY <1>1 DEF TypeOK
  <2>2. depth' = [depth EXCEPT ![t][m] = Less(depth[t][m])]
    BY DEF UnlockRobust, GiveUp
  <2> QED
    BY <2>1, <2>2, <1>depth
<1>new4. OnlyDepth(t)
  <2>1. depth \in [Threads -> [Mutexes -> Nat]]
    BY <1>1 DEF TypeOK
  <2>2. depth' = [depth EXCEPT ![t][m] = Less(depth[t][m])]
    BY DEF UnlockRobust, GiveUp
  <2> QED
    BY <2>1, <2>2, <1>depth DEF OnlyDepth
<1>new5. \A x \in Mutexes \ {m} : depth'[t][x] = depth[t][x]
  <2>1. depth \in [Threads -> [Mutexes -> Nat]]
    BY <1>1 DEF TypeOK
  <2>2. depth' = [depth EXCEPT ![t][m] = Less(depth[t][m])]
    BY DEF UnlockRobust, GiveUp
  <2> QED
    BY <2>1, <2>2, <1>depth
<1>new6. depth'[t][m] = 0
  <2>1. depth \in [Threads -> [Mutexes -> Nat]]
    BY <1>1 DEF TypeOK
  <2>2. depth' = [depth EXCEPT ![t][m] = Less(depth[t][m])]
    BY DEF UnlockRobust, GiveUp
  <2> QED
    BY <2>1, <2>2, <1>depth
<1>types. TypeOK'
  BY <1>1, <1>3, <1>same, <1>new1, <1>new2, <1>new3, <1>new4, <1>new5, <1>new6, <1>word
     DEF TypeOK
<1>others. ASSUME NEW u \in Threads \ {t} PROVE Calm(u)
  <2>1. th'[u] = th[u] /\ dead' = dead
    BY <1>3, <1>same DEF OthersStay
  <2>2. pending'[u] = pending[u]
    BY <1>new1
  <2>3. depth'[u] = depth[u]
    BY <1>new4 DEF OnlyDepth
  <2>4. ASSUME NEW x \in Mutexes
        PROVE  /\ word'[x].tid = u => word[x].tid = u
               /\ word[x].tid = u /\ u \notin dead
                    => /\ word'[x].tid = u /\ owner'[x] = owner[x]
                       /\ count'[x] = count[x] \/ owner[x] = NotRecoverable
               /\ owner'[x] = u => owner[x] = u
    BY <1>3, <1>same, <1>new1, <1>new2, <1>new3, <1>new4, <1>new5, <1>new6, <1>word, <1>2,
       Names DEF OnlyWord
  <2> QED
    BY <2>1, <2>2, <2>3, <2>4, <1>same DEF Calm
<1>place. PlaceRight(t)'
  BY <1>1, <1>2, <1>3, <1>same, <1>new1, <1>new2, <1>new3, <1>new4, <1>new5, <1>new6,
     <1>word, Names DEF PlaceRight, Place, InCall, At, Getting, Giving, DeadGetting,
     LockOnly
<1>hold. HoldRight(t)'
  BY <1>1, <1>2, <1>3, <1>same, <1>new1, <1>new2, <1>new3, <1>new4, <1>new5, <1>new6,
     <1>word, Names DEF HoldRight, Place, Between, At, OnlyWord, Getting, Giving,
     DeadGetting
<1>pending. PendingRight(t)'
  BY <1>1, <1>2, <1>3, <1>same, <1>new1, <1>new2, <1>new3, <1>new4, <1>new5, <1>new6,
     <1>word DEF PendingRight, Place, InCall, At, PlaceRight, LockOnly, TypeOK
<1>dead. DeadRight(t)'
  BY <1>1, <1>2, <1>3, <1>same, <1>new1, <1>new2, <1>new3, <1>new4, <1>new5, <1>new6,
     <1>word, Names DEF DeadRight, Place, At, InCall, PlaceRight, LockOnly
<1>mutexes. ASSUME NEW x \in Mutexes
            PROVE  TellRight(t, x)' /\ OwnerRight(t, x)' /\ CountRight(t, x)'
  <2>1. TellRight(t, x)'
    BY <1>1, <1>2, <1>3, <1>same, <1>new1, <1>new2, <1>new3, <1>new4, <1>new5, <1>new6,
       <1>word, Names DEF TellRight, Place, OnlyWord, HoldRight, Between, At, InCall,
       PlaceRight, Getting, Giving, DeadGetting, LockOnly
  <2>2. OwnerRight(t, x)'
    BY <1>1, <1>2, <1>3, <1>same, <1>new1, <1>new2, <1>new3, <1>new4, <1>new5, <1>new6,
       <1>word, Names DEF OwnerRight, Place, OnlyWord, HoldRight, Between, At, InCall,
       Getting, Giving, DeadGetting, LockOnly
  <2>3. CountRight(t, x)'
    <3>1. CountRight(t, x) /\ count[x] \in Nat /\ depth[t][x] \in Nat
      BY <1>1, <1>2 DEF TypeOK
    <3>2. CASE x = m
      BY <3>1, <3>2, <1>1, <1>2, <1>3, <1>same, <1>new1, <1>new2, <1>new3, <1>new4, <1>new5,
         <1>new6, <1>word, Names DEF CountRight, Place, Getting, Giving, DeadGetting
    <3>3. CASE x # m
      <4>1. count'[x] = count[x] /\ depth'[t][x] = depth[t][x] /\ word' = word /\ kind' = kind
            /\ owner'[x] = owner[x] /\ dead' = dead
        BY <3>3, <1>3, <1>same, <1>new1, <1>new2, <1>new3, <1>new4, <1>new5, <1>new6,
           <1>word
      <4> QED
        BY <3>1, <3>3, <4>1, <1>1 DEF CountRight, Getting, Giving, DeadGetting
    <3> QED
      BY <3>2, <3>3
  <2> QED
    BY <2>1, <2>2, <2>3
<1>free. DiedFree'
  BY <1>1, <1>2, <1>3, <1>same, <1>new1, <1>new2, <1>new3, <1>new4, <1>new5, <1>new6,
     <1>word DEF CoreInv, DiedFree, OnlyWord, PlaceRight, At, LockOnly
<1>loss. LostRight'
  <2>1. LostRight
    BY DEF CoreInv
  <2>2. \A x \in lost' : /\ word'[x].tid = word[x].tid
                         /\ word[x].tid = Nobody /\ word[x].died => word'[x].died
                         /\ th[t].m = x /\ th[t].at \in DeadGetting
                              => th'[t].m = x /\ th'[t].at \in DeadGetting
    BY <1>1, <1>2, <1>3, <1>same, <1>new1, <1>new2, <1>new3, <1>new4, <1>new5, <1>new6,
       <1>word, Names DEF DeadGetting, Place, OnlyWord
  <2> QED
    BY <2>1, <2>2, <1>3, <1>same, <1>new1, <1>new2, <1>new3, <1>new4, <1>new5, <1>new6,
       <1>word, LossKept DEF OthersStay
<1>right. ThreadRight(t)'
  BY <1>place, <1>hold, <1>pending, <1>dead, <1>mutexes DEF ThreadRight
<1>calm. Others(t)
  BY <1>others DEF Others
<1>quiet. Quiet(t)
  <2>1. ASSUME NEW x \in Mutexes, stray' = {} PROVE Listed(t, x)' <=> Listed(t, x)
    BY <2>1, <1>1, <1>2, <1>3, <1>same, <1>new1, <1>new2, <1>new3, <1>new4, <1>new5,
       <1>new6, <1>word, Names DEF Listed, Off, Place, OnlyWord, HoldRight, Between, At,
       InCall, PlaceRight, DeadRight, Getting, Giving, DeadGetting, LockOnly
  <2>2. ASSUME NEW x \in Mutexes, owner'[x] # owner[x]
        PROVE  /\ word[x].tid = t
               /\ owner'[x] = NotRecoverable => At(t, "disown") /\ th[t].m = x
    BY <2>2, <1>same
  <2>3. /\ th[t].at \notin {"link", "dead_link"}
        /\ th'[t].at \notin {"link", "dead_link", "disown"}
    BY <1>1, <1>2, <1>3, <1>same, <1>new1, <1>new2, <1>new3, <1>new4, <1>new5, <1>new6,
       <1>word DEF Place
  <2> QED
    BY <2>1, <2>2, <2>3, <1>same, <1>2 DEF Quiet
<1> QED
  BY <1>types, <1>calm, <1>right, <1>free, <1>loss, OneSteps, <1>quiet

\* One level of a PI mutex less.
LEMMA UnlockPIOnceCore ==
    ASSUME CoreInv, NEW t \in Threads, NEW m \in Mutexes, UnlockPI(t, m), CountedDown(m) # 0
    PROVE  CoreInv' /\ Others(t) /\ Quiet(t)
<1>1. TypeOK /\ th[t].at = "user" /\ ~InCall(t)
  BY DEF CoreInv, UnlockPI, Enter, At, InCall
<1>2. /\ t \notin dead
      /\ \A x \in Mutexes : TellRight(t, x) /\ OwnerRight(t, x) /\ CountRight(t, x)
  BY <1>1 DEF CoreInv, ThreadRight, PlaceRight, At
<1>word. kind[m].pi /\ owner[m] = t /\ word[m].tid = t
  BY <1>2 DEF UnlockPI, OwnerRight
<1>kind. count[m] \in 0 .. CountMod - 1 /\ depth[t][m] \in Nat
  BY <1>1 DEF TypeOK
<1>case. kind[m].type = "recursive" /\ kind[m].robust => count[m] = depth[t][m] /\ depth[t][m] > 0
  BY <1>1, <1>2, <1>word DEF CountRight, Getting, Giving, DeadGetting
<1>width. CountMod \in Nat /\ CountMod > 1
  BY BoundsAssumption
<1>down. /\ Down(count[m]) \in 0 .. CountMod - 1
         /\ count[m] > 0 => Down(count[m]) = count[m] - 1
         /\ count[m] = 0 => Down(count[m]) = CountMod - 1
         /\ Down(0) = CountMod - 1
  BY <1>kind, <1>width, DownIs
<1>count. /\ CountedDown(m) \in 0 .. CountMod - 1
          /\ kind[m].type = "recursive" /\ kind[m].robust => CountedDown(m) = count[m] - 1
          /\ CountedDown(m) = 0 => count[m] = 1 /\ ~(kind[m].type = "recursive" /\ ~kind[m].robust)
  BY <1>down, <1>kind, <1>width, <1>case DEF CountedDown, Twice
<1>depth. Less(depth[t][m]) \in Nat
  BY <1>kind, LessIs
<1>known. CountedDown(m) # 0
  OBVIOUS
<1>3. /\ th' \in [Threads -> ThreadState] /\ OthersStay(t)
      /\ Place(t, "user", th[t].m, th[t].old, th[t].new) /\ th' = th
  BY <1>1 DEF UnlockPI, TypeOK, OthersStay, Place
<1>same. /\ kind' = kind /\ word' = word /\ owner' = owner /\ nusers' = nusers
         /\ next' = next /\ prev' = prev /\ pending' = pending /\ lost' = lost
         /\ stray' = stray /\ dead' = dead
  BY DEF UnlockPI, fields, links, ghosts
<1>new1. /\ count' \in [Mutexes -> 0 .. CountMod - 1] /\ count'[m] = CountedDown(m)
         /\ \A x \in Mutexes \ {m} : count'[x] = count[x]
  <2>1. count \in [Mutexes -> 0 .. CountMod - 1]
    BY <1>1 DEF TypeOK
  <2>2. count' = [count EXCEPT ![m] = CountedDown(m)]
    BY DEF UnlockPI
  <2> HIDE DEF CountedDown
  <2> QED
    BY <2>1, <2>2, <1>count
<1>new2. depth' \in [Threads -> [Mutexes -> Nat]]
  <2>1. depth \in [Threads -> [Mutexes -> Nat]]
    BY <1>1 DEF TypeOK
  <2>2. depth' = [depth EXCEPT ![t][m] = Less(depth[t][m])]
    BY DEF UnlockPI, GiveUp
  <2> QED
    BY <2>1, <2>2, <1>depth
<1>new3. OnlyDepth(t)
  <2>1. depth \in [Threads -> [Mutexes -> Nat]]
    BY <1>1 DEF TypeOK
  <2>2. depth' = [depth EXCEPT ![t][m] = Less(depth[t][m])]
    BY DEF UnlockPI, GiveUp
  <2> QED
    BY <2>1, <2>2, <1>depth DEF OnlyDepth
<1>new4. \A x \in Mutexes \ {m} : depth'[t][x] = depth[t][x]
  <2>1. depth \in [Threads -> [Mutexes -> Nat]]
    BY <1>1 DEF TypeOK
  <2>2. depth' = [depth EXCEPT ![t][m] = Less(depth[t][m])]
    BY DEF UnlockPI, GiveUp
  <2> QED
    BY <2>1, <2>2, <1>depth
<1>new5. depth'[t][m] = Less(depth[t][m])
  <2>1. depth \in [Threads -> [Mutexes -> Nat]]
    BY <1>1 DEF TypeOK
  <2>2. depth' = [depth EXCEPT ![t][m] = Less(depth[t][m])]
    BY DEF UnlockPI, GiveUp
  <2> QED
    BY <2>1, <2>2, <1>depth
<1>new6. Less(depth[t][m]) <= depth[t][m] /\ (depth[t][m] > 0 => Less(depth[t][m]) = depth[t][m] - 1)
  BY <1>kind, LessIs
<1>types. TypeOK'
  BY <1>1, <1>3, <1>same, <1>new1, <1>new2, <1>new3, <1>new4, <1>new5, <1>new6, <1>word,
     <1>kind, <1>case, <1>count, <1>depth, <1>known DEF TypeOK
<1>others. ASSUME NEW u \in Threads \ {t} PROVE Calm(u)
  <2>1. th'[u] = th[u] /\ dead' = dead
    BY <1>3, <1>same DEF OthersStay
  <2>2. pending'[u] = pending[u]
    BY <1>same
  <2>3. depth'[u] = depth[u]
    BY <1>new3 DEF OnlyDepth
  <2>4. ASSUME NEW x \in Mutexes
        PROVE  /\ word'[x].tid = u => word[x].tid = u
               /\ word[x].tid = u /\ u \notin dead
                    => /\ word'[x].tid = u /\ owner'[x] = owner[x]
                       /\ count'[x] = count[x] \/ owner[x] = NotRecoverable
               /\ owner'[x] = u => owner[x] = u
    BY <1>3, <1>same, <1>new1, <1>new2, <1>new3, <1>new4, <1>new5, <1>new6, <1>word,
       <1>kind, <1>case, <1>count, <1>depth, <1>known, <1>2, Names DEF OnlyWord
  <2> QED
    BY <2>1, <2>2, <2>3, <2>4, <1>same DEF Calm
<1>place. PlaceRight(t)'
  BY <1>1, <1>2, <1>3, <1>same, <1>new1, <1>new2, <1>new3, <1>new4, <1>new5, <1>new6,
     <1>word, <1>kind, <1>case, <1>count, <1>depth, <1>known, Names DEF PlaceRight, Place,
     InCall, At, Getting, Giving, DeadGetting, LockOnly
<1>hold. HoldRight(t)'
  BY <1>1, <1>2, <1>3, <1>same, <1>new1, <1>new2, <1>new3, <1>new4, <1>new5, <1>new6,
     <1>word, <1>kind, <1>case, <1>count, <1>depth, <1>known, Names DEF HoldRight, Place,
     Between, At, OnlyWord, Getting, Giving, DeadGetting
<1>pending. PendingRight(t)'
  BY <1>1, <1>2, <1>3, <1>same, <1>new1, <1>new2, <1>new3, <1>new4, <1>new5, <1>new6,
     <1>word, <1>kind, <1>case, <1>count, <1>depth, <1>known DEF PendingRight, Place,
     InCall, At, PlaceRight, LockOnly
<1>dead. DeadRight(t)'
  BY <1>1, <1>2, <1>3, <1>same, <1>new1, <1>new2, <1>new3, <1>new4, <1>new5, <1>new6,
     <1>word, <1>kind, <1>case, <1>count, <1>depth, <1>known, Names DEF DeadRight, Place,
     At, InCall, PlaceRight, LockOnly
<1>mutexes. ASSUME NEW x \in Mutexes
            PROVE  TellRight(t, x)' /\ OwnerRight(t, x)' /\ CountRight(t, x)'
  <2>1. TellRight(t, x)'
    BY <1>1, <1>2, <1>3, <1>same, <1>new1, <1>new2, <1>new3, <1>new4, <1>new5, <1>new6,
       <1>word, <1>kind, <1>case, <1>count, <1>depth, <1>known, Names DEF TellRight, Place,
       OnlyWord, HoldRight, Between, At, InCall, PlaceRight, Getting, Giving, DeadGetting,
       LockOnly
  <2>2. OwnerRight(t, x)'
    BY <1>1, <1>2, <1>3, <1>same, <1>new1, <1>new2, <1>new3, <1>new4, <1>new5, <1>new6,
       <1>word, <1>kind, <1>case, <1>count, <1>depth, <1>known, Names DEF OwnerRight, Place,
       OnlyWord, HoldRight, Between, At, InCall, Getting, Giving, DeadGetting, LockOnly
  <2>3. CountRight(t, x)'
    <3>1. CountRight(t, x) /\ count[x] \in Nat /\ depth[t][x] \in Nat
      BY <1>1, <1>2 DEF TypeOK
    <3>2. CASE x = m
      BY <3>1, <3>2, <1>1, <1>2, <1>3, <1>same, <1>new1, <1>new2, <1>new3, <1>new4, <1>new5,
         <1>new6, <1>word, <1>kind, <1>case, <1>count, <1>depth, <1>known, Names
         DEF CountRight, Place, Getting, Giving, DeadGetting
    <3>3. CASE x # m
      <4>1. count'[x] = count[x] /\ depth'[t][x] = depth[t][x] /\ word' = word /\ kind' = kind
            /\ owner'[x] = owner[x] /\ dead' = dead
        BY <3>3, <1>3, <1>same, <1>new1, <1>new2, <1>new3, <1>new4, <1>new5, <1>new6,
           <1>word, <1>kind, <1>case, <1>count, <1>depth, <1>known
      <4> QED
        BY <3>1, <3>3, <4>1, <1>1 DEF CountRight, Getting, Giving, DeadGetting
    <3> QED
      BY <3>2, <3>3
  <2> QED
    BY <2>1, <2>2, <2>3
<1>free. DiedFree'
  BY <1>1, <1>2, <1>3, <1>same, <1>new1, <1>new2, <1>new3, <1>new4, <1>new5, <1>new6,
     <1>word, <1>kind, <1>case, <1>count, <1>depth, <1>known DEF CoreInv, DiedFree,
     OnlyWord, PlaceRight, At, LockOnly
<1>loss. LostRight'
  <2>1. LostRight
    BY DEF CoreInv
  <2>2. \A x \in lost' : /\ word'[x].tid = word[x].tid
                         /\ word[x].tid = Nobody /\ word[x].died => word'[x].died
                         /\ th[t].m = x /\ th[t].at \in DeadGetting
                              => th'[t].m = x /\ th'[t].at \in DeadGetting
    BY <1>1, <1>2, <1>3, <1>same, <1>new1, <1>new2, <1>new3, <1>new4, <1>new5, <1>new6,
       <1>word, <1>kind, <1>case, <1>count, <1>depth, <1>known, Names DEF DeadGetting,
       Place, OnlyWord
  <2> QED
    BY <2>1, <2>2, <1>3, <1>same, <1>new1, <1>new2, <1>new3, <1>new4, <1>new5, <1>new6,
       <1>word, <1>kind, <1>case, <1>count, <1>depth, <1>known, LossKept DEF OthersStay
<1>right. ThreadRight(t)'
  BY <1>place, <1>hold, <1>pending, <1>dead, <1>mutexes DEF ThreadRight
<1>calm. Others(t)
  BY <1>others DEF Others
<1>quiet. Quiet(t)
  <2>1. ASSUME NEW x \in Mutexes, stray' = {} PROVE Listed(t, x)' <=> Listed(t, x)
    BY <2>1, <1>1, <1>2, <1>3, <1>same, <1>new1, <1>new2, <1>new3, <1>new4, <1>new5,
       <1>new6, <1>word, <1>kind, <1>case, <1>count, <1>depth, <1>known, Names DEF Listed,
       Off, Place, OnlyWord, HoldRight, Between, At, InCall, PlaceRight, DeadRight, Getting,
       Giving, DeadGetting, LockOnly
  <2>2. ASSUME NEW x \in Mutexes, owner'[x] # owner[x]
        PROVE  /\ word[x].tid = t
               /\ owner'[x] = NotRecoverable => At(t, "disown") /\ th[t].m = x
    BY <2>2, <1>same
  <2>3. /\ th[t].at \notin {"link", "dead_link"}
        /\ th'[t].at \notin {"link", "dead_link", "disown"}
    BY <1>1, <1>2, <1>3, <1>same, <1>new1, <1>new2, <1>new3, <1>new4, <1>new5, <1>new6,
       <1>word, <1>kind, <1>case, <1>count, <1>depth, <1>known DEF Place
  <2> QED
    BY <2>1, <2>2, <2>3, <1>same, <1>2 DEF Quiet
<1> QED
  BY <1>types, <1>calm, <1>right, <1>free, <1>loss, OneSteps, <1>quiet

\* The last level of a PI mutex.
LEMMA UnlockPILastCore ==
    ASSUME CoreInv, NEW t \in Threads, NEW m \in Mutexes, UnlockPI(t, m), CountedDown(m) = 0
    PROVE  CoreInv' /\ Others(t) /\ Quiet(t)
<1>1. TypeOK /\ th[t].at = "user" /\ ~InCall(t)
  BY DEF CoreInv, UnlockPI, Enter, At, InCall
<1>2. /\ t \notin dead
      /\ \A x \in Mutexes : TellRight(t, x) /\ OwnerRight(t, x) /\ CountRight(t, x)
  BY <1>1 DEF CoreInv, ThreadRight, PlaceRight, At
<1>word. kind[m].pi /\ owner[m] = t /\ word[m].tid = t
  BY <1>2 DEF UnlockPI, OwnerRight
<1>kind. count[m] \in 0 .. CountMod - 1 /\ depth[t][m] \in Nat
  BY <1>1 DEF TypeOK
<1>case. kind[m].type = "recursive" /\ kind[m].robust => count[m] = depth[t][m] /\ depth[t][m] > 0
  BY <1>1, <1>2, <1>word DEF CountRight, Getting, Giving, DeadGetting
<1>width. CountMod \in Nat /\ CountMod > 1
  BY BoundsAssumption
<1>down. /\ Down(count[m]) \in 0 .. CountMod - 1
         /\ count[m] > 0 => Down(count[m]) = count[m] - 1
         /\ count[m] = 0 => Down(count[m]) = CountMod - 1
         /\ Down(0) = CountMod - 1
  BY <1>kind, <1>width, DownIs
<1>count. /\ CountedDown(m) \in 0 .. CountMod - 1
          /\ kind[m].type = "recursive" /\ kind[m].robust => CountedDown(m) = count[m] - 1
          /\ CountedDown(m) = 0 => count[m] = 1 /\ ~(kind[m].type = "recursive" /\ ~kind[m].robust)
  BY <1>down, <1>kind, <1>width, <1>case DEF CountedDown, Twice
<1>known. CountedDown(m) = 0
  OBVIOUS
<1>depth. Less(depth[t][m]) = 0
  BY <1>kind, <1>case, <1>count, <1>known, <1>2, LessIs DEF TellRight, AllKinds
<1>3. /\ th' \in [Threads -> ThreadState] /\ OthersStay(t)
      /\ Place(t, "prelease", m, Free, Nobody)
  <2> DEFINE s == [AtUser EXCEPT !.at = "prelease", !.m = m]
  <2>1. /\ s \in ThreadState
        /\ s.at = "prelease" /\ s.m = m /\ s.old = Free /\ s.new = Nobody
    BY FreeIs DEF AtUser, ThreadState, Places, Giving
  <2>2. th' = [th EXCEPT ![t] = s]
    BY DEF UnlockPI
  <2> HIDE DEF s
  <2>3. th' \in [Threads -> ThreadState] /\ OthersStay(t) /\ Place(t, s.at, s.m, s.old, s.new)
    BY <1>1, <2>1, <2>2, MoveIs
  <2> QED
    BY <2>1, <2>3
<1>same. /\ kind' = kind /\ word' = word /\ next' = next /\ prev' = prev
         /\ pending' = pending /\ lost' = lost /\ stray' = stray /\ dead' = dead
  BY DEF UnlockPI, fields, links, ghosts
<1>new1. /\ count' \in [Mutexes -> 0 .. CountMod - 1] /\ count'[m] = CountedDown(m)
         /\ \A x \in Mutexes \ {m} : count'[x] = count[x]
  <2>1. count \in [Mutexes -> 0 .. CountMod - 1]
    BY <1>1 DEF TypeOK
  <2>2. count' = [count EXCEPT ![m] = CountedDown(m)]
    BY DEF UnlockPI
  <2> HIDE DEF CountedDown
  <2> QED
    BY <2>1, <2>2, <1>count
<1>new2. /\ owner' \in [Mutexes -> Threads \cup {Nobody, Inconsistent, NotRecoverable}]
         /\ owner'[m] = Nobody
         /\ \A x \in Mutexes \ {m} : owner'[x] = owner[x]
  BY <1>1 DEF UnlockPI, TypeOK
<1>new3. depth' \in [Threads -> [Mutexes -> Nat]]
  <2>1. depth \in [Threads -> [Mutexes -> Nat]]
    BY <1>1 DEF TypeOK
  <2>2. depth' = [depth EXCEPT ![t][m] = Less(depth[t][m])]
    BY DEF UnlockPI, GiveUp
  <2> QED
    BY <2>1, <2>2, <1>depth
<1>new4. OnlyDepth(t)
  <2>1. depth \in [Threads -> [Mutexes -> Nat]]
    BY <1>1 DEF TypeOK
  <2>2. depth' = [depth EXCEPT ![t][m] = Less(depth[t][m])]
    BY DEF UnlockPI, GiveUp
  <2> QED
    BY <2>1, <2>2, <1>depth DEF OnlyDepth
<1>new5. \A x \in Mutexes \ {m} : depth'[t][x] = depth[t][x]
  <2>1. depth \in [Threads -> [Mutexes -> Nat]]
    BY <1>1 DEF TypeOK
  <2>2. depth' = [depth EXCEPT ![t][m] = Less(depth[t][m])]
    BY DEF UnlockPI, GiveUp
  <2> QED
    BY <2>1, <2>2, <1>depth
<1>new6. depth'[t][m] = 0
  <2>1. depth \in [Threads -> [Mutexes -> Nat]]
    BY <1>1 DEF TypeOK
  <2>2. depth' = [depth EXCEPT ![t][m] = Less(depth[t][m])]
    BY DEF UnlockPI, GiveUp
  <2> QED
    BY <2>1, <2>2, <1>depth
<1>types. TypeOK'
  BY <1>1, <1>3, <1>same, <1>new1, <1>new2, <1>new3, <1>new4, <1>new5, <1>new6, <1>word,
     <1>kind, <1>case, <1>count, <1>depth, <1>known DEF TypeOK
<1>others. ASSUME NEW u \in Threads \ {t} PROVE Calm(u)
  <2>1. th'[u] = th[u] /\ dead' = dead
    BY <1>3, <1>same DEF OthersStay
  <2>2. pending'[u] = pending[u]
    BY <1>same
  <2>3. depth'[u] = depth[u]
    BY <1>new4 DEF OnlyDepth
  <2>4. ASSUME NEW x \in Mutexes
        PROVE  /\ word'[x].tid = u => word[x].tid = u
               /\ word[x].tid = u /\ u \notin dead
                    => /\ word'[x].tid = u /\ owner'[x] = owner[x]
                       /\ count'[x] = count[x] \/ owner[x] = NotRecoverable
               /\ owner'[x] = u => owner[x] = u
    BY <1>3, <1>same, <1>new1, <1>new2, <1>new3, <1>new4, <1>new5, <1>new6, <1>word,
       <1>kind, <1>case, <1>count, <1>depth, <1>known, <1>2, Names DEF OnlyWord
  <2> QED
    BY <2>1, <2>2, <2>3, <2>4, <1>same DEF Calm
<1>place. PlaceRight(t)'
  BY <1>1, <1>2, <1>3, <1>same, <1>new1, <1>new2, <1>new3, <1>new4, <1>new5, <1>new6,
     <1>word, <1>kind, <1>case, <1>count, <1>depth, <1>known, Names DEF PlaceRight, Place,
     InCall, At, Getting, Giving, DeadGetting, LockOnly
<1>hold. HoldRight(t)'
  BY <1>1, <1>2, <1>3, <1>same, <1>new1, <1>new2, <1>new3, <1>new4, <1>new5, <1>new6,
     <1>word, <1>kind, <1>case, <1>count, <1>depth, <1>known, Names DEF HoldRight, Place,
     Between, At, OnlyWord, Getting, Giving, DeadGetting
<1>pending. PendingRight(t)'
  BY <1>1, <1>2, <1>3, <1>same, <1>new1, <1>new2, <1>new3, <1>new4, <1>new5, <1>new6,
     <1>word, <1>kind, <1>case, <1>count, <1>depth, <1>known DEF PendingRight, Place,
     InCall, At, PlaceRight, LockOnly
<1>dead. DeadRight(t)'
  BY <1>1, <1>2, <1>3, <1>same, <1>new1, <1>new2, <1>new3, <1>new4, <1>new5, <1>new6,
     <1>word, <1>kind, <1>case, <1>count, <1>depth, <1>known, Names DEF DeadRight, Place,
     At, InCall, PlaceRight, LockOnly
<1>mutexes. ASSUME NEW x \in Mutexes
            PROVE  TellRight(t, x)' /\ OwnerRight(t, x)' /\ CountRight(t, x)'
  <2>1. TellRight(t, x)'
    BY <1>1, <1>2, <1>3, <1>same, <1>new1, <1>new2, <1>new3, <1>new4, <1>new5, <1>new6,
       <1>word, <1>kind, <1>case, <1>count, <1>depth, <1>known, Names DEF TellRight, Place,
       OnlyWord, HoldRight, Between, At, InCall, PlaceRight, Getting, Giving, DeadGetting,
       LockOnly
  <2>2. OwnerRight(t, x)'
    BY <1>1, <1>2, <1>3, <1>same, <1>new1, <1>new2, <1>new3, <1>new4, <1>new5, <1>new6,
       <1>word, <1>kind, <1>case, <1>count, <1>depth, <1>known, Names DEF OwnerRight, Place,
       OnlyWord, HoldRight, Between, At, InCall, Getting, Giving, DeadGetting, LockOnly
  <2>3. CountRight(t, x)'
    <3>1. CountRight(t, x) /\ count[x] \in Nat /\ depth[t][x] \in Nat
      BY <1>1, <1>2 DEF TypeOK
    <3>2. CASE x = m
      BY <3>1, <3>2, <1>1, <1>2, <1>3, <1>same, <1>new1, <1>new2, <1>new3, <1>new4, <1>new5,
         <1>new6, <1>word, <1>kind, <1>case, <1>count, <1>depth, <1>known, Names
         DEF CountRight, Place, Getting, Giving, DeadGetting
    <3>3. CASE x # m
      <4>1. count'[x] = count[x] /\ depth'[t][x] = depth[t][x] /\ word' = word /\ kind' = kind
            /\ owner'[x] = owner[x] /\ dead' = dead
        BY <3>3, <1>3, <1>same, <1>new1, <1>new2, <1>new3, <1>new4, <1>new5, <1>new6,
           <1>word, <1>kind, <1>case, <1>count, <1>depth, <1>known
      <4> QED
        BY <3>1, <3>3, <4>1, <1>1 DEF CountRight, Getting, Giving, DeadGetting
    <3> QED
      BY <3>2, <3>3
  <2> QED
    BY <2>1, <2>2, <2>3
<1>free. DiedFree'
  BY <1>1, <1>2, <1>3, <1>same, <1>new1, <1>new2, <1>new3, <1>new4, <1>new5, <1>new6,
     <1>word, <1>kind, <1>case, <1>count, <1>depth, <1>known DEF CoreInv, DiedFree,
     OnlyWord, PlaceRight, At, LockOnly
<1>loss. LostRight'
  <2>1. LostRight
    BY DEF CoreInv
  <2>2. \A x \in lost' : /\ word'[x].tid = word[x].tid
                         /\ word[x].tid = Nobody /\ word[x].died => word'[x].died
                         /\ th[t].m = x /\ th[t].at \in DeadGetting
                              => th'[t].m = x /\ th'[t].at \in DeadGetting
    BY <1>1, <1>2, <1>3, <1>same, <1>new1, <1>new2, <1>new3, <1>new4, <1>new5, <1>new6,
       <1>word, <1>kind, <1>case, <1>count, <1>depth, <1>known, Names DEF DeadGetting,
       Place, OnlyWord
  <2> QED
    BY <2>1, <2>2, <1>3, <1>same, <1>new1, <1>new2, <1>new3, <1>new4, <1>new5, <1>new6,
       <1>word, <1>kind, <1>case, <1>count, <1>depth, <1>known, LossKept DEF OthersStay
<1>right. ThreadRight(t)'
  BY <1>place, <1>hold, <1>pending, <1>dead, <1>mutexes DEF ThreadRight
<1>calm. Others(t)
  BY <1>others DEF Others
<1>quiet. Quiet(t)
  <2>1. ASSUME NEW x \in Mutexes, stray' = {} PROVE Listed(t, x)' <=> Listed(t, x)
    BY <2>1, <1>1, <1>2, <1>3, <1>same, <1>new1, <1>new2, <1>new3, <1>new4, <1>new5,
       <1>new6, <1>word, <1>kind, <1>case, <1>count, <1>depth, <1>known, Names DEF Listed,
       Off, Place, OnlyWord, HoldRight, Between, At, InCall, PlaceRight, DeadRight, Getting,
       Giving, DeadGetting, LockOnly
  <2>2. ASSUME NEW x \in Mutexes, owner'[x] # owner[x]
        PROVE  /\ word[x].tid = t
               /\ owner'[x] = NotRecoverable => At(t, "disown") /\ th[t].m = x
    BY <2>2, <1>1, <1>2, <1>3, <1>same, <1>new1, <1>new2, <1>new3, <1>new4, <1>new5,
       <1>new6, <1>word, <1>kind, <1>case, <1>count, <1>depth, <1>known, Names DEF At
  <2>3. /\ th[t].at \notin {"link", "dead_link"}
        /\ th'[t].at \notin {"link", "dead_link", "disown"}
    BY <1>1, <1>2, <1>3, <1>same, <1>new1, <1>new2, <1>new3, <1>new4, <1>new5, <1>new6,
       <1>word, <1>kind, <1>case, <1>count, <1>depth, <1>known DEF Place
  <2> QED
    BY <2>1, <2>2, <2>3, <1>same, <1>2 DEF Quiet
<1> QED
  BY <1>types, <1>calm, <1>right, <1>free, <1>loss, OneSteps, <1>quiet

\* A thread dies: the mutexes that the kernel marks.
Marked(t) == {m \in Walk(t) \cup {pending[t]} : m # NULL /\ word[m].tid = t}

\* What it leaves behind.
LEMMA DieIs ==
    ASSUME CoreInv, NEW t \in Threads, Die(t)
    PROVE  /\ t \notin dead /\ dead' = dead \cup {t}
           /\ word' \in [Mutexes -> Word]
           /\ \A x \in Mutexes :
                /\ x \notin Marked(t) => word'[x] = word[x]
                /\ x \in Marked(t) => word[x].tid = t /\ word'[x].tid = Nobody /\ word'[x].died
           /\ lost' = lost \cup {m \in Mutexes : kind[m].robust /\ depth[t][m] > 0}
           /\ depth' = [depth EXCEPT ![t] = [m \in Mutexes |-> 0]]
           /\ pending' = [pending EXCEPT ![t] = NULL]
           /\ th' \in [Threads -> ThreadState] /\ OthersStay(t)
           /\ Place(t, "dead", NULL, Free, Nobody)
           /\ kind' = kind /\ owner' = owner /\ count' = count /\ nusers' = nusers
           /\ next' = next /\ prev' = prev /\ stray' = stray
<1>1. TypeOK
  BY DEF CoreInv
<1>2. /\ t \notin dead /\ dead' = dead \cup {t}
      /\ word' = [m \in Mutexes |-> IF m \in Marked(t)
                                      THEN [word[m] EXCEPT !.tid = Nobody, !.died = TRUE]
                                      ELSE word[m]]
      /\ lost' = lost \cup {m \in Mutexes : kind[m].robust /\ depth[t][m] > 0}
      /\ depth' = [depth EXCEPT ![t] = [m \in Mutexes |-> 0]]
      /\ pending' = [pending EXCEPT ![t] = NULL]
      /\ th' = [th EXCEPT ![t] = [AtUser EXCEPT !.at = "dead"]]
      /\ kind' = kind /\ owner' = owner /\ count' = count /\ nusers' = nusers
      /\ next' = next /\ prev' = prev /\ stray' = stray
  BY DEF Die, Marked, links
<1>3. \A m \in Mutexes : /\ [word[m] EXCEPT !.tid = Nobody, !.died = TRUE] \in Word
                         /\ [word[m] EXCEPT !.tid = Nobody, !.died = TRUE].tid = Nobody
                         /\ [word[m] EXCEPT !.tid = Nobody, !.died = TRUE].died
  BY <1>1 DEF TypeOK, Word
<1>4. word' \in [Mutexes -> Word]
  <2>1. \A m \in Mutexes : word[m] \in Word
    BY <1>1 DEF TypeOK
  <2> HIDE DEF Word, Marked
  <2> QED
    BY <1>2, <1>3, <2>1
<1>5. \A x \in Mutexes :
        /\ x \notin Marked(t) => word'[x] = word[x]
        /\ x \in Marked(t) => word[x].tid = t /\ word'[x].tid = Nobody /\ word'[x].died
  <2>1. \A x \in Marked(t) : word[x].tid = t
    BY DEF Marked
  <2> HIDE DEF Marked
  <2> QED
    BY <1>2, <1>3, <2>1
<1>6. th' \in [Threads -> ThreadState] /\ OthersStay(t) /\ Place(t, "dead", NULL, Free, Nobody)
  <2> DEFINE s == [AtUser EXCEPT !.at = "dead"]
  <2>1. /\ s \in ThreadState
        /\ s.at = "dead" /\ s.m = NULL /\ s.old = Free /\ s.new = Nobody
    BY FreeIs DEF AtUser, ThreadState, Places
  <2>2. th' = [th EXCEPT ![t] = s]
    BY <1>2
  <2> HIDE DEF s
  <2>3. th' \in [Threads -> ThreadState] /\ OthersStay(t) /\ Place(t, s.at, s.m, s.old, s.new)
    BY <1>1, <2>1, <2>2, MoveIs
  <2> QED
    BY <2>1, <2>3
<1> QED
  BY <1>2, <1>4, <1>5, <1>6

\* The words stay right: a loss is recorded, and the word is marked or still has
\* the id of the dead thread.
LEMMA DieCore == ASSUME CoreInv, NEW t \in Threads, Die(t) PROVE CoreInv' /\ Others(t)
<1>0. TypeOK
  BY DEF CoreInv
<1>1. /\ t \notin dead /\ dead' = dead \cup {t}
      /\ word' \in [Mutexes -> Word]
      /\ \A x \in Mutexes :
           /\ x \notin Marked(t) => word'[x] = word[x]
           /\ x \in Marked(t) => word[x].tid = t /\ word'[x].tid = Nobody /\ word'[x].died
      /\ lost' = lost \cup {m \in Mutexes : kind[m].robust /\ depth[t][m] > 0}
      /\ th' \in [Threads -> ThreadState] /\ OthersStay(t)
      /\ Place(t, "dead", NULL, Free, Nobody)
      /\ kind' = kind /\ owner' = owner /\ count' = count
      /\ next' = next /\ prev' = prev /\ stray' = stray
  BY DieIs
<1>2. depth' = [depth EXCEPT ![t] = [m \in Mutexes |-> 0]] /\ pending' = [pending EXCEPT ![t] = NULL]
  BY DieIs
<1>3. depth' \in [Threads -> [Mutexes -> Nat]] /\ pending' \in [Threads -> Mutexes \cup {NULL}]
  BY <1>0, <1>2 DEF TypeOK
<1>4. \A x \in Mutexes : depth'[t][x] = 0
  BY <1>0, <1>2 DEF TypeOK
<1>5. TypeOK'
  BY <1>0, <1>1, <1>3 DEF TypeOK
<1>6. ASSUME NEW u \in Threads \ {t} PROVE Calm(u)
  <2>1. th'[u] = th[u] /\ (u \in dead' <=> u \in dead)
    BY <1>1 DEF OthersStay
  <2>2. pending'[u] = pending[u] /\ depth'[u] = depth[u]
    BY <1>0, <1>2 DEF TypeOK
  <2>3. ASSUME NEW x \in Mutexes
        PROVE  word'[x].tid = u <=> word[x].tid = u
    BY <1>1, Names
  <2> QED
    BY <2>1, <2>2, <2>3, <1>1 DEF Calm
<1>11. Others(t)
  BY <1>6 DEF Others
<1>7. th'[t].at = "dead" /\ t \in dead'
  BY <1>1 DEF Place
<1>8. ThreadRight(t)'
  <2>1. PlaceRight(t)'
    BY <1>7 DEF PlaceRight, InCall, At, Getting, DeadGetting, LockOnly
  <2>2. HoldRight(t)' /\ PendingRight(t)' /\ DeadRight(t)'
    BY <1>7 DEF HoldRight, Between, PendingRight, DeadRight, InCall, At, Getting, Giving,
       DeadGetting
  <2>3. ASSUME NEW x \in Mutexes
        PROVE  TellRight(t, x)' /\ OwnerRight(t, x)' /\ CountRight(t, x)'
    BY <1>4, <1>7 DEF TellRight, OwnerRight, CountRight
  <2> QED
    BY <2>1, <2>2, <2>3 DEF ThreadRight
<1>9. DiedFree'
  <2>1. DiedFree
    BY DEF CoreInv
  <2> QED
    BY <2>1, <1>1 DEF DiedFree
<1>10. LostRight'
  <2> SUFFICES ASSUME NEW x \in lost'
               PROVE  /\ kind[x].robust
                      /\ \/ word'[x].tid \in dead'
                         \/ word'[x].tid = Nobody /\ word'[x].died
                         \/ \E v \in Threads :
                              word'[x].tid = v /\ th'[v].m = x /\ th'[v].at \in DeadGetting
    BY <1>1 DEF LostRight
  <2>1. x \in Mutexes
    BY <1>5 DEF TypeOK
  <2>2. CASE word[x].tid = t
    <3>1. kind[x].robust
      BY <2>2, <1>1 DEF CoreInv, LostRight
    <3> QED
      BY <3>1, <2>1, <2>2, <1>1
  <2>3. CASE word[x].tid # t
    <3>1. x \in lost
      <4>1. depth[t][x] > 0 => word[x].tid = t
        BY <2>1 DEF CoreInv, ThreadRight, TellRight
      <4> QED
        BY <4>1, <2>3, <1>1
    <3>2. word'[x] = word[x]
      BY <2>1, <2>3, <1>1
    <3>3. /\ kind[x].robust
          /\ \/ word[x].tid \in dead
             \/ word[x].tid = Nobody /\ word[x].died
             \/ \E v \in Threads : word[x].tid = v /\ th[v].m = x /\ th[v].at \in DeadGetting
      BY <3>1 DEF CoreInv, LostRight
    <3>4. ASSUME NEW v \in Threads, word[x].tid = v, th[v].m = x, th[v].at \in DeadGetting
          PROVE  word'[x].tid = v /\ th'[v].m = x /\ th'[v].at \in DeadGetting
      <4>1. th'[v] = th[v]
        BY <2>3, <3>4, <1>1 DEF OthersStay
      <4> QED
        BY <4>1, <3>2, <3>4
    <3> QED
      BY <3>2, <3>3, <3>4, <1>1
  <2> QED
    BY <2>2, <2>3
<1> QED
  BY <1>5, <1>8, <1>9, <1>10, <1>11, OneSteps

-----------------------------------------------------------------------------
(***************************************************************************)
(* Every step leaves the words right, and most of them the lists alone.    *)
(***************************************************************************)
ListStep(t) ==
    \/ Enqueue(t) \/ (Unlink(t) /\ next[th[t].m] # NULL) \/ ClearLinks(t) \/ Die(t)

Passes(t) == UNCHANGED coreView \/ (Others(t) /\ (Quiet(t) \/ ListStep(t)))

\* The steps of trylock.
LEMMA TrylockStepCore ==
    ASSUME CoreInv, NEW t \in Threads, TrylockStep(t)
    PROVE  CoreInv' /\ Passes(t)
<1>1. CASE TryRead(t) \/ Mine(t) \/ Busy(t) \/ DeadOwner(t) \/ ReturnOwnerDead(t) \/ Record(t)
  BY <1>1, TryReadCore, MineCore, BusyCore, DeadOwnerCore, ReturnOwnerDeadCore, RecordCore
     DEF Passes
<1>2. CASE TakeOver(t)
  BY <1>2, TakeOverWonCore, TakeOverMissedCore DEF Passes
<1>3. CASE TryCas(t)
  BY <1>3, TryCasWonCore, TryCasLostCore DEF Passes
<1>4. CASE Look(t)
  BY <1>4, LookUnrecoverableCore, LookDiedCore, LookWonCore DEF Passes
<1>5. CASE Enqueue(t)
  BY <1>5, PrepareCore, PrepareDeadCore, LinkCore, LinkDeadCore DEF Enqueue, Passes,
     ListStep
<1> QED
  BY <1>1, <1>2, <1>3, <1>4, <1>5 DEF TrylockStep

\* The two more of a PI mutex.
LEMMA KernelStepCore ==
    ASSUME CoreInv, NEW t \in Threads, KernelStep(t)
    PROVE  CoreInv' /\ Passes(t)
<1>1. CASE TryKernel(t) /\ kind[th[t].m].robust
  BY <1>1, TryKernelWonCore, TryKernelBusyCore DEF Passes
<1>2. CASE TryKernel(t) /\ ~kind[th[t].m].robust
  <2>1. UNCHANGED coreView
    BY <1>2 DEF TryKernel, coreView, fields, links, ghosts
  <2> QED
    BY <2>1, StillCore DEF Passes
<1>3. CASE ClearDied(t)
  BY <1>3, ClearDiedCore DEF Passes
<1> QED
  BY <1>1, <1>2, <1>3 DEF KernelStep

\* The steps of lock.
LEMMA LockStepCore ==
    ASSUME CoreInv, NEW t \in Threads, LockStep(t)
    PROVE  CoreInv' /\ Passes(t)
<1>1. CASE LockRead(t)
  BY <1>1, LockReadMineCore, LockReadFreeCore DEF Passes
<1>2. CASE LockCas(t)
  BY <1>2, LockCasWonCore, LockCasLostCore DEF Passes
<1>3. CASE LockKernel(t)
  <2>1. \/ /\ word[th[t].m].tid = Nobody
           /\ word' = [word EXCEPT ![th[t].m].tid = t] /\ Goto(t, "pcheck")
        \/ Goto(t, "hung") /\ word' = word
        \/ word' = [word EXCEPT ![th[t].m].waiters = TRUE] /\ Goto(t, "pblock")
    BY <1>3 DEF LockKernel
  <2> QED
    BY <1>3, <2>1, LockKernelWonCore, LockKernelHungCore, LockKernelBlockedCore DEF Passes
<1>4. CASE HandOff(t)
  BY <1>4, HandOffCore DEF Passes
<1>5. CASE LockCheck(t) /\ ~word[th[t].m].died
  BY <1>5, LockCheckCore DEF Passes
<1>6. CASE LockCheck(t) /\ word[th[t].m].died
  <2>1. UNCHANGED coreView
    BY <1>6 DEF LockCheck, coreView, fields, links, ghosts
  <2> QED
    BY <2>1, StillCore DEF Passes
<1> QED
  BY <1>1, <1>2, <1>3, <1>4, <1>5, <1>6 DEF LockStep

\* The steps of unlock.
LEMMA UnlockStepCore ==
    ASSUME CoreInv, NEW t \in Threads, UnlockStep(t)
    PROVE  CoreInv' /\ Passes(t)
<1>1. CASE Unlink(t) /\ next[th[t].m] # NULL
  BY <1>1, UnlinkCore DEF Passes, ListStep
<1>2. CASE (Unlink(t) /\ next[th[t].m] = NULL) \/ ChangePriority(t)
  <2>1. UNCHANGED coreView
    BY <1>2 DEF Unlink, ChangePriority, coreView, fields, links, ghosts
  <2> QED
    BY <2>1, StillCore DEF Passes
<1>3. CASE ClearLinks(t) \/ Disown(t) \/ Release(t) \/ ReleasePI(t)
  BY <1>3, ClearLinksCore, DisownCore, ReleaseCore, ReleasePICore DEF Passes, ListStep
<1> QED
  BY <1>1, <1>2, <1>3 DEF UnlockStep

\* The calls.
LEMMA CallCore ==
    ASSUME CoreInv, NEW t \in Threads, NEW m \in Mutexes, Call(t, m)
    PROVE  CoreInv' /\ Passes(t)
<1>1. CASE Trylock(t, m) \/ Lock(t, m) \/ UnlockOnce(t, m) \/ UnlockRobust(t, m)
  BY <1>1, TrylockCore, LockCore, UnlockOnceCore, UnlockRobustCore DEF Passes
<1>2. CASE LockInvalid(t, m) \/ UnlockRefused(t, m)
  <2>1. UNCHANGED coreView
    BY <1>2 DEF LockInvalid, UnlockRefused, coreView, fields, links, ghosts
  <2> QED
    BY <2>1, StillCore DEF Passes
<1>3. CASE UnlockPI(t, m)
  BY <1>3, UnlockPIOnceCore, UnlockPILastCore DEF Passes
<1> QED
  BY <1>1, <1>2, <1>3 DEF Call

\* Any of them.
LEMMA StepCore ==
    ASSUME CoreInv, NEW t \in Threads, Step(t) \/ Die(t) \/ \E m \in Mutexes : Call(t, m)
    PROVE  CoreInv' /\ Passes(t)
<1>1. CASE Step(t)
  BY <1>1, TrylockStepCore, KernelStepCore, LockStepCore, UnlockStepCore DEF Step
<1>2. CASE Die(t)
  BY <1>2, DieCore DEF Passes, ListStep
<1>3. CASE \E m \in Mutexes : Call(t, m)
  BY <1>3, CallCore
<1> QED
  BY <1>1, <1>2, <1>3

\* What was taken for the lock once is not taken back.
LEMMA MisledStays == ASSUME [Next]_vars, ~misled' PROVE ~misled
  BY DEF Next, vars, KernelFails, TryKernelFails, LockKernelFails

\* Without an error of the kernel taken for the lock, a step is one of the others.
LEMMA NoError ==
    ASSUME Next, ~misled'
    PROVE  \E t \in Threads : Step(t) \/ Die(t) \/ \E m \in Mutexes : Call(t, m)
  BY DEF Next, KernelFails, TryKernelFails, LockKernelFails

\* The words stay right.
LEMMA NextCore == ASSUME CoreInv, [Next]_vars, ~misled' PROVE CoreInv'
<1>1. CASE UNCHANGED vars
  <2>1. UNCHANGED coreView
    BY <1>1 DEF vars, fields, links, ghosts, coreView
  <2> QED
    BY <2>1, StillCore
<1>2. CASE Next
  <2>1. PICK t \in Threads : Step(t) \/ Die(t) \/ \E m \in Mutexes : Call(t, m)
    BY <1>2, NoError
  <2> QED
    BY <2>1, StepCore
<1> QED
  BY <1>1, <1>2

-----------------------------------------------------------------------------
(***************************************************************************)
(* The lists.                                                              *)
(***************************************************************************)
\* A step of another thread leaves the links of u alone.
CalmLinks(u) ==
    \A x \in Mutexes \cup {u} :
        x = u \/ word[x].tid = u => next'[x] = next[x] /\ prev'[x] = prev[x]

\* Then it leaves the list of u as it was.
LEMMA CalmList ==
    ASSUME CoreInv, NEW u \in Threads \ dead, Calm(u), CalmLinks(u), ListRightOf(u)
    PROVE  ListRightOf(u)'
<1>1. /\ kind' = kind /\ th'[u] = th[u]
      /\ \A x \in Mutexes : /\ word'[x].tid = u => word[x].tid = u
                            /\ word[x].tid = u => word'[x].tid = u /\ owner'[x] = owner[x]
  BY DEF Calm
<1>2. InList(u)' = InList(u) /\ Back(u)' = Back(u)
  <2>1. ASSUME NEW x \in Mutexes PROVE Listed(u, x)' <=> Listed(u, x)
    BY <1>1 DEF Listed
  <2> QED
    BY <2>1, <1>1 DEF InList, Back
<1>3. \A x \in InList(u) \cup {u} : next'[x] = next[x] /\ prev'[x] = prev[x]
  BY DEF InList, Listed, CalmLinks
<1>4. Chain(u, InList(u)', next', prev', Back(u)')
  <2>1. Chain(u, InList(u), next, prev, Back(u))
    BY DEF ListRightOf
  <2>2. Chain(u, InList(u), next', prev', Back(u))
    BY <2>1, <1>3, ChainFrame
  <2> QED
    BY <2>2, <1>2
<1>5. th[u].at \in {"link", "dead_link", "disown"} => th[u].m \in Mutexes /\ word[th[u].m].tid = u
  BY DEF CoreInv, ThreadRight, PlaceRight, HoldRight, Between, InCall, Getting, Giving,
     DeadGetting
<1>6. Joining(u)' /\ (At(u, "disown") => next[th[u].m] = NULL)'
  <2>1. th[u].at \in {"link", "dead_link", "disown"}
          => /\ next'[th[u].m] = next[th[u].m] /\ prev'[th[u].m] = prev[th[u].m]
             /\ next'[u] = next[u]
    BY <1>5 DEF CalmLinks
  <2> QED
    BY <2>1, <1>1 DEF ListRightOf, Joining, At
<1> QED
  BY <1>4, <1>6 DEF ListRightOf

\* It is enough to look at the list of the thread that takes the step.
LEMMA OneList ==
    ASSUME CoreInv, NEW t \in Threads \ dead, Others(t), ListsRight, stray = {},
           dead' = dead,
           \A u \in Threads \ {t} : CalmLinks(u),
           \A x \in Mutexes : owner'[x] # owner[x] => word[x].tid = t,
           ListRightOf(t)', Delisted'
    PROVE  ListsRight'
<1>1. ASSUME NEW u \in Threads \ dead' PROVE ListRightOf(u)'
  <2>1. CASE u = t
    BY <2>1
  <2>2. CASE u # t
    <3>1. u \in Threads \ dead /\ Calm(u) /\ CalmLinks(u) /\ ListRightOf(u)
      BY <2>2 DEF Others, ListsRight
    <3> QED
      BY <3>1, CalmList
  <2> QED
    BY <2>1, <2>2
<1>2. NoDeadId'
  <2> SUFFICES ASSUME NEW x \in Mutexes, kind'[x].robust, word'[x].tid \in dead
               PROVE  owner'[x] = NotRecoverable
    BY DEF NoDeadId
  <2>1. word'[x].tid \in Threads /\ word'[x].tid # t
    BY DEF CoreInv, TypeOK
  <2>2. word[x].tid = word'[x].tid /\ kind'[x] = kind[x]
    BY <2>1 DEF Others, Calm
  <2>3. owner[x] = NotRecoverable
    BY <2>2 DEF ListsRight, NoDeadId
  <2> QED
    BY <2>1, <2>2, <2>3
<1> QED
  BY <1>1, <1>2 DEF ListsRight

\* A step that follows no list.
LEMMA QuietLists ==
    ASSUME CoreInv, NEW t \in Threads, Others(t), Quiet(t), ListsRight, stray' = {}
    PROVE  ListsRight'
<1>1. /\ next' = next /\ prev' = prev /\ dead' = dead /\ t \notin dead /\ stray = {}
      /\ th[t].at \notin {"link", "dead_link"}
      /\ th'[t].at \notin {"link", "dead_link", "disown"}
      /\ \A x \in Mutexes : Listed(t, x)' <=> Listed(t, x)
      /\ \A x \in Mutexes :
           owner'[x] # owner[x] =>
             /\ word[x].tid = t
             /\ owner'[x] = NotRecoverable => At(t, "disown") /\ th[t].m = x
  BY DEF Quiet
<1>2. ListRightOf(t) /\ Delisted
  BY <1>1 DEF ListsRight
<1>3. InList(t)' = InList(t) /\ Back(t)' = t /\ Back(t) = t
  BY <1>1 DEF InList, Back
<1>4. ListRightOf(t)'
  <2>1. Chain(t, InList(t)', next', prev', Back(t)')
    BY <1>1, <1>2, <1>3 DEF ListRightOf
  <2> QED
    BY <2>1, <1>1 DEF ListRightOf, Joining, At
<1>5. Delisted'
  BY <1>1, <1>2 DEF Delisted, ListRightOf
<1>6. \A u \in Threads \ {t} : CalmLinks(u)
  BY <1>1 DEF CalmLinks
<1> QED
  BY <1>1, <1>4, <1>5, <1>6, OneList

\* Where a thread changes the links of its mutex.
LEMMA LinkingIs ==
    ASSUME CoreInv, NEW t \in Threads,
           th[t].at \in {"prepare", "dead_prepare", "link", "dead_link", "unlink", "unlinked"}
    PROVE  /\ th[t].m \in Mutexes /\ t \notin dead /\ TypeOK
           /\ kind[th[t].m].robust /\ word[th[t].m].tid = t
           /\ th[t].at \notin {"unlink", "unlinked"} => owner[th[t].m] # NotRecoverable
           /\ t \notin InList(t) /\ InList(t) \subseteq Mutexes
           /\ \A x \in InList(t) : word[x].tid = t /\ owner[x] # NotRecoverable
<1>1. TypeOK /\ InCall(t)
  BY DEF CoreInv, InCall
<1>2. th[t].m \in Mutexes /\ t \notin dead /\ PlaceRight(t) /\ HoldRight(t) /\ DeadRight(t)
  BY <1>1, InCallIs
<1>3. word[th[t].m].tid = t
  BY <1>2 DEF HoldRight, Between, Getting, Giving, DeadGetting
<1>4. kind[th[t].m].robust
  BY <1>1, <1>2 DEF PlaceRight, TypeOK, AllKinds, DeadGetting
<1>5. th[t].at \notin {"unlink", "unlinked"} => owner[th[t].m] # NotRecoverable
  BY <1>2, Names DEF DeadRight
<1>6. /\ t \notin InList(t) /\ InList(t) \subseteq Mutexes
      /\ \A x \in InList(t) : word[x].tid = t /\ owner[x] # NotRecoverable
  BY Names DEF InList, Listed
<1> QED
  BY <1>1, <1>2, <1>3, <1>4, <1>5, <1>6

\* ENQUEUE_MUTEX, the links that only the thread follows.
LEMMA PrepareLists ==
    ASSUME CoreInv, NEW t \in Threads, Others(t), ListsRight, stray = {},
           NEW from \in {"prepare", "dead_prepare"}, NEW to \in {"link", "dead_link"},
           Prepare(t, from, to)
    PROVE  ListsRight'
<1> DEFINE m == th[t].m
<1>1. th[t].at = from
  BY DEF Prepare, At
<1>2. /\ m \in Mutexes /\ t \notin dead /\ TypeOK /\ word[m].tid = t /\ owner[m] # NotRecoverable
      /\ t \notin InList(t) /\ InList(t) \subseteq Mutexes
      /\ \A x \in InList(t) : word[x].tid = t /\ owner[x] # NotRecoverable
  BY <1>1, LinkingIs
<1>3. /\ th' \in [Threads -> ThreadState] /\ OthersStay(t)
      /\ Place(t, to, th[t].m, th[t].old, th[t].new)
  BY <1>2, GotoIs DEF Prepare, Places, Getting, DeadGetting
<1>4. /\ prev' = [prev EXCEPT ![next[t]] = m, ![m] = t] /\ next' = [next EXCEPT ![m] = next[t]]
      /\ kind' = kind /\ word' = word /\ owner' = owner /\ dead' = dead
  BY DEF Prepare, fields
<1>5. m \notin InList(t) /\ m # t
  BY <1>1, <1>2, Names DEF InList, Listed, Off
<1>6. ListRightOf(t) /\ Delisted
  BY <1>2 DEF ListsRight
<1>7. Chain(t, InList(t), next, prev, t)
  BY <1>1, <1>6 DEF ListRightOf, Back
<1>8. next[t] \in InList(t) \cup {t}
  BY <1>2, <1>7, ChainFollow
<1>9. /\ next \in [Nodes -> Nodes \cup {NULL}] /\ prev \in [Nodes -> Nodes \cup {NULL}]
      /\ m \in Nodes /\ t \in Nodes /\ InList(t) \subseteq Nodes
  BY <1>2 DEF TypeOK, Nodes
<1> HIDE DEF m
<1>10. ListRightOf(t)'
  <2>1. InList(t)' = InList(t)
    <3>1. ASSUME NEW x \in Mutexes PROVE Listed(t, x)' <=> Listed(t, x)
      BY <1>1, <1>3, <1>4 DEF Listed, Place, Off
    <3> QED
      BY <3>1 DEF InList
  <2>2. Back(t)' = m
    BY <1>3 DEF Back, Place, m
  <2>3. Chain(t, InList(t), next', prev', m)
    <3>1. Chain(t, InList(t), [next EXCEPT ![m] = next[t]], [prev EXCEPT ![next[t]] = m, ![m] = t], m)
      BY <1>2, <1>5, <1>7, <1>9, ChainPrepare
    <3> QED
      BY <3>1, <1>4
  <2>4. next'[m] = next'[t] /\ prev'[m] = t
    BY <1>4, <1>5, <1>9
  <2> QED
    BY <2>1, <2>2, <2>3, <2>4, <1>3 DEF ListRightOf, Joining, Place, At, m
<1>11. Delisted'
  BY <1>2, <1>4, <1>6, <1>9 DEF Delisted, Nodes
<1>12. \A u \in Threads \ {t} : CalmLinks(u)
  BY <1>2, <1>4, <1>8, <1>9, Names DEF CalmLinks, Nodes
<1> QED
  BY <1>2, <1>4, <1>10, <1>11, <1>12, OneList

\* ENQUEUE_MUTEX, the link that the kernel follows.
LEMMA LinkLists ==
    ASSUME CoreInv, NEW t \in Threads, Others(t), ListsRight, stray = {},
           NEW from \in {"link", "dead_link"}, NEW to \in {"record", "dead_record"},
           Link(t, from, to)
    PROVE  ListsRight'
<1> DEFINE m == th[t].m
<1>1. th[t].at = from
  BY DEF Link, At
<1>2. /\ m \in Mutexes /\ t \notin dead /\ TypeOK
      /\ kind[m].robust /\ word[m].tid = t /\ owner[m] # NotRecoverable
      /\ t \notin InList(t) /\ InList(t) \subseteq Mutexes
      /\ \A x \in InList(t) : word[x].tid = t /\ owner[x] # NotRecoverable
  BY <1>1, LinkingIs
<1>3. /\ th' \in [Threads -> ThreadState] /\ OthersStay(t)
      /\ Place(t, to, th[t].m, th[t].old, th[t].new)
  BY <1>2, GotoIs DEF Link, Places, Getting, DeadGetting
<1>4. /\ next' = [next EXCEPT ![t] = m] /\ prev' = prev
      /\ kind' = kind /\ word' = word /\ owner' = owner /\ dead' = dead
  BY DEF Link, fields
<1>5. m \notin InList(t) /\ m # t
  BY <1>1, <1>2, Names DEF InList, Listed, Off
<1>6. ListRightOf(t) /\ Delisted
  BY <1>2 DEF ListsRight
<1>7. Chain(t, InList(t), next, prev, m) /\ next[m] = next[t] /\ prev[m] = t
  BY <1>1, <1>6 DEF ListRightOf, Back, Joining
<1>9. /\ next \in [Nodes -> Nodes \cup {NULL}]
      /\ m \in Nodes /\ t \in Nodes /\ InList(t) \subseteq Nodes
  BY <1>2 DEF TypeOK, Nodes
<1> HIDE DEF m
<1>10. ListRightOf(t)'
  <2>1. InList(t)' = InList(t) \cup {m}
    <3>1. ASSUME NEW x \in Mutexes PROVE Listed(t, x)' <=> (Listed(t, x) \/ x = m)
      BY <1>1, <1>2, <1>3, <1>4 DEF Listed, Place, Off, m
    <3> QED
      BY <3>1, <1>2 DEF InList
  <2>2. Back(t)' = t
    BY <1>3 DEF Back, Place
  <2>3. Chain(t, InList(t) \cup {m}, next', prev', t)
    <3>1. Chain(t, InList(t) \cup {m}, [next EXCEPT ![t] = m], prev, t)
      BY <1>2, <1>5, <1>7, <1>9, ChainLink
    <3> QED
      BY <3>1, <1>4
  <2> QED
    BY <2>1, <2>2, <2>3, <1>3 DEF ListRightOf, Joining, Place, At
<1>11. Delisted'
  BY <1>4, <1>6, <1>9, Names DEF Delisted, Nodes
<1>12. \A u \in Threads \ {t} : CalmLinks(u)
  BY <1>4, <1>9, Names DEF CalmLinks, Nodes
<1> QED
  BY <1>2, <1>4, <1>10, <1>11, <1>12, OneList

\* DEQUEUE_MUTEX.
LEMMA UnlinkLists ==
    ASSUME CoreInv, NEW t \in Threads, Others(t), ListsRight, stray = {},
           Unlink(t), next[th[t].m] # NULL
    PROVE  ListsRight'
<1> DEFINE m == th[t].m
<1>1. th[t].at = "unlink"
  BY DEF Unlink, At
<1>2. /\ m \in Mutexes /\ t \notin dead /\ TypeOK /\ kind[m].robust /\ word[m].tid = t
      /\ t \notin InList(t) /\ InList(t) \subseteq Mutexes
      /\ \A x \in InList(t) : word[x].tid = t /\ owner[x] # NotRecoverable
  BY <1>1, LinkingIs
<1>3. /\ th' \in [Threads -> ThreadState] /\ OthersStay(t)
      /\ Place(t, "unlinked", th[t].m, th[t].old, th[t].new)
  BY <1>2, GotoIs DEF Unlink, Places, Giving
<1>4. /\ prev' = [prev EXCEPT ![next[m]] = prev[m]] /\ next' = [next EXCEPT ![prev[m]] = next[m]]
      /\ kind' = kind /\ word' = word /\ owner' = owner /\ dead' = dead
  BY DEF Unlink, fields
<1>6. ListRightOf(t) /\ Delisted
  BY <1>2 DEF ListsRight
<1>5. m \in InList(t)
  <2>1. owner[m] # NotRecoverable
    BY <1>2, <1>6 DEF Delisted
  <2> QED
    BY <2>1, <1>1, <1>2 DEF InList, Listed, Off
<1>7. Chain(t, InList(t), next, prev, t)
  BY <1>1, <1>6 DEF ListRightOf, Back
<1>8. next[m] \in InList(t) \cup {t} /\ prev[m] \in InList(t) \cup {t}
  BY <1>2, <1>5, <1>7, ChainFollow
<1>9. /\ next \in [Nodes -> Nodes \cup {NULL}] /\ prev \in [Nodes -> Nodes \cup {NULL}]
      /\ m \in Nodes /\ t \in Nodes /\ InList(t) \subseteq Nodes
  BY <1>2 DEF TypeOK, Nodes
<1> HIDE DEF m
<1>10. ListRightOf(t)'
  <2>1. InList(t)' = InList(t) \ {m}
    <3>1. ASSUME NEW x \in Mutexes PROVE Listed(t, x)' <=> (Listed(t, x) /\ x # m)
      BY <1>1, <1>3, <1>4 DEF Listed, Place, Off, m
    <3> QED
      BY <3>1 DEF InList
  <2>2. Back(t)' = t
    BY <1>3 DEF Back, Place
  <2>3. Chain(t, InList(t) \ {m}, next', prev', t)
    <3>1. Chain(t, InList(t) \ {m}, [next EXCEPT ![prev[m]] = next[m]],
                [prev EXCEPT ![next[m]] = prev[m]], t)
      BY <1>2, <1>5, <1>7, <1>9, ChainUnlink
    <3> QED
      BY <3>1, <1>4
  <2> QED
    BY <2>1, <2>2, <2>3, <1>3 DEF ListRightOf, Joining, Place, At
<1>11. Delisted'
  BY <1>2, <1>4, <1>6, <1>8, <1>9, Names DEF Delisted, Nodes
<1>12. \A u \in Threads \ {t} : CalmLinks(u)
  BY <1>2, <1>4, <1>8, <1>9, Names DEF CalmLinks, Nodes
<1> QED
  BY <1>2, <1>4, <1>10, <1>11, <1>12, OneList

\* The mutex is in no list any more.
LEMMA ClearLinksLists ==
    ASSUME CoreInv, NEW t \in Threads, Others(t), ListsRight, stray = {}, ClearLinks(t)
    PROVE  ListsRight'
<1> DEFINE m == th[t].m
<1>1. th[t].at = "unlinked"
  BY DEF ClearLinks, At
<1>2. /\ m \in Mutexes /\ t \notin dead /\ TypeOK /\ word[m].tid = t
      /\ t \notin InList(t) /\ InList(t) \subseteq Mutexes
  BY <1>1, LinkingIs
<1>3. /\ th' \in [Threads -> ThreadState] /\ OthersStay(t)
      /\ Place(t, "disown", th[t].m, th[t].old, th[t].new)
  BY <1>2, GotoIs DEF ClearLinks, Places, Giving
<1>4. /\ next' = [next EXCEPT ![m] = NULL] /\ prev' = [prev EXCEPT ![m] = NULL]
      /\ kind' = kind /\ word' = word /\ owner' = owner /\ dead' = dead
  BY DEF ClearLinks, fields
<1>5. m \notin InList(t) /\ m # t
  BY <1>1, <1>2, Names DEF InList, Listed, Off
<1>6. ListRightOf(t) /\ Delisted
  BY <1>2 DEF ListsRight
<1>7. Chain(t, InList(t), next, prev, t)
  BY <1>1, <1>6 DEF ListRightOf, Back
<1>9. next \in [Nodes -> Nodes \cup {NULL}] /\ prev \in [Nodes -> Nodes \cup {NULL}] /\ m \in Nodes
  BY <1>2 DEF TypeOK, Nodes
<1> HIDE DEF m
<1>10. ListRightOf(t)'
  <2>1. InList(t)' = InList(t)
    <3>1. ASSUME NEW x \in Mutexes PROVE Listed(t, x)' <=> Listed(t, x)
      BY <1>1, <1>3, <1>4 DEF Listed, Place, Off
    <3> QED
      BY <3>1 DEF InList
  <2>2. Back(t)' = t
    BY <1>3 DEF Back, Place
  <2>3. Chain(t, InList(t), next', prev', t)
    <3>1. \A x \in InList(t) \cup {t} : next'[x] = next[x] /\ prev'[x] = prev[x]
      BY <1>4, <1>5, <1>9
    <3> QED
      BY <3>1, <1>7, ChainFrame
  <2>4. next'[m] = NULL
    BY <1>4, <1>9
  <2> QED
    BY <2>1, <2>2, <2>3, <2>4, <1>3 DEF ListRightOf, Joining, Place, At, m
<1>11. Delisted'
  BY <1>4, <1>6, <1>9 DEF Delisted, Nodes
<1>12. \A u \in Threads \ {t} : CalmLinks(u)
  BY <1>2, <1>4, <1>9, Names DEF CalmLinks, Nodes
<1> QED
  BY <1>2, <1>4, <1>10, <1>11, <1>12, OneList

\* The kernel finds every mutex of the thread that dies: those of its list, and
\* the one that is on the way into it or out of it.
LEMMA DieLists ==
    ASSUME CoreInv, NEW t \in Threads, Die(t), ListsRight, stray = {}
    PROVE  ListsRight'
<1>1. /\ t \notin dead /\ dead' = dead \cup {t} /\ word' \in [Mutexes -> Word]
      /\ \A x \in Mutexes :
           /\ x \notin Marked(t) => word'[x] = word[x]
           /\ x \in Marked(t) => word[x].tid = t /\ word'[x].tid = Nobody /\ word'[x].died
      /\ kind' = kind /\ owner' = owner /\ next' = next /\ prev' = prev
  BY DieIs
<1>2. Others(t) /\ TypeOK
  BY DieCore DEF CoreInv
<1>3. ASSUME NEW u \in Threads \ dead' PROVE ListRightOf(u)'
  <2>1. u \in Threads \ dead /\ Calm(u) /\ ListRightOf(u)
    BY <1>1, <1>2 DEF Others, ListsRight
  <2>2. CalmLinks(u)
    BY <1>1 DEF CalmLinks
  <2> QED
    BY <2>1, <2>2, CalmList
<1>4. Delisted'
  BY <1>1 DEF ListsRight, Delisted
<1>5. ASSUME NEW x \in Mutexes, kind[x].robust, word[x].tid = t, owner[x] # NotRecoverable
      PROVE  x \in Marked(t)
  <2>1. ListRightOf(t)
    BY <1>1 DEF ListsRight
  <2>2. Walk(t) = InList(t)
    <3>1. InList(t) \subseteq Mutexes /\ t \notin Mutexes
      BY Names DEF InList
    <3> QED
      BY <2>1, <3>1, WalkFinds DEF ListRightOf
  <2>3. CASE x \in InList(t)
    BY <2>2, <2>3, <1>5, Names DEF Marked
  <2>4. CASE x \notin InList(t)
    <3>1. th[t].m = x /\ th[t].at \in Off
      BY <2>4, <1>5 DEF InList, Listed
    <3>2. InCall(t) /\ th[t].at \notin {"prelease", "ptpp"}
      BY <3>1 DEF InCall, Off
    <3>3. pending[t] = x
      BY <3>1, <3>2, <1>5, InCallIs DEF PendingRight
    <3> QED
      BY <3>3, <1>5, Names DEF Marked
  <2> QED
    BY <2>3, <2>4
<1>6. NoDeadId'
  <2> SUFFICES ASSUME NEW x \in Mutexes, kind[x].robust, word'[x].tid \in dead \cup {t}
               PROVE  owner[x] = NotRecoverable
    BY <1>1 DEF NoDeadId
  <2>1. x \notin Marked(t)
    BY <1>1, <1>2, Names DEF TypeOK
  <2>2. word'[x] = word[x]
    BY <2>1, <1>1
  <2>3. CASE word[x].tid = t
    BY <2>1, <2>3, <1>5
  <2>4. CASE word[x].tid \in dead
    BY <2>4 DEF ListsRight, NoDeadId
  <2> QED
    BY <2>2, <2>3, <2>4
<1> QED
  BY <1>3, <1>4, <1>6 DEF ListsRight

\* Every step leaves the lists right.
LEMMA NextLists == ASSUME Inv, [Next]_vars, ~misled', stray' = {} PROVE ListsRight'
<1>1. CoreInv /\ (stray = {} => ListsRight)
  BY DEF Inv
<1>2. ASSUME UNCHANGED coreView PROVE ListsRight'
  <2>1. ListsRight /\ stray = {}
    BY <1>1, <1>2 DEF coreView
  <2>2. ListsRight' <=> ListsRight
    BY <1>2 DEF coreView, ListsRight, NoDeadId, Delisted, ListRightOf, InList, Listed, Back,
       Joining, At
  <2> QED
    BY <2>1, <2>2
<1>3. ASSUME NEW t \in Threads, Others(t), Quiet(t) PROVE ListsRight'
  <2>1. ListsRight
    BY <1>1, <1>3 DEF Quiet
  <2> QED
    BY <2>1, <1>1, <1>3, QuietLists
<1>4. ASSUME NEW t \in Threads, Others(t), ListStep(t) PROVE ListsRight'
  <2>1. stray' = stray
    BY <1>4 DEF ListStep, Enqueue, Prepare, Link, Unlink, ClearLinks, Die, ghosts
  <2>2. ListsRight /\ stray = {}
    BY <2>1, <1>1
  <2>3. CASE Enqueue(t)
    BY <2>2, <2>3, <1>1, <1>4, PrepareLists, LinkLists DEF Enqueue
  <2>4. CASE Unlink(t) /\ next[th[t].m] # NULL
    BY <2>2, <2>4, <1>1, <1>4, UnlinkLists
  <2>5. CASE ClearLinks(t)
    BY <2>2, <2>5, <1>1, <1>4, ClearLinksLists
  <2>6. CASE Die(t)
    BY <2>2, <2>6, <1>1, DieLists
  <2> QED
    BY <1>4, <2>3, <2>4, <2>5, <2>6 DEF ListStep
<1>5. CASE UNCHANGED vars
  BY <1>2, <1>5 DEF vars, fields, links, ghosts, coreView
<1>6. CASE Next
  <2>1. PICK t \in Threads : Step(t) \/ Die(t) \/ \E m \in Mutexes : Call(t, m)
    BY <1>6, NoError
  <2>2. Passes(t)
    BY <2>1, <1>1, StepCore
  <2> QED
    BY <2>2, <1>2, <1>3, <1>4 DEF Passes
<1> QED
  BY <1>5, <1>6

\* The start.
LEMMA InitCore == Init => CoreInv
<1> SUFFICES ASSUME Init PROVE CoreInv
  OBVIOUS
<1>1. TypeOK
  <2>1. AtUser \in ThreadState
    BY FreeIs DEF AtUser, ThreadState, Places
  <2>2. kind \in [Mutexes -> AllKinds]
    BY KindsAssumption DEF Init
  <2>3. word \in [Mutexes -> Word] /\ th \in [Threads -> ThreadState]
    BY <2>1, FreeIs DEF Init
  <2>4. count \in [Mutexes -> 0 .. CountMod - 1]
    BY BoundsAssumption DEF Init
  <2>5. next \in [Nodes -> Nodes \cup {NULL}] /\ prev \in [Nodes -> Nodes \cup {NULL}]
    BY DEF Init, Nodes
  <2>6. /\ owner \in [Mutexes -> Threads \cup {Nobody, Inconsistent, NotRecoverable}]
        /\ pending \in [Threads -> Mutexes \cup {NULL}]
        /\ depth \in [Threads -> [Mutexes -> Nat]]
        /\ lost \subseteq Mutexes /\ stray \subseteq Mutexes /\ dead \subseteq Threads
    BY DEF Init
  <2> QED
    BY <2>2, <2>3, <2>4, <2>5, <2>6 DEF TypeOK
<1>2. ASSUME NEW t \in Threads PROVE ThreadRight(t)
  <2>1. th[t].at = "user" /\ dead = {}
    BY DEF Init, AtUser
  <2>2. PlaceRight(t) /\ HoldRight(t) /\ PendingRight(t) /\ DeadRight(t)
    BY <2>1 DEF PlaceRight, HoldRight, Between, PendingRight, DeadRight, InCall, At,
                Getting, Giving, DeadGetting, LockOnly
  <2>3. ASSUME NEW m \in Mutexes
        PROVE  TellRight(t, m) /\ OwnerRight(t, m) /\ CountRight(t, m)
    <3>1. depth[t][m] = 0 /\ owner[m] = Nobody /\ word[m].tid = Nobody
      BY FreeIs DEF Init
    <3> QED
      BY <3>1, <2>1, Names DEF TellRight, OwnerRight, CountRight
  <2> QED
    BY <2>2, <2>3 DEF ThreadRight
<1>3. DiedFree /\ LostRight
  BY FreeIs DEF Init, DiedFree, LostRight
<1> QED
  BY <1>1, <1>2, <1>3 DEF CoreInv

\* At the start the lists are empty.
LEMMA InitLists == Init => ListsRight
<1> SUFFICES ASSUME Init PROVE ListsRight
  OBVIOUS
<1>1. NoDeadId /\ Delisted
  BY Names DEF Init, NoDeadId, Delisted
<1>2. ASSUME NEW t \in Threads PROVE ListRightOf(t)
  <2>1. th[t].at = "user"
    BY DEF Init, AtUser
  <2>2. InList(t) = {} /\ Back(t) = t
    BY <2>1, FreeIs, Names DEF Init, InList, Listed, Back
  <2>3. next[t] = t /\ prev[t] = t
    BY DEF Init
  <2>4. Chain(t, {}, next, prev, t)
    <3> DEFINE f == [i \in 0 .. 1 |-> t]
    <3>1. f[0] = t /\ f[1] = t /\ f \in [0 .. 0 + 1 -> {} \cup {t}]
      OBVIOUS
    <3> HIDE DEF f
    <3>2. Order(t, {}, 0, f) /\ Linked(next, prev, t, 0, f)
      BY <2>3, <3>1 DEF Order, Linked
    <3> QED
      BY <3>2, ChainMade
  <2> QED
    BY <2>1, <2>2, <2>4 DEF ListRightOf, Joining, At
<1> QED
  BY <1>1, <1>2 DEF ListsRight

\* What the words, the owners and the counts say of who holds what.
THEOREM CoreInvariance == Spec => [](~misled => CoreInv)
<1>1. Init => (~misled => CoreInv)
  BY InitCore
<1>2. (~misled => CoreInv) /\ [Next]_vars => (~misled => CoreInv)'
  BY NextCore, MisledStays
<1> QED
  BY <1>1, <1>2, PTL DEF Spec

\* No two threads hold one mutex, whoever died before: a thread that was told it
\* holds a mutex and has not unlocked it has its id in the lock word, until an
\* error of the kernel is taken for the lock.
THEOREM HoldersExcludeHolds == Spec => []HoldersExclude
<1>1. (~misled => CoreInv) => HoldersExclude
  BY DEF CoreInv, ThreadRight, TellRight, HoldersExclude
<1> QED
  BY <1>1, CoreInvariance, PTL

\* Nobody gets a mutex whose holder died before some thread was told so by
\* EOWNERDEAD.
THEOREM LossToldHolds == Spec => []LossTold
<1>1. (~misled => CoreInv) => LossTold
  <2> SUFFICES ASSUME CoreInv, NEW x \in lost, NEW t \in Threads, depth[t][x] # 0 PROVE FALSE
    BY DEF LossTold
  <2>1. x \in Mutexes /\ depth[t][x] \in Nat /\ dead \subseteq Threads
    BY DEF CoreInv, TypeOK
  <2>2. word[x].tid = t /\ t \notin dead
    BY <2>1 DEF CoreInv, ThreadRight, TellRight
  <2>3. \E v \in Threads : word[x].tid = v /\ th[v].m = x /\ th[v].at \in DeadGetting
    BY <2>2, Names DEF CoreInv, LostRight
  <2>4. th[t].m = x /\ th[t].at \in DeadGetting
    BY <2>2, <2>3
  <2>5. depth[t][x] = 0
    BY <2>4 DEF CoreInv, ThreadRight, HoldRight, Between, Getting
  <2> QED
    BY <2>5
<1> QED
  BY <1>1, CoreInvariance, PTL

\* The words as above, and the lists as long as no mutex is stray.
THEOREM InvInvariance == Spec => [](~misled => Inv)
<1>1. Init => (~misled => Inv)
  BY InitCore, InitLists DEF Inv
<1>2. (~misled => Inv) /\ [Next]_vars => (~misled => Inv)'
  <2> SUFFICES ASSUME Inv, [Next]_vars, ~misled' PROVE Inv'
    BY MisledStays
  <2>1. CoreInv'
    BY NextCore DEF Inv
  <2>2. stray' = {} => ListsRight'
    BY NextLists
  <2> QED
    BY <2>1, <2>2 DEF Inv
<1> QED
  BY <1>1, <1>2, PTL DEF Spec

\* Wherever a thread dies, on the way into a robust mutex or out of it, the word
\* is left to the others.
THEOREM NoOrphanHolds == Spec => []NoOrphan
<1>1. (~misled => Inv) => NoOrphan
  BY DEF Inv, ListsRight, NoDeadId, NoOrphan
<1> QED
  BY <1>1, InvInvariance, PTL

\* Between calls the list of a thread, forwards and backwards, is made of the
\* robust mutexes that hold its id.
THEOREM ListRightHolds == Spec => []ListRight
<1>1. (~misled => Inv) => ListRight
  <2> SUFFICES ASSUME Inv, stray = {}, NEW t \in Threads, At(t, "user")
               PROVE  /\ Walk(t) = {m \in Mutexes : /\ kind[m].robust /\ word[m].tid = t
                                                    /\ owner[m] # NotRecoverable}
                      /\ \A x \in Walk(t) \cup {t} : prev[next[x]] = x
    BY DEF ListRight
  <2>1. t \notin dead
    BY DEF Inv, CoreInv, ThreadRight, PlaceRight, At
  <2>2. Chain(t, InList(t), next, prev, t)
    BY <2>1 DEF Inv, ListsRight, ListRightOf, Back, At
  <2>3. InList(t) = {m \in Mutexes : /\ kind[m].robust /\ word[m].tid = t
                                     /\ owner[m] # NotRecoverable}
    BY DEF InList, Listed, Off, At
  <2>4. t \notin InList(t) /\ InList(t) \subseteq Mutexes /\ t \notin Mutexes
    BY Names DEF InList
  <2>5. Walk(t) = InList(t)
    BY <2>2, <2>4, WalkFinds
  <2>6. \A x \in InList(t) \cup {t} : prev[next[x]] = x
    BY <2>2, <2>4, ChainFollow
  <2> QED
    BY <2>3, <2>5, <2>6
<1> QED
  BY <1>1, InvInvariance, PTL
=============================================================================
