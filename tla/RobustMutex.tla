----------------------------- MODULE RobustMutex ----------------------------
(***************************************************************************)
(* Mutexes whose lock word holds the id of their owner: robust ones, which *)
(* survive the death of the owner, and priority inheriting ones, whose     *)
(* waiting the kernel does.  The robust and PI cases of mutex_trylock.c,   *)
(* mutex_lock.c and mutex_unlock.c, the list of robust mutexes of a thread *)
(* (descr.h), and what the kernel does with both (external).               *)
(*                                                                         *)
(* Each access to a lock word is an action, and so is each write to what   *)
(* the kernel reads when a thread dies: a thread may die at any of them.   *)
(* A robust mutex has the PSHARED bit (mutex_init.c), on which lock and    *)
(* cond_lock answer EINVAL: only trylock takes it, nobody ever waits for   *)
(* its word, and the FUTEX_WAITERS bit stays clear.  The ids of threads    *)
(* are below 2^19: the compiled unlock of PI mutexes takes the bits from   *)
(* there on for a priority (ReleasePI).                                    *)
(***************************************************************************)
EXTENDS Naturals, FiniteSets

CONSTANTS
    Threads, Mutexes,
    Kinds,              \* the kinds a mutex may be initialised with
    CountMod,           \* 2^32 in the code: width of __count
    MaxCalls,           \* bound: calls of all threads together
    MaxDeaths,          \* bound: threads that die
    Nobody, NULL

Types == {"normal", "errorcheck", "recursive"}
AllKinds == [robust : BOOLEAN, pi : BOOLEAN, type : Types] \ [robust : {FALSE}, pi : {FALSE}, type : Types]

\* The cookies of __owner, which are the id of no thread.
Inconsistent == "PTHREAD_MUTEX_INCONSISTENT"
NotRecoverable == "PTHREAD_MUTEX_NOTRECOVERABLE"

ASSUME KindsAssumption == Kinds \subseteq AllKinds /\ Kinds # {}
ASSUME NamesAssumption == /\ {Nobody, NULL, Inconsistent, NotRecoverable} \cap Threads = {}
                          /\ Nobody \notin {Inconsistent, NotRecoverable}
                          /\ NULL \notin Mutexes /\ Threads \cap Mutexes = {}
ASSUME MutexesAssumption == IsFiniteSet(Mutexes)
ASSUME BoundsAssumption == CountMod \in Nat \ {0, 1} /\ MaxCalls \in Nat /\ MaxDeaths \in Nat

VARIABLES
    kind,       \* __kind of each mutex
    word,       \* __lock: owner's id, FUTEX_OWNER_DIED, FUTEX_WAITERS
    owner,      \* __owner: an id, or one of the two magic cookies
    count, nusers,
    next, prev, \* __list of the mutexes; robust_head.list and robust_prev of the threads
    pending,    \* robust_head.list_op_pending of each thread
    th,         \* where each thread is, the mutex of its call, oldval, newowner
    depth,      \* how often each thread was told it holds a mutex, and has not unlocked it
    lost,       \* mutexes whose holder died, and nobody was told yet
    stray,      \* robust PI mutexes given back, but not taken off the list
    misled,     \* an error of the kernel was taken for the lock
    calls, dead, ended

fields == <<word, owner, count, nusers>>
links == <<next, prev>>
ghosts == <<depth, lost, stray>>
vars == <<kind, fields, links, pending, th, ghosts, calls, dead, ended, misled>>

Free == [tid |-> Nobody, died |-> FALSE, waiters |-> FALSE]
AtUser == [at |-> "user", m |-> NULL, old |-> Free, new |-> Nobody]

Init ==
    /\ kind \in [Mutexes -> Kinds]
    /\ word = [m \in Mutexes |-> Free]
    /\ owner = [m \in Mutexes |-> Nobody]
    /\ count = [m \in Mutexes |-> 0]
    /\ nusers = [m \in Mutexes |-> 0]
    /\ next = [x \in Mutexes \cup Threads |-> IF x \in Threads THEN x ELSE NULL]
    /\ prev = [x \in Mutexes \cup Threads |-> IF x \in Threads THEN x ELSE NULL]
    /\ pending = [t \in Threads |-> NULL]
    /\ th = [t \in Threads |-> AtUser]
    /\ depth = [t \in Threads |-> [m \in Mutexes |-> 0]]
    /\ lost = {}
    /\ stray = {}
    /\ calls = 0
    /\ dead = {}
    /\ ended = FALSE
    /\ misled = FALSE

-----------------------------------------------------------------------------
At(t, label) == th[t].at = label
Goto(t, label) == th' = [th EXCEPT ![t].at = label]
Return(t) == th' = [th EXCEPT ![t] = AtUser]

\* A thread calls: the mutex is remembered and the call counted.
Enter(t, m, label) ==
    /\ At(t, "user") /\ calls < MaxCalls
    /\ calls' = calls + 1
    /\ th' = [th EXCEPT ![t] = [AtUser EXCEPT !.at = label, !.m = m]]

\* The thread is told that it holds the mutex once more.
Told(t, m) == depth' = [depth EXCEPT ![t][m] = @ + 1]

\* An assertion fails, or an invalid pointer is followed.
End == ended' = TRUE

-----------------------------------------------------------------------------
(***************************************************************************)
(* trylock.  Where a thread is:                                            *)
(*   read      before the first read of the lock word                      *)
(*   again     oldval says the owner died: before the exchange by own id   *)
(*   cas       before the exchange of 0                                    *)
(*   look      has the word: before the test for an unrecoverable mutex    *)
(*   kernel    PI: before FUTEX_TRYLOCK_PI                                 *)
(*   clear     PI: before OWNER_DIED is cleared                            *)
(*   dead_own  has the word of a dead owner: before __owner is written     *)
(*   link, dead_link      before robust_head.list is written               *)
(*   record, dead_record  before list_op_pending is cleared, at the end    *)
(***************************************************************************)
Trylock(t, m) ==
    /\ Enter(t, m, "read")
    /\ pending' = IF kind[m].robust THEN [pending EXCEPT ![t] = m] ELSE pending
    /\ UNCHANGED <<kind, fields, links, ghosts, dead, ended>>

\* What a thread does next, having seen the value old of the word.
After(t, m, old) ==
    IF old.died /\ ~kind[m].pi THEN "again"
    ELSE IF old.tid = t /\ kind[m].type # "normal" THEN "mine" ELSE "cas"

See(t, old) == th' = [th EXCEPT ![t].at = After(t, th[t].m, old), ![t].old = old]

TryRead(t) ==
    /\ At(t, "read")
    /\ See(t, word[th[t].m])
    /\ UNCHANGED <<kind, fields, links, pending, ghosts, calls, dead, ended>>

\* The mutex is already held: EDEADLK, EAGAIN or one more level.
Mine(t) ==
    LET m == th[t].m
    IN /\ At(t, "mine")
       /\ pending' = [pending EXCEPT ![t] = NULL]
       /\ IF kind[m].type = "recursive" /\ (count[m] + 1) % CountMod # 0
            THEN count' = [count EXCEPT ![m] = @ + 1] /\ Told(t, m)
            ELSE UNCHANGED <<count, depth>>
       /\ Return(t)
       /\ UNCHANGED <<kind, word, owner, nusers, links, lost, stray, calls, dead, ended>>

\* MUTANT of TakeOver: a store instead of the exchange.
TakeOver_Stored(t) ==
    /\ At(t, "again")
    /\ word' = [word EXCEPT ![th[t].m] = [Free EXCEPT !.tid = t]]
    /\ Goto(t, "dead_own")
    /\ UNCHANGED <<kind, owner, count, nusers, links, pending, ghosts, calls, dead, ended>>

\* The previous owner died: try to take its place.
TakeOver(t) ==
    LET m == th[t].m
    IN /\ At(t, "again")
       /\ IF word[m] = th[t].old
            THEN /\ word' = [word EXCEPT ![m].tid = t, ![m].died = FALSE]
                 /\ Goto(t, "dead_own")
            ELSE See(t, word[m]) /\ UNCHANGED word
       /\ UNCHANGED <<kind, owner, count, nusers, links, pending, ghosts, calls, dead, ended>>

\* MUTANT of TryCas: the exchange also replaces the word of a dead owner.
TryCas_Steals(t) ==
    LET m == th[t].m
    IN /\ At(t, "cas")
       /\ th' = [th EXCEPT ![t].old = word[m],
                           ![t].at = IF word[m].tid = Nobody THEN "look" ELSE "busy"]
       /\ word' = IF word[m].tid = Nobody THEN [word EXCEPT ![m] = [Free EXCEPT !.tid = t]] ELSE word
       /\ UNCHANGED <<kind, owner, count, nusers, links, pending, ghosts, calls, dead, ended>>

\* The exchange of 0 by the own id.  A failure is EBUSY unless the owner died.
TryCas(t) ==
    LET m == th[t].m
    IN /\ At(t, "cas")
       /\ th' = [th EXCEPT ![t].old = word[m],
                           ![t].at = IF word[m] = Free THEN "look"
                                     ELSE IF ~word[m].died THEN "busy"
                                     ELSE IF kind[m].pi THEN "kernel" ELSE "look"]
       /\ word' = IF word[m] = Free THEN [word EXCEPT ![m].tid = t] ELSE word
       /\ UNCHANGED <<kind, owner, count, nusers, links, pending, ghosts, calls, dead, ended>>

Busy(t) ==
    /\ At(t, "busy")
    /\ pending' = [pending EXCEPT ![t] = NULL]
    /\ Return(t)
    /\ UNCHANGED <<kind, fields, links, ghosts, calls, dead, ended>>

\* PI: assert (robust), then FUTEX_TRYLOCK_PI, which takes a word without id
\* and keeps the other bits; EWOULDBLOCK is EBUSY.  Then oldval is read again.
TryKernel(t) ==
    LET m == th[t].m
    IN /\ At(t, "kernel")
       /\ \/ ~kind[m].robust /\ End /\ UNCHANGED <<word, th>>
          \/ /\ kind[m].robust /\ word[m].tid = Nobody
             /\ word' = [word EXCEPT ![m].tid = t]
             /\ th' = [th EXCEPT ![t].at = IF word[m].died THEN "clear" ELSE "look",
                                 ![t].old = [word[m] EXCEPT !.tid = t]]
             /\ UNCHANGED ended
          \/ /\ kind[m].robust /\ word[m].tid # Nobody
             /\ Goto(t, "busy")
             /\ UNCHANGED <<word, ended>>
       /\ UNCHANGED <<kind, owner, count, nusers, links, pending, ghosts, calls, dead>>

\* Any error but EWOULDBLOCK (ENOMEM; EINVAL) is taken for the lock: the word,
\* read again, holds the id of another thread or of none.
TryKernelFails(t) ==
    LET m == th[t].m
    IN /\ At(t, "kernel") /\ kind[m].robust
       /\ misled' = TRUE
       /\ th' = [th EXCEPT ![t].at = IF word[m].died THEN "clear" ELSE "look",
                           ![t].old = word[m]]
       /\ UNCHANGED <<kind, fields, links, pending, ghosts, calls, dead, ended>>

ClearDied(t) ==
    /\ At(t, "clear")
    /\ word' = [word EXCEPT ![th[t].m].died = FALSE]
    /\ Goto(t, "dead_own")
    /\ UNCHANGED <<kind, owner, count, nusers, links, pending, ghosts, calls, dead, ended>>

\* The end of the loop.  On an unrecoverable mutex the word would be given back
\* if oldval were the id; but oldval is what the exchange found, 0 or a dead
\* owner's word, and a word that was free stays taken.
Look(t) ==
    LET m == th[t].m
    IN /\ At(t, "look")
       /\ IF owner[m] = NotRecoverable
            THEN count' = [count EXCEPT ![m] = 0] /\ Goto(t, "busy")
            ELSE /\ Goto(t, IF th[t].old.died THEN "again"
                            ELSE IF kind[m].robust THEN "prepare" ELSE "record")
                 /\ UNCHANGED count
       /\ UNCHANGED <<kind, word, owner, nusers, links, pending, ghosts, calls, dead, ended>>

\* We got the mutex, but it is inconsistent.
DeadOwner(t) ==
    LET m == th[t].m
    IN /\ At(t, "dead_own")
       /\ count' = [count EXCEPT ![m] = 1]
       /\ owner' = [owner EXCEPT ![m] = Inconsistent]
       /\ Goto(t, "dead_prepare")
       /\ UNCHANGED <<kind, word, nusers, links, pending, ghosts, calls, dead, ended>>

-----------------------------------------------------------------------------
(***************************************************************************)
(* ENQUEUE_MUTEX: the links only the thread follows, then the one that the *)
(* kernel follows.                                                         *)
(***************************************************************************)
\* MUTANT of Prepare: the first mutex of the list keeps its old prev.
Prepare_OneWay(t, from, to) ==
    /\ At(t, from)
    /\ prev' = [prev EXCEPT ![th[t].m] = t]
    /\ next' = [next EXCEPT ![th[t].m] = next[t]]
    /\ Goto(t, to)
    /\ UNCHANGED <<kind, fields, pending, ghosts, calls, dead, ended>>

Prepare(t, from, to) ==
    LET m == th[t].m
        first == next[t]
    IN /\ At(t, from)
       /\ prev' = [prev EXCEPT ![first] = m, ![m] = t]
       /\ next' = [next EXCEPT ![m] = first]
       /\ Goto(t, to)
       /\ UNCHANGED <<kind, fields, pending, ghosts, calls, dead, ended>>

Link(t, from, to) ==
    /\ At(t, from)
    /\ next' = [next EXCEPT ![t] = th[t].m]
    /\ Goto(t, to)
    /\ UNCHANGED <<kind, fields, prev, pending, ghosts, calls, dead, ended>>

Enqueue(t) == \/ Prepare(t, "prepare", "link") \/ Prepare(t, "dead_prepare", "dead_link")
              \/ Link(t, "link", "record") \/ Link(t, "dead_link", "dead_record")

\* EOWNERDEAD: the users are those the dead owner left.
ReturnOwnerDead(t) ==
    /\ At(t, "dead_record")
    /\ pending' = [pending EXCEPT ![t] = NULL]
    /\ Told(t, th[t].m)
    /\ lost' = lost \ {th[t].m}
    /\ Return(t)
    /\ UNCHANGED <<kind, fields, links, stray, calls, dead, ended>>

\* list_op_pending is cleared, then the ownership recorded.
Record(t) ==
    LET m == th[t].m
    IN /\ At(t, "record")
       /\ pending' = [pending EXCEPT ![t] = NULL]
       /\ owner' = [owner EXCEPT ![m] = t]
       /\ nusers' = [nusers EXCEPT ![m] = @ + 1]
       /\ count' = [count EXCEPT ![m] = 1]
       /\ Told(t, m)
       /\ Return(t)
       /\ UNCHANGED <<kind, word, links, lost, stray, calls, dead, ended>>

-----------------------------------------------------------------------------
(***************************************************************************)
(* lock of a PI mutex that is not robust.  A robust one is EINVAL.         *)
(*   pread, pcas  before the read and the exchange of the lock word        *)
(*   pcall        before FUTEX_LOCK_PI                                     *)
(*   pblock       waits in the kernel                                      *)
(*   pcheck       has the word from the kernel: before the assertion       *)
(*   hung         in the endless loop after ESRCH or EDEADLK               *)
(***************************************************************************)
Lock(t, m) ==
    /\ kind[m].pi /\ ~kind[m].robust
    /\ Enter(t, m, "pread")
    /\ UNCHANGED <<kind, fields, links, pending, ghosts, dead, ended>>

LockInvalid(t, m) ==
    /\ kind[m].robust
    /\ At(t, "user") /\ calls < MaxCalls
    /\ calls' = calls + 1
    /\ UNCHANGED <<kind, fields, links, pending, th, ghosts, dead, ended>>

LockRead(t) ==
    LET m == th[t].m
    IN /\ At(t, "pread")
       /\ Goto(t, IF word[m].tid = t /\ kind[m].type # "normal" THEN "mine" ELSE "pcas")
       /\ UNCHANGED <<kind, fields, links, pending, ghosts, calls, dead, ended>>

LockCas(t) ==
    LET m == th[t].m
    IN /\ At(t, "pcas")
       /\ word' = IF word[m] = Free THEN [word EXCEPT ![m].tid = t] ELSE word
       /\ Goto(t, IF word[m] = Free THEN "record" ELSE "pcall")
       /\ UNCHANGED <<kind, owner, count, nusers, links, pending, ghosts, calls, dead, ended>>

Blocked(m) == {u \in Threads : At(u, "pblock") /\ th[u].m = m}

\* FUTEX_LOCK_PI (external): takes a word without id; EDEADLK for the own id,
\* ESRCH for that of a dead thread without a waiter to pass the lock to, and
\* then the code never returns; otherwise the thread waits.
LockKernel(t) ==
    LET m == th[t].m
        id == word[m].tid
    IN /\ At(t, "pcall")
       /\ \/ /\ id = Nobody
             /\ word' = [word EXCEPT ![m].tid = t]
             /\ Goto(t, "pcheck")
          \/ /\ id = t \/ (id \in dead /\ Blocked(m) = {})
             /\ Goto(t, "hung")
             /\ UNCHANGED word
          \/ /\ id # t /\ id # Nobody /\ ~(id \in dead /\ Blocked(m) = {})
             /\ word' = [word EXCEPT ![m].waiters = TRUE]
             /\ Goto(t, "pblock")
       /\ UNCHANGED <<kind, owner, count, nusers, links, pending, ghosts, calls, dead, ended>>

\* Any error but ESRCH and EDEADLK is taken for the lock: ENOMEM at any time, and
\* EINVAL where a waiter of the last owner is still queued and the word does not
\* name that owner any more.  (Kernels before 2014 give a word without id to the
\* caller in this case too.)
LockKernelFails(t) ==
    /\ At(t, "pcall")
    /\ misled' = TRUE
    /\ Goto(t, "pcheck")
    /\ UNCHANGED <<kind, fields, links, pending, ghosts, calls, dead, ended>>

\* The kernel passes the lock of a dead thread to a waiter (external).
HandOff(t) ==
    LET m == th[t].m
    IN /\ At(t, "pblock") /\ word[m].tid \in dead
       /\ word' = [word EXCEPT ![m] = [tid |-> t, died |-> TRUE, waiters |-> Blocked(m) # {t}]]
       /\ Goto(t, "pcheck")
       /\ UNCHANGED <<kind, owner, count, nusers, links, pending, ghosts, calls, dead, ended>>

\* assert (robust || (oldval & FUTEX_OWNER_DIED) == 0).
LockCheck(t) ==
    /\ At(t, "pcheck")
    /\ IF word[th[t].m].died THEN End /\ UNCHANGED th
                             ELSE Goto(t, "record") /\ UNCHANGED ended
    /\ UNCHANGED <<kind, fields, links, pending, ghosts, calls, dead>>

-----------------------------------------------------------------------------
(***************************************************************************)
(* unlock of a robust mutex that is not PI.                                *)
(*   unlink, unlinked  before and after the list that the kernel follows   *)
(*                     is changed                                          *)
(*   disown            before __owner is written, __nusers counted down    *)
(*   release, busy     before the lock word, list_op_pending are cleared   *)
(***************************************************************************)
IsOwner(t, m) == IF kind[m].type = "recursive" /\ owner[m] # Inconsistent
                   THEN owner[m] = t ELSE word[m].tid = t

\* The levels the caller holds before the unlock.
Levels(m) == IF kind[m].type = "recursive" THEN count[m] ELSE 1

\* EPERM.
UnlockRefused(t, m) ==
    /\ At(t, "user") /\ calls < MaxCalls
    /\ IF kind[m].pi THEN owner[m] # t ELSE ~IsOwner(t, m)
    /\ calls' = calls + 1
    /\ UNCHANGED <<kind, fields, links, pending, th, ghosts, dead, ended>>

Less(n) == IF n = 0 THEN 0 ELSE n - 1
Down(c) == (c + CountMod - 1) % CountMod
GiveUp(t, m) == depth' = [depth EXCEPT ![t][m] = Less(@)]

\* We still hold the mutex.
UnlockOnce(t, m) ==
    /\ ~kind[m].pi /\ IsOwner(t, m) /\ Levels(m) # 1
    /\ At(t, "user") /\ calls < MaxCalls
    /\ calls' = calls + 1
    /\ count' = [count EXCEPT ![m] = Down(@)]
    /\ GiveUp(t, m)
    /\ UNCHANGED <<kind, word, owner, nusers, links, pending, th, lost, stray, dead, ended>>

\* MUTANT of UnlockRobust: list_op_pending is not announced.
UnlockRobust_Unannounced(t, m) ==
    /\ ~kind[m].pi /\ IsOwner(t, m) /\ Levels(m) = 1
    /\ At(t, "user") /\ calls < MaxCalls
    /\ calls' = calls + 1
    /\ th' = [th EXCEPT ![t] = [AtUser EXCEPT !.at = "unlink", !.m = m,
                 !.new = IF owner[m] = Inconsistent THEN NotRecoverable ELSE Nobody]]
    /\ count' = IF kind[m].type = "recursive" THEN [count EXCEPT ![m] = Down(@)] ELSE count
    /\ GiveUp(t, m)
    /\ UNCHANGED <<kind, word, owner, nusers, links, pending, lost, stray, dead, ended>>

\* A mutex that is still inconsistent becomes unrecoverable.
UnlockRobust(t, m) ==
    /\ ~kind[m].pi /\ IsOwner(t, m) /\ Levels(m) = 1
    /\ At(t, "user") /\ calls < MaxCalls
    /\ calls' = calls + 1
    /\ th' = [th EXCEPT ![t] = [AtUser EXCEPT !.at = "unlink", !.m = m,
                 !.new = IF owner[m] = Inconsistent THEN NotRecoverable ELSE Nobody]]
    /\ pending' = [pending EXCEPT ![t] = m]
    /\ count' = IF kind[m].type = "recursive" THEN [count EXCEPT ![m] = Down(@)] ELSE count
    /\ GiveUp(t, m)
    /\ UNCHANGED <<kind, word, owner, nusers, links, lost, stray, dead, ended>>

\* DEQUEUE_MUTEX.  A mutex that is in no list has no links to follow.
Unlink(t) ==
    LET m == th[t].m
        after == next[m]
        before == prev[m]
    IN /\ At(t, "unlink")
       /\ IF after = NULL
            THEN End /\ UNCHANGED <<links, th>>
            ELSE /\ prev' = [prev EXCEPT ![after] = before]
                 /\ next' = [next EXCEPT ![before] = after]
                 /\ Goto(t, "unlinked")
                 /\ UNCHANGED ended
       /\ UNCHANGED <<kind, fields, pending, ghosts, calls, dead>>

ClearLinks(t) ==
    LET m == th[t].m
    IN /\ At(t, "unlinked")
       /\ next' = [next EXCEPT ![m] = NULL]
       /\ prev' = [prev EXCEPT ![m] = NULL]
       /\ Goto(t, "disown")
       /\ UNCHANGED <<kind, fields, pending, ghosts, calls, dead, ended>>

Disown(t) ==
    LET m == th[t].m
    IN /\ At(t, "disown")
       /\ owner' = [owner EXCEPT ![m] = th[t].new]
       /\ nusers' = [nusers EXCEPT ![m] = Down(@)]
       /\ Goto(t, "release")
       /\ UNCHANGED <<kind, word, count, links, pending, ghosts, calls, dead, ended>>

\* lll_robust_unlock.
Release(t) ==
    /\ At(t, "release")
    /\ word' = [word EXCEPT ![th[t].m] = Free]
    /\ Goto(t, "busy")
    /\ UNCHANGED <<kind, owner, count, nusers, links, pending, ghosts, calls, dead, ended>>

-----------------------------------------------------------------------------
(***************************************************************************)
(* unlock of a PI mutex.  Its own code is compiled out: control falls into *)
(* the case of recursive priority protected mutexes, after the owner check *)
(* and count down of PI_RECURSIVE, which then happen twice.                *)
(***************************************************************************)
Twice(m) == kind[m].type = "recursive" /\ ~kind[m].robust

\* The count after the unlock, the second count down included.
CountedDown(m) == IF Twice(m) /\ count[m] = 1 THEN Down(0) ELSE Down(count[m])

UnlockPI(t, m) ==
    /\ kind[m].pi /\ owner[m] = t
    /\ At(t, "user") /\ calls < MaxCalls
    /\ calls' = calls + 1
    /\ count' = [count EXCEPT ![m] = CountedDown(m)]
    /\ GiveUp(t, m)
    /\ IF CountedDown(m) # 0
         THEN UNCHANGED <<owner, nusers, th>>
         ELSE /\ owner' = [owner EXCEPT ![m] = Nobody]
              /\ nusers' = [nusers EXCEPT ![m] = Down(@)]
              /\ th' = [th EXCEPT ![t] = [AtUser EXCEPT !.at = "prelease", !.m = m]]
    /\ UNCHANGED <<kind, word, links, pending, lost, stray, dead, ended>>

\* The word keeps the bits of the ceiling (0xfff80000): the two flags, and those
\* of an id from 2^19 on, which this module leaves out.  The FUTEX_WAKE that may
\* follow reaches no waiter of FUTEX_LOCK_PI.
ReleasePI(t) ==
    /\ At(t, "prelease")
    /\ word' = [word EXCEPT ![th[t].m].tid = Nobody]
    /\ stray' = stray \cup {m \in {th[t].m} : kind[m].robust}
    /\ Goto(t, "ptpp")
    /\ UNCHANGED <<kind, owner, count, nusers, links, pending, depth, lost, calls, dead, ended>>

\* __pthread_tpp_change_priority (0, -1) fails its assertion on the old priority.
ChangePriority(t) ==
    /\ At(t, "ptpp")
    /\ End
    /\ UNCHANGED <<kind, fields, links, pending, th, ghosts, calls, dead>>

-----------------------------------------------------------------------------
\* The mutexes the kernel finds from robust_head.list of t.
Walk(t) ==
    LET node[i \in 0 .. Cardinality(Mutexes)] ==
            IF i = 0 THEN next[t] ELSE IF node[i - 1] \in Mutexes THEN next[node[i - 1]] ELSE t
    IN {node[i] : i \in DOMAIN node} \cap Mutexes

\* A thread dies; the kernel marks the robust mutexes whose words hold its id
\* (external).
Die(t) ==
    LET marked == {m \in Walk(t) \cup {pending[t]} : m # NULL /\ word[m].tid = t}
    IN /\ t \notin dead /\ Cardinality(dead) < MaxDeaths
       /\ dead' = dead \cup {t}
       /\ word' = [m \in Mutexes |-> IF m \in marked
                                       THEN [word[m] EXCEPT !.tid = Nobody, !.died = TRUE]
                                       ELSE word[m]]
       /\ lost' = lost \cup {m \in Mutexes : kind[m].robust /\ depth[t][m] > 0}
       /\ depth' = [depth EXCEPT ![t] = [m \in Mutexes |-> 0]]
       /\ pending' = [pending EXCEPT ![t] = NULL]
       /\ th' = [th EXCEPT ![t] = [AtUser EXCEPT !.at = "dead"]]
       /\ UNCHANGED <<kind, owner, count, nusers, links, stray, calls, ended>>

\* The robust case of trylock; the PI case takes the same steps and these two.
TrylockStep(t) ==
    \/ TryRead(t) \/ Mine(t) \/ TakeOver(t) \/ TryCas(t) \/ Busy(t) \/ Look(t)
    \/ DeadOwner(t) \/ Enqueue(t) \/ ReturnOwnerDead(t) \/ Record(t)

KernelStep(t) == TryKernel(t) \/ ClearDied(t)

LockStep(t) == LockRead(t) \/ LockCas(t) \/ LockKernel(t) \/ HandOff(t) \/ LockCheck(t)

UnlockStep(t) ==
    \/ Unlink(t) \/ ClearLinks(t) \/ Disown(t) \/ Release(t)
    \/ ReleasePI(t) \/ ChangePriority(t)

Step(t) == TrylockStep(t) \/ KernelStep(t) \/ LockStep(t) \/ UnlockStep(t)

Call(t, m) == \/ Trylock(t, m) \/ Lock(t, m) \/ LockInvalid(t, m)
              \/ UnlockRefused(t, m) \/ UnlockOnce(t, m) \/ UnlockRobust(t, m) \/ UnlockPI(t, m)

KernelFails(t) == TryKernelFails(t) \/ LockKernelFails(t)

Next == /\ ~ended
        /\ \E t \in Threads :
             \/ /\ Step(t) \/ Die(t) \/ \E m \in Mutexes : Call(t, m)
                /\ UNCHANGED misled
             \/ KernelFails(t)

Spec == Init /\ [][Next]_vars

-----------------------------------------------------------------------------
\* What the functions promise, they promise until an error of the kernel is taken
\* for the lock (misled): from then on two threads may hold one mutex.

\* A thread that was told it holds a mutex and has not unlocked it has its id in
\* the lock word: no two threads hold one mutex, whoever died before.
HoldersExclude ==
    ~misled => \A t \in Threads, m \in Mutexes : depth[t][m] > 0 => word[m].tid = t

\* Wherever a thread dies, on the way into a robust mutex or out of it, the
\* word is left to the others: it keeps the id of a dead thread only on a mutex
\* that is not recoverable any more.  (Lists with a stray mutex in them are
\* broken: the process that gave it back is about to stop.)
NoOrphan ==
    ~misled /\ stray = {} =>
        \A m \in Mutexes : kind[m].robust /\ word[m].tid \in dead => owner[m] = NotRecoverable

\* The holder of a mutex died: nobody gets the mutex before some thread was told
\* so by EOWNERDEAD.
LossTold == ~misled => \A m \in lost, t \in Threads : depth[t][m] = 0

\* Between calls the list of a thread, forwards and backwards, is made of the
\* robust mutexes that hold its id, in whatever order they were taken and given
\* back.
ListRight ==
    ~misled /\ stray = {} => \A t \in Threads : At(t, "user") =>
        /\ Walk(t) = {m \in Mutexes : /\ kind[m].robust /\ word[m].tid = t
                                      /\ owner[m] # NotRecoverable}
        /\ \A x \in Walk(t) \cup {t} : prev[next[x]] = x
=============================================================================
