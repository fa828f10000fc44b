------------------------------ MODULE CondWait ------------------------------
(***************************************************************************)
(* pthread_cond_wait of SyncPerf on one condition variable and one mutex.  *)
(* The mutex is a lock word of LowLevelLock: a waiter gives it back with   *)
(* lll_unlock and takes it again with lll_cond_lock, and a broadcast moves *)
(* waiters from the queue of the condition variable to the queue of the    *)
(* word.                                                                   *)
(*                                                                         *)
(* pthread_cond_signal, _broadcast and _destroy are those of the C library *)
(* (external), as the sequence counters of cond_wait.c require them.  What *)
(* runs under the internal lock of the condition variable is one action,   *)
(* except that a waiter releases the mutex while it has that lock.         *)
(***************************************************************************)
EXTENDS Naturals, FiniteSets

CONSTANTS
    Threads,
    Cancelable,     \* threads that run with asynchronous cancellation
    MaxLocks,       \* bound on the calls of pthread_mutex_lock
    MaxWaits,       \* bound on the calls of pthread_cond_wait
    MaxSignals,     \* bound on the calls of signal and broadcast
    MaxInterrupts,  \* bound on interrupted system calls
    Nobody

ASSUME ThreadsAssumption == Cancelable \subseteq Threads /\ Nobody \notin Threads
ASSUME BoundsAssumption == \A bound \in {MaxLocks, MaxWaits, MaxSignals, MaxInterrupts} : bound \in Nat

VARIABLES
    futex, pc,          \* LowLevelLock: the word of the mutex and its callers
    cond,               \* the condition variable
    th,                 \* the threads
    cond_waits,         \* thread_mutex_t::cond_waits, summed over the threads
    totalCondWaits,
    calls,              \* calls made so far, for the bounds
    process             \* "running", or what a cancelled wait ended it with

LLL == INSTANCE LowLevelLock

lockVars == <<futex, pc>>
statVars == <<cond_waits, totalCondWaits>>
vars == <<lockVars, cond, th, statVars, calls, process>>

(***************************************************************************)
(* Where a thread is, besides its pc in LowLevelLock:                      *)
(*   user      in the program, or in lll_lock and lll_unlock of it         *)
(*   release   in pthread_cond_wait, giving back the mutex                 *)
(*   block     the lock of cond is released, before FUTEX_WAIT             *)
(*   asleep    in FUTEX_WAIT on cond                                       *)
(*   requeued  in the same FUTEX_WAIT, moved to the queue of the mutex;    *)
(*             its pc in LowLevelLock is that of a sleeper                 *)
(*   woken     FUTEX_WAIT has returned                                     *)
(*   relock    done with cond, before __pthread_mutex_cond_lock            *)
(*   return    in __pthread_mutex_cond_lock                                *)
(*   cancelled in the cleanup handler, done with cond                      *)
(*   requeue   in broadcast, before FUTEX_CMP_REQUEUE                      *)
(*   drain     in destroy, waiting for the waiters to leave                *)
(* seq, bc_seq, val: locals of pthread_cond_wait (val is futex_val).       *)
(***************************************************************************)
AtUser == [at |-> "user", seq |-> 0, bc_seq |-> 0, val |-> 0]

\* dying stands for __total_seq = -1, the mark of pthread_cond_destroy.
Init ==
    /\ LLL!Init
    /\ cond = [lock |-> Nobody, total_seq |-> 0, wakeup_seq |-> 0, woken_seq |-> 0,
               broadcast_seq |-> 0, futex |-> 0, nwaiters |-> 0, dying |-> FALSE,
               gone |-> FALSE]
    /\ th = [t \in Threads |-> AtUser]
    /\ cond_waits = 0
    /\ totalCondWaits = 0
    /\ calls = [lock |-> 0, wait |-> 0, signal |-> 0, interrupt |-> 0]
    /\ process = "running"

At(t, label) == th[t].at = label
Goto(t, label) == th' = [th EXCEPT ![t].at = label]
Alone == cond.lock = Nobody
Sleepers == {t \in Threads : At(t, "asleep")}

\* The threads between their registration and their departure.
Inside == {t \in Threads : th[t].at \in {"block", "asleep", "requeued", "woken"}}

-----------------------------------------------------------------------------
(***************************************************************************)
(* The program.                                                            *)
(***************************************************************************)
Lock(t) ==
    /\ At(t, "user")
    /\ calls.lock < MaxLocks
    /\ LLL!lll_lock(t)
    /\ calls' = [calls EXCEPT !.lock = @ + 1]
    /\ UNCHANGED <<cond, th, statVars, process>>

Unlock(t) ==
    /\ At(t, "user")
    /\ LLL!lll_unlock(t)
    /\ UNCHANGED <<cond, th, statVars, calls, process>>

\* The instructions and system calls inside of lll_lock and lll_unlock.
LowLevelStep(t) ==
    /\ ~At(t, "requeued")
    /\ LLL!Step(t)
    /\ UNCHANGED <<cond, th, statVars, calls, process>>

-----------------------------------------------------------------------------
(***************************************************************************)
(* pthread_cond_wait.                                                      *)
(***************************************************************************)

\* Make sure we are alone, release the mutex.
WaitBegin(t) ==
    /\ At(t, "user") /\ pc[t] = "in"
    /\ Alone /\ ~cond.dying
    /\ calls.wait < MaxWaits
    /\ calls' = [calls EXCEPT !.wait = @ + 1]
    /\ LLL!lll_unlock(t)
    /\ cond' = [cond EXCEPT !.lock = t]
    /\ Goto(t, "release")
    /\ UNCHANGED <<statVars, process>>

\* The unlock of an error checking mutex that is not ours fails: return.
WaitRefused(t) ==
    /\ At(t, "user") /\ pc[t] = "out"
    /\ Alone /\ ~cond.dying
    /\ UNCHANGED vars

\* One new user of the condition variable.
Registered(c) ==
    [c EXCEPT !.total_seq = @ + 1, !.futex = @ + 1, !.nwaiters = @ + 1]

WaitRegister(t) ==
    /\ At(t, "release") /\ pc[t] = "out"
    /\ cond' = [Registered(cond) EXCEPT !.lock = Nobody]
    /\ th' = [th EXCEPT ![t] = [at |-> "block", seq |-> cond.wakeup_seq,
                                bc_seq |-> cond.broadcast_seq, val |-> cond'.futex]]
    /\ UNCHANGED <<lockVars, statVars, calls, process>>

\* MUTANT of FutexWait: the kernel does not compare the word again.
FutexWait_NoCompare(t) ==
    /\ At(t, "block")
    /\ cond_waits' = cond_waits + 1
    /\ Goto(t, "asleep")
    /\ UNCHANGED <<lockVars, cond, totalCondWaits, calls, process>>

\* Count, take the time and wait until woken by signal or broadcast.
FutexWait(t) ==
    /\ At(t, "block")
    /\ cond_waits' = cond_waits + 1
    /\ Goto(t, IF cond.futex = th[t].val THEN "asleep" ELSE "woken")
    /\ UNCHANGED <<lockVars, cond, totalCondWaits, calls, process>>

\* A signal of the system ends the system call, on whichever queue it sleeps.
FutexInterrupted(t) ==
    /\ th[t].at \in {"asleep", "requeued"}
    /\ calls.interrupt < MaxInterrupts
    /\ calls' = [calls EXCEPT !.interrupt = @ + 1]
    /\ pc' = [pc EXCEPT ![t] = "out"]
    /\ Goto(t, "woken")
    /\ UNCHANGED <<futex, cond, statVars, process>>

\* A requeued waiter returns from FUTEX_WAIT once the queue of the mutex has
\* let it go.
RequeuedWakes(t) ==
    /\ At(t, "requeued") /\ pc[t] = "xchg"
    /\ pc' = [pc EXCEPT ![t] = "out"]
    /\ Goto(t, "woken")
    /\ UNCHANGED <<futex, cond, statVars, calls, process>>

\* MUTANT of Eligible: somebody has been woken, never mind how many have left.
Eligible_AnySignal(t) == cond.wakeup_seq # th[t].seq

\* The end of the loop: a signal since we registered, not yet taken.
Eligible(t) == cond.wakeup_seq # th[t].seq /\ cond.woken_seq # cond.wakeup_seq

\* MUTANT of DestroyerWoken: the first waiter to leave tells the destroyer.
DestroyerWoken_Early(nwaiters) == cond.dying

\* MUTANT of DestroyerWoken: the last waiter does not tell the destroyer.
DestroyerWoken_Never(nwaiters) == FALSE

\* The last waiter of a condition variable that is being destroyed.
DestroyerWoken(nwaiters) == cond.dying /\ nwaiters = 0

\* One waiter less; FUTEX_WAKE on __nwaiters for the destroyer.
Leave(t, c, label) ==
    LET left == c.nwaiters - 1
    IN /\ cond' = [c EXCEPT !.nwaiters = left,
                            !.gone = @ \/ DestroyerWoken(left)]
       /\ Goto(t, label)

\* With the lock of cond again: leave after a broadcast or with a signal,
\* otherwise wait for the futex as it is now.
Woken(t) ==
    /\ At(t, "woken")
    /\ Alone
    /\ \/ th[t].bc_seq # cond.broadcast_seq /\ Leave(t, cond, "relock")
       \/ /\ th[t].bc_seq = cond.broadcast_seq /\ Eligible(t)
          /\ Leave(t, [cond EXCEPT !.woken_seq = @ + 1], "relock")
       \/ /\ th[t].bc_seq = cond.broadcast_seq /\ ~Eligible(t)
          /\ th' = [th EXCEPT ![t].at = "block", ![t].val = cond.futex]
          /\ UNCHANGED cond
    /\ UNCHANGED <<lockVars, statVars, calls, process>>

\* MUTANT of Relock: the mutex is taken as by pthread_mutex_lock.
Relock_Plain(t) ==
    /\ At(t, "relock")
    /\ LLL!lll_lock(t)
    /\ totalCondWaits' = totalCondWaits + 1
    /\ Goto(t, "return")
    /\ UNCHANGED <<cond, cond_waits, calls, process>>

\* __pthread_mutex_cond_lock of the nominal mutex.
Relock(t) ==
    /\ At(t, "relock")
    /\ LLL!lll_cond_lock(t)
    /\ totalCondWaits' = totalCondWaits + 1
    /\ Goto(t, "return")
    /\ UNCHANGED <<cond, cond_waits, calls, process>>

Return(t) ==
    /\ At(t, "return") /\ pc[t] = "in"
    /\ th' = [th EXCEPT ![t] = AtUser]
    /\ UNCHANGED <<lockVars, cond, statVars, calls, process>>

-----------------------------------------------------------------------------
(***************************************************************************)
(* Cancellation.  pthread_cond_wait does not enable it any more; a thread  *)
(* that has enabled it itself runs __condvar_cleanup.                      *)
(***************************************************************************)
\* This thread is not waiting any more: a signal meant for it is used up, and
\* wakeup_seq is not bumped over total_seq (which destroy sets to its maximum).
CancelSeq(c) ==
    IF c.dying \/ c.wakeup_seq < c.total_seq
      THEN [c EXCEPT !.wakeup_seq = @ + 1, !.futex = @ + 1, !.woken_seq = @ + 1]
      ELSE [c EXCEPT !.woken_seq = @ + 1]

\* All of the handler up to the mutex; unless cond is being destroyed it wakes
\* everybody on cond, so that no signal gets lost.
Cancel(t) ==
    /\ t \in Cancelable
    /\ th[t].at \in {"block", "asleep", "requeued", "woken"}
    /\ Alone
    /\ pc' = [pc EXCEPT ![t] = "out"]
    /\ LET c == IF th[t].bc_seq = cond.broadcast_seq THEN CancelSeq(cond) ELSE cond
           left == c.nwaiters - 1
           destroying == DestroyerWoken(left)
       IN /\ cond' = [c EXCEPT !.nwaiters = left, !.gone = @ \/ destroying]
          /\ th' = [u \in Threads |->
                      IF u = t THEN [th[t] EXCEPT !.at = "cancelled"]
                      ELSE IF u \in Sleepers /\ ~destroying THEN [th[u] EXCEPT !.at = "woken"]
                      ELSE th[u]]
    /\ UNCHANGED <<futex, statVars, calls, process>>

\* __pthread_mutex_cond_lock (cbuffer->mutex) with the real mutex: get_mutex
\* takes its lock word for a pointer to a record, asserting that it is not 0
\* and following it otherwise.
CancelRelock(t) ==
    /\ At(t, "cancelled")
    /\ totalCondWaits' = totalCondWaits + 1
    /\ process' = IF futex = 0 THEN "assert" ELSE "fault"
    /\ UNCHANGED <<lockVars, cond, th, cond_waits, calls>>

-----------------------------------------------------------------------------
(***************************************************************************)
(* Signal, broadcast and destroy of the C library.                         *)
(***************************************************************************)
MayNotify(t) ==
    /\ At(t, "user") /\ pc[t] \in {"in", "out"}
    /\ Alone /\ ~cond.dying
    /\ calls.signal < MaxSignals
    /\ calls' = [calls EXCEPT !.signal = @ + 1]

HasWaiters == cond.total_seq > cond.wakeup_seq

\* One more wakeup, and one sleeper woken.
Signal(t) ==
    /\ MayNotify(t)
    /\ HasWaiters
    /\ cond' = [cond EXCEPT !.wakeup_seq = @ + 1, !.futex = @ + 1]
    /\ \/ Sleepers = {} /\ UNCHANGED th
       \/ \E u \in Sleepers : Goto(u, "woken")
    /\ UNCHANGED <<lockVars, statVars, process>>

\* Everybody is woken up to here ...
Broadcast(t) ==
    /\ MayNotify(t)
    /\ HasWaiters
    /\ cond' = [cond EXCEPT !.wakeup_seq = cond.total_seq, !.woken_seq = cond.total_seq,
                            !.futex = 2 * cond.total_seq, !.broadcast_seq = @ + 1]
    /\ th' = [th EXCEPT ![t].at = "requeue", ![t].val = 2 * cond.total_seq]
    /\ UNCHANGED <<lockVars, statVars, process>>

\* ... one sleeper returns and the others wait for the mutex, unless somebody
\* has begun to wait in between: then all return.
Requeue(t) ==
    /\ At(t, "requeue")
    /\ \E first \in SUBSET Sleepers :
          /\ IF cond.futex = th[t].val /\ Sleepers # {} THEN Cardinality(first) = 1
                                                        ELSE first = Sleepers
          /\ th' = [u \in Threads |->
                      IF u = t THEN [th[t] EXCEPT !.at = "user", !.val = 0]
                      ELSE IF u \in first THEN [th[u] EXCEPT !.at = "woken"]
                      ELSE IF u \in Sleepers THEN [th[u] EXCEPT !.at = "requeued"]
                      ELSE th[u]]
          /\ pc' = [u \in Threads |-> IF u \in Sleepers \ first THEN "asleep" ELSE pc[u]]
    /\ UNCHANGED <<futex, cond, statVars, calls, process>>

\* Destroy, legal once every waiter is woken: wake those that wait for the
\* mutex as well, then wait for the last one to leave.
Destroy(t) ==
    /\ At(t, "user") /\ pc[t] \in {"in", "out"}
    /\ Alone /\ ~cond.dying /\ ~HasWaiters
    /\ \A u \in Threads : ~At(u, "requeue")
    /\ cond' = [cond EXCEPT !.dying = TRUE, !.gone = cond.nwaiters = 0]
    /\ IF cond.nwaiters = 0
         THEN UNCHANGED <<pc, th>>
         ELSE /\ Goto(t, "drain")
              /\ pc' = [u \in Threads |-> IF pc[u] = "asleep" THEN "xchg" ELSE pc[u]]
    /\ UNCHANGED <<futex, statVars, calls, process>>

\* The destroyer is woken up; gone is the state of the memory from then on.
Destroyed(t) ==
    /\ At(t, "drain")
    /\ cond.gone
    /\ Goto(t, "user")
    /\ UNCHANGED <<lockVars, cond, statVars, calls, process>>

-----------------------------------------------------------------------------
\* What a thread does by itself once it has entered a call.
Inner(t) == \/ LowLevelStep(t) \/ WaitRegister(t) \/ FutexWait(t) \/ RequeuedWakes(t)
            \/ Woken(t) \/ Relock(t) \/ Return(t) \/ CancelRelock(t)
            \/ Requeue(t) \/ Destroyed(t)

Call(t) == \/ Lock(t) \/ WaitBegin(t) \/ WaitRefused(t)
           \/ FutexInterrupted(t) \/ Cancel(t)
           \/ Signal(t) \/ Broadcast(t) \/ Destroy(t)

Running == process = "running"

Next == \/ Running /\ \E t \in Threads : Call(t) \/ Unlock(t) \/ Inner(t)
        \/ ~Running /\ UNCHANGED vars

Spec == Init /\ [][Next]_vars

\* Threads inside of a call are scheduled, and holders release the mutex.
FairSpec == Spec /\ \A t \in Threads : /\ WF_vars(Running /\ Inner(t))
                                       /\ WF_vars(Running /\ Unlock(t))

-----------------------------------------------------------------------------
\* No wait returns without a signal or a broadcast: the waiters that have left
\* are at most the wakeups, and these at most the waiters that came.  A signal
\* that is not yet taken has a taker, also after another waiter was cancelled:
\* as many waiters may leave as there are wakeups to use up.
SignalsAccounted ==
    /\ cond.woken_seq <= cond.wakeup_seq
    /\ ~cond.dying =>
          /\ cond.wakeup_seq <= cond.total_seq
          /\ cond.wakeup_seq - cond.woken_seq
                <= Cardinality({t \in Inside : /\ th[t].bc_seq = cond.broadcast_seq
                                               /\ th[t].seq < cond.wakeup_seq})

\* No signal is lost: every wakeup is used up in the end, also when the kernel
\* wakes a thread that must sleep again, or interrupts one.
SignalsDelivered ==
    []<>(cond.wakeup_seq = cond.woken_seq \/ cond.dying \/ ~Running)

\* A broadcast lets every waiter return with the mutex, although all but one
\* are only woken by those that leave before them.
BroadcastReleases ==
    \A t \in Threads :
        (t \in Inside /\ th[t].bc_seq # cond.broadcast_seq)
            ~> (At(t, "user") \/ ~Running)

\* A waiter that a broadcast has let go, and that has not yet taken the mutex
\* with lll_cond_lock; a cancelled one ends the process instead.
Released(t) == \/ th[t].at \in {"relock", "cancelled"}
               \/ At(t, "woken") /\ th[t].bc_seq # cond.broadcast_seq

\* Nobody who sleeps on the mutex is forgotten.  A waiter that a broadcast has
\* moved there never announced itself in the lock word, which may even be free:
\* then another waiter is on its way to take the word with 2, and to wake.
NoWaiterStranded ==
    LLL!sleeping # {} =>
        \/ futex = 2
        \/ \E t \in Threads : pc[t] \in {"store", "wake", "xchg"} \/ Released(t)

\* pthread_cond_destroy returns only when no waiter will touch the condition
\* variable again: nwaiters counts them to the last.
DestroySafe == cond.gone => Inside = {}

\* A destroyer waiting for the last waiter is told.
DestroyReturns == \A t \in Threads : At(t, "drain") ~> (At(t, "user") \/ ~Running)
=============================================================================
