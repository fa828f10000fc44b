---------------------------- MODULE LowLevelLock ----------------------------
(***************************************************************************)
(* The futex lock under every SyncPerf mutex: the lll_* macros of          *)
(* lowlevellock.h and the slow paths of lowlevellock.S, one action per     *)
(* instruction that touches the lock word and one per futex system call.   *)
(* Register moves and branches are local to a thread and are folded into   *)
(* the access before them.                                                 *)
(*                                                                         *)
(* futex = 0  free, 1  taken, 2  taken and perhaps waited for.             *)
(***************************************************************************)
EXTENDS Naturals, FiniteSets

CONSTANT Threads        \* the threads of the profiled program

VARIABLES futex,        \* the lock word (mutex->__data.__lock)
          pc            \* where each thread is

vars == <<futex, pc>>

(***************************************************************************)
(* Control points of a thread:                                             *)
(*   out      not in a lll_* call and not holding the lock                 *)
(*   syscall  label 1 of __lll_lock_wait, before FUTEX_WAIT(futex, 2)      *)
(*   asleep   inside FUTEX_WAIT                                            *)
(*   xchg     label 2 of __lll_lock_wait, before the xchg of 2             *)
(*   in       holds the lock                                               *)
(*   store    __lll_unlock_wake, before the store of 0                     *)
(*   wake     __lll_unlock_wake, before FUTEX_WAKE(futex, 1)               *)
(***************************************************************************)
Labels == {"out", "syscall", "asleep", "xchg", "in", "store", "wake"}

\* The thread owns the lock word: it has taken it and not yet given it back.
Owning == {"in", "store"}
Waiting == {"syscall", "asleep", "xchg"}

Init == /\ futex = 0
        /\ pc = [t \in Threads |-> "out"]

\* The threads the kernel keeps on the queue of this futex.
sleeping == {t \in Threads : pc[t] = "asleep"}

Goto(t, label) == pc' = [pc EXCEPT ![t] = label]

\* cmpxchg of 0 by v.  When it fails, eax holds the value seen, and
\* __lll_lock_wait starts with its compare: sleep on 2, announce on 1.
CmpXchgOrWait(t, v) ==
    /\ pc[t] = "out"
    /\ IF futex = 0
         THEN futex' = v /\ Goto(t, "in")
         ELSE futex' = futex /\ Goto(t, IF futex = 2 THEN "syscall" ELSE "xchg")

\* MUTANT of CmpXchgOnce: a load and a store instead of the locked cmpxchg,
\* the load having happened before somebody else took the lock.
CmpXchgOnce_Unlocked(t, v) ==
    /\ pc[t] = "out"
    /\ futex < 2
    /\ futex' = v
    /\ Goto(t, "in")

\* cmpxchg of 0 by v, returning at once when it fails.
CmpXchgOnce(t, v) ==
    /\ pc[t] = "out"
    /\ IF futex = 0
         THEN futex' = v /\ Goto(t, "in")
         ELSE UNCHANGED <<futex, pc>>

lll_lock(t) == CmpXchgOrWait(t, 1)
lll_trylock(t) == CmpXchgOnce(t, 1)

\* The variants of pthread_mutex_cond_lock.c take the word with 2: a waiter
\* moved to this futex by a broadcast has not announced itself.
lll_cond_lock(t) == CmpXchgOrWait(t, 2)
lll_cond_trylock(t) == CmpXchgOnce(t, 2)

\* MUTANT of FutexWait: the kernel does not compare the word again.
FutexWait_NoCompare(t) ==
    /\ pc[t] = "syscall"
    /\ Goto(t, "asleep")
    /\ UNCHANGED futex

\* FUTEX_WAIT: the kernel puts the thread to sleep only if the word is still 2.
FutexWait(t) ==
    /\ pc[t] = "syscall"
    /\ Goto(t, IF futex = 2 THEN "asleep" ELSE "xchg")
    /\ UNCHANGED futex

\* FUTEX_WAIT returns early (EINTR): the caller never looks at the result.
FutexInterrupted(t) ==
    /\ pc[t] = "asleep"
    /\ Goto(t, "xchg")
    /\ UNCHANGED futex

\* MUTANT of LockXchg: a woken thread takes the lock with 1, as if it were
\* the only waiter.
LockXchg_One(t) ==
    /\ pc[t] = "xchg"
    /\ futex' = IF futex = 0 THEN 1 ELSE 2
    /\ Goto(t, IF futex = 0 THEN "in" ELSE "syscall")

\* xchgl of 2: the lock is ours if it was free, otherwise sleep (again).
LockXchg(t) ==
    /\ pc[t] = "xchg"
    /\ futex' = 2
    /\ Goto(t, IF futex = 0 THEN "in" ELSE "syscall")

\* lock decl: done if nobody was announced.
lll_unlock(t) ==
    /\ pc[t] = "in"
    /\ futex' = futex - 1
    /\ Goto(t, IF futex = 1 THEN "out" ELSE "store")

UnlockStore(t) ==
    /\ pc[t] = "store"
    /\ futex' = 0
    /\ Goto(t, "wake")

\* FUTEX_WAKE of one thread; the kernel chooses which.
UnlockWake(t) ==
    /\ pc[t] = "wake"
    /\ \/ /\ sleeping = {}
          /\ Goto(t, "out")
       \/ \E u \in sleeping : pc' = [pc EXCEPT ![t] = "out", ![u] = "xchg"]
    /\ UNCHANGED futex

-----------------------------------------------------------------------------
\* What a thread does by itself once it has entered a lll_* call.
Step(t) == FutexWait(t) \/ LockXchg(t) \/ UnlockStore(t) \/ UnlockWake(t)

\* What the program calls, and what the kernel may do on its own.
Call(t) == \/ lll_lock(t) \/ lll_cond_lock(t)
           \/ lll_trylock(t) \/ lll_cond_trylock(t)
           \/ lll_unlock(t)

Next == \E t \in Threads : Call(t) \/ Step(t) \/ FutexInterrupted(t)

Spec == Init /\ [][Next]_vars

\* A runnable thread is scheduled: it finishes the instructions it is in.
\* Nothing makes a program call, unlock, or an interrupt arrive.
FairSpec == Spec /\ \A t \in Threads : WF_vars(Step(t))

-----------------------------------------------------------------------------
\* The state is well formed: whatever is added to or taken from the word, it
\* stays one of its three values.
TypeOK == /\ futex \in 0..2
          /\ pc \in [Threads -> Labels]

\* The lock word and the threads agree: two threads never own the lock, and
\* the word is 0 exactly while nobody does (the decl/store pair of
\* __lll_unlock_wake keeps it nonzero in between).
MutualExclusion ==
    /\ \A t, u \in Threads : pc[t] \in Owning /\ pc[u] \in Owning => t = u
    /\ futex = 0 <=> \A t \in Threads : pc[t] \notin Owning

\* No lost wakeup: while some thread sleeps in FUTEX_WAIT, either the word
\* says 2, so the owner's unlock will wake, or some thread is already on its
\* way to wake a sleeper or to write 2 again.
NoLostWakeup ==
    sleeping # {} =>
        \/ futex = 2
        \/ \E t \in Threads : pc[t] \in {"store", "wake", "xchg"}

\* The implementation of the abstract lock.
Lock == INSTANCE AbstractLock
          WITH holders <- {t \in Threads : pc[t] \in Owning},
               trying  <- {t \in Threads : pc[t] \in Waiting}

\* Every step is a step of the abstract lock, and a free lock with waiters is
\* always taken again: no behaviour of lll_lock/lll_unlock strands a waiter.
ImplementsLock == Lock!AFairSpec

\* The safety part of the refinement, without the hand-over.
ImplementsLockSafely == Lock!ASpec
=============================================================================
