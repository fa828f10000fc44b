---------------------------- MODULE AbstractLock ----------------------------
(***************************************************************************)
(* What the low level lock of SyncPerf promises to its callers: at most    *)
(* one thread is inside, and a free lock somebody is waiting for is        *)
(* eventually taken.  LowLevelLock is shown to implement this module, and  *)
(* the mutexes of PthreadMutex and PriorityProtect to implement its safety *)
(* part.                                                                   *)
(***************************************************************************)
CONSTANT Threads        \* the threads of the profiled program

VARIABLES holders,      \* threads that are inside (at most one)
          trying        \* threads that found the lock taken and wait for it

avars == <<holders, trying>>

AInit == /\ holders = {}
         /\ trying = {}

\* A thread finds the lock taken and starts to wait.
Request(t) == /\ t \notin holders \cup trying
              /\ holders # {}
              /\ trying' = trying \cup {t}
              /\ UNCHANGED holders

\* A thread, waiting or not, enters a free lock.
Acquire(t) == /\ holders = {}
              /\ holders' = {t}
              /\ trying' = trying \ {t}

Release(t) == /\ holders = {t}
              /\ holders' = {}
              /\ UNCHANGED trying

ANext == \E t \in Threads : Request(t) \/ Acquire(t) \/ Release(t)

ASpec == AInit /\ [][ANext]_avars

\* Handing over: a free lock with waiters does not stay free.
AFairSpec == ASpec /\ WF_avars(\E t \in trying : Acquire(t))
=============================================================================
