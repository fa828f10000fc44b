---------------------------- MODULE PthreadMutex ----------------------------
(***************************************************************************)
(* pthread_mutex_lock, _trylock, _unlock, _init and _destroy on the real   *)
(* mutex of a SyncPerf record, for the kinds without priority protocol and *)
(* robustness, with the half of pthread_cond_wait that releases and takes  *)
(* back the mutex.  The lock word itself is LowLevelLock, whose actions    *)
(* are the lll_* calls of this module.                                     *)
(*                                                                         *)
(* The fields owner, count, nusers and spins are written by the owner of   *)
(* the lock word only; another thread looks at owner just to compare it    *)
(* with itself.  So the plain accesses between two operations on the lock  *)
(* word form one action.                                                   *)
(***************************************************************************)
EXTENDS Integers, FiniteSets, FiniteSetsExt

CONSTANTS
    Threads,
    Kinds,              \* kinds the program initialises mutexes with
    Pshared,            \* may it ask for a process-shared one? (set of BOOLEAN)
    CountMod,           \* 2^32 in the code: width of __count
    MaxAdaptiveCount,   \* MAX_ADAPTIVE_COUNT, 100 in the code
    SpinBase,           \* 10 in the code
    SpinDivisor,        \* 8 in the code
    MaxCalls,           \* bound on the counted calls of a thread
    Nobody              \* owner 0

ASSUME KindsAssumption == /\ Kinds \subseteq {"timed", "recursive", "errorcheck", "adaptive"}
                          /\ Pshared \subseteq BOOLEAN
ASSUME SpinAssumption == /\ MaxAdaptiveCount \in Nat /\ SpinBase \in Nat
                         /\ SpinDivisor \in Nat \ {0}
ASSUME CallAssumption == CountMod \in Nat \ {0, 1} /\ MaxCalls \in Nat
ASSUME ThreadsAssumption == IsFiniteSet(Threads) /\ Nobody \notin Threads

VARIABLES
    futex, pc,                              \* LowLevelLock: __lock and its callers
    kind, pshared,                          \* __kind, and its PTHREAD_MUTEX_PSHARED_BIT
    owner, count, nusers, spins,            \* __owner, __count, __nusers, __spins
    th,                                     \* the threads
    access_count, fail_count, trylock_fail_count,   \* thread_mutex_t, by thread
    totalConflicts,
    aborted                                 \* an assertion has failed

LLL == INSTANCE LowLevelLock

lockVars == <<futex, pc>>
kindVars == <<kind, pshared>>
dataVars == <<owner, count, nusers, spins>>
statVars == <<access_count, fail_count, trylock_fail_count, totalConflicts>>
vars == <<lockVars, kindVars, dataVars, th, statVars, aborted>>

(***************************************************************************)
(* Where a thread is:                                                      *)
(*   user      not in a call, mutex not held                               *)
(*   probe     lock, before the test of __lock == 2                        *)
(*   lll       before LLL_MUTEX_LOCK                                       *)
(*   spin      in the loop of an adaptive mutex                            *)
(*   wait      in LLL_MUTEX_LOCK, or just out of it                        *)
(*   trywon    trylock, after a successful lll_trylock                     *)
(*   held      not in a call, mutex held                                   *)
(*   unlock    owner and users are reset, before lll_unlock                *)
(*   unlocking in lll_unlock                                               *)
(*   condwait  in pthread_cond_wait, mutex released                        *)
(* cond: this acquisition or release is part of pthread_cond_wait (NO_INCR *)
(* or decr = 0).  cnt, max: locals of the spin loop.  depth: history, how  *)
(* often the program holds the mutex.  ret: what its last lock returned.   *)
(***************************************************************************)
Outside == [at |-> "user", cond |-> FALSE, cnt |-> 0, max |-> 0, depth |-> 0, ret |-> "0"]

\* pthread_mutex_init: the record is new and zeroed, the kind comes from the
\* attributes; robust and process-shared mutexes get the PSHARED bit.
FreshMutex(k, p) ==
    /\ kind' = k
    /\ pshared' = p
    /\ owner' = Nobody /\ count' = 0 /\ nusers' = 0 /\ spins' = 0

Init ==
    /\ LLL!Init
    /\ kind \in Kinds
    /\ pshared \in Pshared
    /\ owner = Nobody /\ count = 0 /\ nusers = 0 /\ spins = 0
    /\ th = [t \in Threads |-> Outside]
    /\ access_count = [t \in Threads |-> 0]
    /\ fail_count = [t \in Threads |-> 0]
    /\ trylock_fail_count = [t \in Threads |-> 0]
    /\ totalConflicts = 0
    /\ aborted = FALSE

Plus1(f, t) == [f EXCEPT ![t] = @ + 1]

Return(t, at, code) ==
    th' = [th EXCEPT ![t].at = at, ![t].ret = code, ![t].cond = FALSE,
                     ![t].cnt = 0, ![t].max = 0]

-----------------------------------------------------------------------------
(***************************************************************************)
(* pthread_mutex_lock (c = FALSE) and __pthread_mutex_cond_lock (c = TRUE, *)
(* the same code compiled with NO_INCR: no counters, nusers untouched and  *)
(* the cond variants of the lll_* calls).                                  *)
(***************************************************************************)

\* A call begins.  A correct program does not relock a normal mutex.
EnterLock(t, c) ==
    IF c THEN /\ th[t].at = "condwait"
              /\ UNCHANGED access_count
         ELSE /\ \/ th[t].at = "user"
                 \/ th[t].at = "held" /\ (kind \in {"recursive", "errorcheck"} \/ pshared)
              /\ kind # "destroyed"
              /\ access_count[t] < MaxCalls
              /\ access_count' = Plus1(access_count, t)

\* The switch compares the whole of __kind: with the PSHARED bit no case fits.
LockType == IF pshared THEN "other" ELSE kind

LockInvalid(t, c) ==
    /\ EnterLock(t, c)
    /\ LockType = "other"
    /\ th' = [th EXCEPT ![t].ret = "EINVAL", ![t].cond = FALSE,
                        ![t].at = IF owner = t THEN "held" ELSE "user",
                        ![t].depth = IF owner # t THEN 0 ELSE IF c THEN @ - 1 ELSE @]
    /\ UNCHANGED <<lockVars, kindVars, dataVars, fail_count, trylock_fail_count,
                   totalConflicts, aborted>>

\* MUTANT of BumpedCount: a relock starts the count anew.
BumpedCount_Reset == 1

BumpedCount == count + 1

\* Recursive, already ours: bump the counter unless it would overflow.
Bump(t, c) ==
    IF BumpedCount = CountMod
      THEN Return(t, "held", "EAGAIN") /\ UNCHANGED count
      ELSE /\ count' = BumpedCount
           /\ th' = [th EXCEPT ![t].at = "held", ![t].ret = "0", ![t].cond = FALSE,
                               ![t].depth = IF c THEN @ ELSE @ + 1]

LockAgain(t, c) ==
    /\ EnterLock(t, c)
    /\ LockType = "recursive" /\ owner = t
    /\ Bump(t, c)
    /\ UNCHANGED <<lockVars, kindVars, owner, nusers, spins, fail_count,
                   trylock_fail_count, totalConflicts, aborted>>

LockDeadlock(t, c) ==
    /\ EnterLock(t, c)
    /\ LockType = "errorcheck" /\ owner = t
    /\ Return(t, th[t].at, "EDEADLK")
    /\ UNCHANGED <<lockVars, kindVars, dataVars, fail_count, trylock_fail_count,
                   totalConflicts, aborted>>

LockBegin(t, c) ==
    /\ EnterLock(t, c)
    /\ LockType # "other"
    /\ LockType \in {"recursive", "errorcheck"} => owner # t
    /\ th' = [th EXCEPT ![t].cond = c,
                        ![t].at = IF LockType = "adaptive" THEN "spin"
                                  ELSE IF LockType = "recursive" \/ c THEN "lll"
                                  ELSE "probe"]
    /\ UNCHANGED <<lockVars, kindVars, dataVars, fail_count, trylock_fail_count,
                   totalConflicts, aborted>>

\* if (mutex->__data.__lock == 2).
Contended == futex = 2

\* A conflict is counted when the lock word shows a waiter already.
Probe(t) ==
    /\ th[t].at = "probe"
    /\ IF Contended
         THEN /\ fail_count' = Plus1(fail_count, t)
              /\ totalConflicts' = totalConflicts + 1
         ELSE UNCHANGED <<fail_count, totalConflicts>>
    /\ th' = [th EXCEPT ![t].at = "lll"]
    /\ UNCHANGED <<lockVars, kindVars, dataVars, access_count, trylock_fail_count, aborted>>

\* LLL_MUTEX_LOCK.
LowLevelLockCall(t) ==
    /\ th[t].at = "lll"
    /\ IF th[t].cond THEN LLL!lll_cond_lock(t) ELSE LLL!lll_lock(t)
    /\ th' = [th EXCEPT ![t].at = "wait"]
    /\ UNCHANGED <<kindVars, dataVars, statVars, aborted>>

\* The instructions and system calls inside of lll_lock and lll_unlock.
LowLevelStep(t) ==
    /\ LLL!Step(t)
    /\ UNCHANGED <<kindVars, dataVars, th, statVars, aborted>>

Interrupted(t) ==
    /\ LLL!FutexInterrupted(t)
    /\ UNCHANGED <<kindVars, dataVars, th, statVars, aborted>>

\* max_cnt = MIN(MAX_ADAPTIVE_COUNT, spins * 2 + 10).
MaxSpins == Min({MaxAdaptiveCount, spins * 2 + SpinBase})

\* One LLL_MUTEX_TRYLOCK of an adaptive mutex and, when it fails, the body of
\* the loop: count the failure, give up after max_cnt rounds.
Spin(t) ==
    /\ th[t].at = "spin"
    /\ IF th[t].cond THEN LLL!lll_cond_trylock(t) ELSE LLL!lll_trylock(t)
    /\ LET max == IF th[t].cnt = 0 THEN MaxSpins ELSE th[t].max
       IN th' = [th EXCEPT
                   ![t].at = IF futex = 0 THEN "wait" ELSE IF th[t].cnt >= max THEN "lll" ELSE "spin",
                   ![t].cnt = IF futex = 0 THEN @ ELSE @ + 1,
                   ![t].max = IF futex = 0 THEN @ ELSE max]
    /\ fail_count' = IF futex = 0 \/ th[t].cond THEN fail_count ELSE Plus1(fail_count, t)
    /\ UNCHANGED <<kindVars, dataVars, access_count, trylock_fail_count, totalConflicts, aborted>>

\* Division of C, towards zero.
Quotient(a, b) == IF a >= 0 THEN a \div b ELSE -((-a) \div b)

\* MUTANT of UsersOnLock: the cond variant counts the user again.
UsersOnLock_Always(c) == nusers + 1

\* ++__nusers, left out with NO_INCR: a waiter has kept its count.
UsersOnLock(c) == IF c THEN nusers ELSE nusers + 1

\* The lock word is ours: adapt the spin count, check the owner, record the
\* ownership.
Acquired(t) ==
    /\ th[t].at = "wait" /\ pc[t] = "in"
    /\ spins' = IF th[t].cnt = 0 THEN spins
                                 ELSE spins + Quotient(th[t].cnt - spins, SpinDivisor)
    /\ IF owner = Nobody
         THEN /\ owner' = t
              /\ count' = IF kind = "recursive" THEN 1 ELSE count
              /\ nusers' = UsersOnLock(th[t].cond)
              /\ th' = [th EXCEPT ![t].at = "held", ![t].ret = "0", ![t].cond = FALSE,
                                  ![t].cnt = 0, ![t].max = 0,
                                  ![t].depth = IF th[t].cond THEN @ ELSE 1]
              /\ UNCHANGED aborted
         ELSE aborted' = TRUE /\ UNCHANGED <<owner, count, nusers, th>>
    /\ UNCHANGED <<lockVars, kindVars, statVars>>

-----------------------------------------------------------------------------
(***************************************************************************)
(* pthread_mutex_trylock, whose switch masks the PSHARED bit.              *)
(***************************************************************************)
EnterTrylock(t) == /\ th[t].at \in {"user", "held"}
                   /\ kind # "destroyed"
                   /\ access_count[t] < MaxCalls
                   /\ access_count' = Plus1(access_count, t)

TrylockAgain(t) ==
    /\ EnterTrylock(t)
    /\ kind = "recursive" /\ owner = t
    /\ Bump(t, FALSE)
    /\ UNCHANGED <<lockVars, kindVars, owner, nusers, spins, fail_count,
                   trylock_fail_count, totalConflicts, aborted>>

\* MUTANT of TrylockFailures: fail_count is left to pthread_mutex_lock.
TrylockFailures_NoFail(t) ==
    /\ trylock_fail_count' = Plus1(trylock_fail_count, t)
    /\ UNCHANGED fail_count

\* inc_trylock_fail_count.
TrylockFailures(t) ==
    /\ fail_count' = Plus1(fail_count, t)
    /\ trylock_fail_count' = Plus1(trylock_fail_count, t)

\* lll_trylock; EBUSY is counted twice, as a failure and as a failed trylock.
\* A holder's own trylock of a normal mutex fails too.
Trylock(t) ==
    /\ EnterTrylock(t)
    /\ ~(kind = "recursive" /\ owner = t)
    /\ th[t].at = "user" => LLL!lll_trylock(t)
    /\ th[t].at = "held" => UNCHANGED lockVars
    /\ IF futex = 0
         THEN /\ th' = [th EXCEPT ![t].at = "trywon"]
              /\ UNCHANGED <<fail_count, trylock_fail_count>>
         ELSE UNCHANGED th /\ TrylockFailures(t)
    /\ UNCHANGED <<kindVars, dataVars, totalConflicts, aborted>>

TrylockWon(t) ==
    /\ th[t].at = "trywon"
    /\ owner' = t
    /\ count' = IF kind = "recursive" THEN 1 ELSE count
    /\ nusers' = nusers + 1
    /\ th' = [th EXCEPT ![t].at = "held", ![t].depth = 1]
    /\ UNCHANGED <<lockVars, kindVars, spins, statVars, aborted>>

-----------------------------------------------------------------------------
(***************************************************************************)
(* __pthread_mutex_unlock_usercnt: pthread_mutex_unlock (c = FALSE,        *)
(* decr = 1) and the release in pthread_cond_wait (c = TRUE, decr = 0).    *)
(***************************************************************************)

\* Recursive and error checking mutexes refuse a thread that is not the owner
\* with EPERM.
UnlockRefused(t) ==
    /\ th[t].at = "user"
    /\ kind \in {"recursive", "errorcheck"}
    /\ owner # t \/ (kind = "errorcheck" /\ futex = 0)
    /\ UNCHANGED vars

\* Still held after the decrement; pthread_cond_wait goes on to wait all the
\* same, holding the mutex.
UnlockOnce(t, c) ==
    /\ th[t].at = "held"
    /\ kind = "recursive" /\ count # 1
    /\ count' = count - 1
    /\ th' = [th EXCEPT ![t].at = IF c THEN "condwait" ELSE "held",
                        ![t].cond = c,
                        ![t].depth = IF c THEN @ ELSE @ - 1]
    /\ UNCHANGED <<lockVars, kindVars, owner, nusers, spins, statVars, aborted>>

\* if (decr) --__nusers.
UsersOnUnlock(c) == IF c THEN nusers ELSE nusers - 1

\* "Always reset the owner field."
OwnerOnUnlock(t) == Nobody

UnlockBegin(t, c) ==
    /\ th[t].at = "held"
    /\ kind = "recursive" => count = 1
    /\ count' = IF kind = "recursive" THEN 0 ELSE count
    /\ owner' = OwnerOnUnlock(t)
    /\ nusers' = UsersOnUnlock(c)
    /\ th' = [th EXCEPT ![t].at = "unlock", ![t].cond = c,
                        ![t].depth = IF c THEN @ ELSE @ - 1]
    /\ UNCHANGED <<lockVars, kindVars, spins, statVars, aborted>>

LowLevelUnlock(t) ==
    /\ th[t].at = "unlock"
    /\ LLL!lll_unlock(t)
    /\ th' = [th EXCEPT ![t].at = "unlocking"]
    /\ UNCHANGED <<kindVars, dataVars, statVars, aborted>>

\* MUTANT of Unlocked: the fields are reset after the lock word.
Unlocked_LateReset(t) ==
    /\ th[t].at = "unlocking" /\ pc[t] = "out"
    /\ owner' = Nobody
    /\ th' = [th EXCEPT ![t].at = IF th[t].cond THEN "condwait" ELSE "user"]
    /\ UNCHANGED <<lockVars, kindVars, count, nusers, spins, statVars, aborted>>

Unlocked(t) ==
    /\ th[t].at = "unlocking" /\ pc[t] = "out"
    /\ th' = [th EXCEPT ![t].at = IF th[t].cond THEN "condwait" ELSE "user"]
    /\ UNCHANGED <<lockVars, kindVars, dataVars, statVars, aborted>>

-----------------------------------------------------------------------------
\* pthread_mutex_destroy refuses a mutex with users (EBUSY).
InUse == nusers # 0

\* Called while no other thread is inside of a call on the mutex, except
\* waiting for a condition.
Destroy(t) ==
    /\ th[t].at = "user"
    /\ kind # "destroyed"
    /\ \A u \in Threads : th[u].at \in {"user", "held", "condwait"}
    /\ kind' = IF InUse THEN kind ELSE "destroyed"
    /\ UNCHANGED <<lockVars, pshared, dataVars, th, statVars, aborted>>

\* pthread_mutex_init of the destroyed mutex, which gets a new record; the
\* counters of this module are the sums over its successive records.
Reinit ==
    /\ kind = "destroyed"
    /\ \E k \in Kinds, p \in Pshared : FreshMutex(k, p)
    /\ UNCHANGED <<lockVars, th, statVars, aborted>>

-----------------------------------------------------------------------------
\* What a thread does by itself once it has entered a call.
Inner(t) == \/ Probe(t) \/ LowLevelLockCall(t) \/ LowLevelStep(t) \/ Spin(t)
            \/ Acquired(t) \/ TrylockWon(t) \/ LowLevelUnlock(t) \/ Unlocked(t)

\* Coming back from pthread_cond_wait.
Relock(t) == LockInvalid(t, TRUE) \/ LockAgain(t, TRUE) \/ LockBegin(t, TRUE)

Release(t) == UnlockOnce(t, FALSE) \/ UnlockBegin(t, FALSE)

Call(t) == \/ LockInvalid(t, FALSE) \/ LockAgain(t, FALSE)
           \/ LockDeadlock(t, FALSE) \/ LockBegin(t, FALSE)
           \/ TrylockAgain(t) \/ Trylock(t)
           \/ UnlockRefused(t) \/ UnlockOnce(t, TRUE) \/ UnlockBegin(t, TRUE)
           \/ Destroy(t) \/ Interrupted(t)

\* A failed assertion ends the process.
Next == /\ ~aborted
        /\ Reinit \/ \E t \in Threads : Call(t) \/ Release(t) \/ Relock(t) \/ Inner(t)

Spec == Init /\ [][Next]_vars

\* A thread inside of a call is scheduled, and the program releases what it
\* holds and is woken from its condition waits.
FairSpec == Spec /\ \A t \in Threads : WF_vars(Inner(t)) /\ WF_vars(Release(t)) /\ WF_vars(Relock(t))

-----------------------------------------------------------------------------
\* Whatever mix of lock, trylock, condition waits and kinds, one thread at a
\* time is between a successful lock and its unlock, and the mutex says so.
\* The assertions owner == 0 after LLL_MUTEX_LOCK never fail: an unlock has
\* cleared the field before the lock word becomes free.
HolderIsOwner ==
    /\ ~aborted
    /\ \A t \in Threads : th[t].at = "held" =>
          /\ owner = t
          /\ futex # 0
          /\ \A u \in Threads : th[u].at = "held" => u = t

\* nusers counts the holder and every thread in a condition wait on the mutex,
\* although lock and unlock skip it on the way through pthread_cond_wait.  (A
\* process-shared mutex is left with a user too many when a waiter comes back
\* and is refused by lock.)
UsesMutex(t) == th[t].at \in {"held", "condwait"} \/ th[t].cond
UsersExact == ~pshared => nusers = Cardinality({t \in Threads : UsesMutex(t)})

\* The recursion count is the number of unlocks the program still owes, also
\* after a condition wait at a depth of two.
CountIsDepth ==
    kind = "recursive" => \A t \in Threads : th[t].at = "held" => count = th[t].depth

SumOf(f) == MapThenSumSet(LAMBDA t : f[t], Threads)

\* The statistics agree: every failure is a conflict of totalConflicts, a
\* failed trylock or a turn of the spin loop of an adaptive mutex, and a call
\* takes no more of those than the loop allows: the failures of a lock may
\* outnumber its accesses, by this factor and no more.
ConflictsAccounted ==
    LET explained == totalConflicts + SumOf(trylock_fail_count)
        spins_max == (MaxAdaptiveCount + 1) * SumOf(access_count)
    IN /\ explained <= SumOf(fail_count)
       /\ SumOf(fail_count) <= explained + spins_max
       /\ "adaptive" \notin Kinds => SumOf(fail_count) = explained

\* "Correct code cannot set any other type": locking a mutex that
\* pthread_mutex_init has accepted does not end in EINVAL.
LockNeverInvalid == \A t \in Threads : th[t].ret # "EINVAL"

\* Whenever some thread waits for the mutex, some thread gets it.
Acquiring(t) == th[t].at \in {"probe", "lll", "spin", "wait"}
SomebodyGetsIt ==
    (\E t \in Threads : Acquiring(t)) ~> (\E u \in Threads : th[u].at = "held")
=============================================================================
