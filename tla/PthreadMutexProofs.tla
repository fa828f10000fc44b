------------------------- MODULE PthreadMutexProofs -------------------------
(***************************************************************************)
(* Theorems about PthreadMutex, for every finite set of threads, every set *)
(* of kinds and every width of the recursion count.                        *)
(*                                                                         *)
(* The mutex functions touch the lock word only through the lll_* calls,   *)
(* so PthreadMutex implements LowLevelLock, and the invariants proved      *)
(* there hold here.  The fields of the mutex are then right because the    *)
(* place of a thread in the mutex functions says where it is in the lll_*  *)
(* call, and owner says who has the word.                                  *)
(***************************************************************************)
EXTENDS PthreadMutex, SumFacts, FiniteSetTheorems, TLAPS

LLLProofs == INSTANCE LowLevelLockProofs

Places == {"user", "probe", "lll", "spin", "wait", "trywon", "held", "unlock",
           "unlocking", "condwait"}

\* The types, as far as the proofs need them.
Shape == /\ DOMAIN th = Threads
         /\ \A t \in Threads : /\ DOMAIN th[t] = DOMAIN Outside
                               /\ th[t].at \in Places
                               /\ th[t].cond \in BOOLEAN
                               /\ th[t].depth \in Int
         /\ count \in Int /\ nusers \in Int
         /\ owner \in Threads \cup {Nobody}
         /\ kind \in Kinds \cup {"destroyed"}
         /\ pshared \in BOOLEAN

\* Where a thread in the mutex functions may be in the lll_* calls.
PcAt(t) == /\ th[t].at \in {"user", "probe", "lll", "spin"} => pc[t] = "out"
           /\ th[t].at = "wait" => pc[t] \in {"syscall", "asleep", "xchg", "in"}
           /\ th[t].at \in {"trywon", "held", "unlock"} => pc[t] = "in"
           /\ th[t].at = "unlocking" => pc[t] \in {"out", "store", "wake"}
           /\ th[t].at = "condwait" => pc[t] \in {"out", "in"}

\* A waiter that released an inner level of a recursive mutex still has it.
Has(t) == th[t].at = "held" \/ (th[t].at = "condwait" /\ pc[t] = "in")

\* owner names the thread that has the mutex, and the assertion has not failed.
OwnerRight == /\ \A t \in Threads : owner = t <=> Has(t)
              /\ ~aborted

\* cond is set on the way through pthread_cond_wait and nowhere else.
CondAt(t) == /\ th[t].at \in {"user", "probe", "trywon", "held"} => ~th[t].cond
             /\ th[t].at = "condwait" => th[t].cond

\* The threads that __nusers should count.
Users == {t \in Threads : UsesMutex(t)}

\* A process-shared mutex may count a user too many, never one too few.
UsersCount == Cardinality(Users) <= nusers /\ UsersExact

\* destroy answers EBUSY while there are users, so init finds none.
DestroyedIdle == kind = "destroyed" => \A t \in Threads : th[t].at = "user"

UsersRight == UsersCount /\ DestroyedIdle

\* The count is the depth, also of a waiter that has the mutex (for which the
\* program owes one unlock more) and of one that will get it back.
DepthRight ==
    kind = "recursive" =>
        /\ count < CountMod
        /\ \A t \in Threads :
              /\ th[t].at = "held" => count = th[t].depth /\ count > 0
              /\ th[t].at = "condwait" /\ pc[t] = "in" =>
                    count = th[t].depth - 1 /\ count > 0 /\ th[t].depth < CountMod
              /\ th[t].cond /\ ~Has(t) => th[t].depth = 1

-----------------------------------------------------------------------------
(***************************************************************************)
(* The lock word.                                                          *)
(***************************************************************************)
\* Every step of the mutex functions is a step of the lll_* calls or leaves
\* the lock word and its callers alone.
LEMMA LockWordStep == [Next]_vars => [LLL!Next]_(LLL!vars)
<1> SUFFICES ASSUME [Next]_vars PROVE [LLL!Next]_(LLL!vars)
  OBVIOUS
<1> USE DEF LLL!vars, lockVars
<1>1. CASE UNCHANGED vars
  BY <1>1 DEF vars
<1>2. CASE Reinit
  BY <1>2 DEF Reinit
<1>3. ASSUME NEW t \in Threads, Call(t) PROVE [LLL!Next]_(LLL!vars)
  <2>1. CASE Trylock(t)
    BY <2>1 DEF Trylock, EnterTrylock, LLL!Next, LLL!Call
  <2>2. CASE Interrupted(t)
    BY <2>2 DEF Interrupted, LLL!Next
  <2> QED
    BY <1>3, <2>1, <2>2 DEF Call, LockInvalid, LockAgain, LockDeadlock, LockBegin,
       TrylockAgain,
       UnlockRefused, UnlockOnce, UnlockBegin, Destroy, vars
<1>4. ASSUME NEW t \in Threads, Release(t) \/ Relock(t) PROVE [LLL!Next]_(LLL!vars)
  BY <1>4 DEF Release, Relock, UnlockOnce, UnlockBegin, LockInvalid, LockAgain,
     LockBegin
<1>5. ASSUME NEW t \in Threads, Inner(t) PROVE [LLL!Next]_(LLL!vars)
  <2>1. CASE LowLevelLockCall(t)
    BY <2>1 DEF LowLevelLockCall, LLL!Next, LLL!Call
  <2>2. CASE LowLevelStep(t)
    BY <2>2 DEF LowLevelStep, LLL!Next
  <2>3. CASE Spin(t)
    BY <2>3 DEF Spin, LLL!Next, LLL!Call
  <2>4. CASE LowLevelUnlock(t)
    BY <2>4 DEF LowLevelUnlock, LLL!Next, LLL!Call
  <2> QED
    BY <1>5, <2>1, <2>2, <2>3, <2>4 DEF Inner, Probe, Acquired, TrylockWon, Unlocked
<1> QED
  BY <1>1, <1>2, <1>3, <1>4, <1>5 DEF Next

\* The mutex functions use the lock word as LowLevelLock allows, whatever the
\* kind of the mutex and whatever calls the program makes.
THEOREM UsesLockWord == Spec => LLL!Spec
<1>1. Init => LLL!Init
  BY DEF Init
<1> QED
  BY <1>1, LockWordStep, PTL DEF Spec, LLL!Spec

\* The module of the proofs about the lock word is about the same steps.
LEMMA SameLockWord ==
    /\ LLL!Init => LLLProofs!Init
    /\ [LLL!Next]_(LLL!vars) => [LLLProofs!Next]_(LLLProofs!vars)
  BY DEF LLL!Init, LLLProofs!Init, LLL!vars, LLLProofs!vars, LLL!Next, LLLProofs!Next,
     LLL!Call, LLLProofs!Call, LLL!Step, LLLProofs!Step, LLL!FutexInterrupted,
     LLLProofs!FutexInterrupted, LLL!lll_lock, LLLProofs!lll_lock, LLL!lll_cond_lock,
     LLLProofs!lll_cond_lock, LLL!lll_trylock, LLLProofs!lll_trylock,
     LLL!lll_cond_trylock, LLLProofs!lll_cond_trylock, LLL!lll_unlock,
     LLLProofs!lll_unlock, LLL!CmpXchgOrWait, LLLProofs!CmpXchgOrWait, LLL!CmpXchgOnce,
     LLLProofs!CmpXchgOnce, LLL!FutexWait, LLLProofs!FutexWait, LLL!LockXchg,
     LLLProofs!LockXchg, LLL!UnlockStore, LLLProofs!UnlockStore, LLL!UnlockWake,
     LLLProofs!UnlockWake, LLL!Goto, LLLProofs!Goto, LLL!sleeping, LLLProofs!sleeping

\* So the invariants of the lock word hold.
LEMMA LockWordInvariant == Spec => []LLLProofs!IInv
<1>1. LLLProofs!Spec => []LLLProofs!IInv
  BY LLLProofs!Invariance
<1> QED
  BY <1>1, SameLockWord, UsesLockWord, PTL DEF LLL!Spec, LLLProofs!Spec

\* The part of the invariant of the lock word that the fields rely on.
WordRight == /\ futex \in 0 .. 2
             /\ pc \in [Threads -> {"out", "syscall", "asleep", "xchg", "in", "store", "wake"}]
             /\ \A t, u \in Threads :
                   pc[t] \in {"in", "store"} /\ pc[u] \in {"in", "store"} => t = u
             /\ futex = 0 <=> \A t \in Threads : pc[t] \notin {"in", "store"}

\* The invariant of the lock word says all that the mutex functions rely on.
LEMMA WordIsRight == LLLProofs!IInv => WordRight
  BY DEF LLLProofs!IInv, LLLProofs!TypeOK, LLLProofs!MutualExclusion, LLLProofs!Labels,
         LLLProofs!Owning, WordRight

\* A call that returns moves one thread, and resets the locals of the loop.
LEMMA ReturnEffect ==
    ASSUME Shape, NEW t \in Threads, NEW at, NEW code, Return(t, at, code)
    PROVE  /\ DOMAIN th' = Threads /\ DOMAIN th'[t] = DOMAIN Outside
           /\ \A u \in Threads \ {t} : th'[u] = th[u]
           /\ th'[t].at = at /\ th'[t].cond = FALSE /\ th'[t].depth = th[t].depth
<1> USE DEF Shape, Outside, Return
<1>1. DOMAIN th' = Threads /\ \A u \in Threads \ {t} : th'[u] = th[u]
  OBVIOUS
<1>2. th'[t] = [th[t] EXCEPT !.at = at, !.ret = code, !.cond = FALSE, !.cnt = 0, !.max = 0]
  OBVIOUS
<1>3. DOMAIN th[t] = DOMAIN Outside
  OBVIOUS
<1> HIDE DEF Shape, Return
<1>4. DOMAIN th'[t] = DOMAIN Outside
  BY <1>2, <1>3
<1>5. th'[t].at = at /\ th'[t].cond = FALSE
  BY <1>2, <1>3
<1>6. th'[t].depth = th[t].depth
  BY <1>2, <1>3
<1> QED
  BY <1>1, <1>4, <1>5, <1>6

\* A turn of the spin loop moves one thread, and no field of the mutex.
LEMMA SpinEffect ==
    ASSUME Shape, WordRight, NEW t \in Threads, Spin(t)
    PROVE  /\ th[t].at = "spin" /\ th'[t].at \in {"spin", "lll", "wait"}
           /\ th'[t].cond = th[t].cond /\ th'[t].depth = th[t].depth
           /\ \A u \in Threads \ {t} : th'[u] = th[u] /\ pc'[u] = pc[u]
           /\ UNCHANGED <<kind, pshared, owner, count, nusers>>
<1> USE DEF Shape, Outside
<1>1. /\ th[t].at = "spin" /\ UNCHANGED <<kind, pshared, owner, count, nusers>>
      /\ \A u \in Threads \ {t} : th'[u] = th[u]
  BY DEF Spin, kindVars, dataVars
<1>2. \A u \in Threads \ {t} : pc'[u] = pc[u]
  BY DEF Spin, WordRight, LLL!lll_trylock, LLL!lll_cond_trylock, LLL!CmpXchgOnce, LLL!Goto
<1>3. th'[t].at \in {"spin", "lll", "wait"}
  BY DEF Spin
<1>4. th'[t].cond = th[t].cond /\ th'[t].depth = th[t].depth
  BY DEF Spin
<1> QED
  BY <1>1, <1>2, <1>3, <1>4

\* Every step keeps the shape of the state.
LEMMA ShapeStep == ASSUME Shape, [Next]_vars PROVE Shape'
<1> USE DEF lockVars, kindVars, dataVars, statVars, Shape, Places, Outside
<1>1. ASSUME NEW t \in Threads, NEW c \in BOOLEAN, LockInvalid(t, c) PROVE Shape'
  <2>1. DOMAIN th' = Threads /\ \A u \in Threads \ {t} : th'[u] = th[u]
    BY <1>1 DEF LockInvalid
  <2>2. DOMAIN th'[t] = DOMAIN Outside /\ th'[t].at \in Places /\ th'[t].cond \in BOOLEAN
    BY <1>1 DEF LockInvalid
  <2>3. th'[t].depth = IF owner # t THEN 0 ELSE IF c THEN th[t].depth - 1 ELSE th[t].depth
    BY <1>1 DEF LockInvalid
  <2>4. UNCHANGED <<count, nusers, owner, kind, pshared>>
    BY <1>1 DEF LockInvalid, kindVars, dataVars
  <2> QED
    BY <2>1, <2>2, <2>3, <2>4
<1>2. ASSUME NEW t \in Threads, NEW c \in BOOLEAN, LockAgain(t, c) PROVE Shape'
  <2>1. UNCHANGED <<nusers, owner, kind, pshared>> /\ Bump(t, c)
    BY <1>2 DEF LockAgain
  <2>2. CASE BumpedCount = CountMod
    BY <2>1, <2>2 DEF Bump, Return
  <2>3. CASE BumpedCount # CountMod
    <3>1. count' \in Int
      BY <2>1, <2>3 DEF Bump, BumpedCount
    <3>2. /\ DOMAIN th' = Threads /\ \A u \in Threads \ {t} : th'[u] = th[u]
          /\ DOMAIN th'[t] = DOMAIN Outside /\ th'[t].at = "held" /\ th'[t].cond = FALSE
      BY <2>1, <2>3 DEF Bump
    <3>3. th'[t].depth \in Int
      BY <2>1, <2>3 DEF Bump
    <3> QED
      BY <2>1, <3>1, <3>2, <3>3
  <2> QED
    BY <2>2, <2>3
<1>3. ASSUME NEW t \in Threads, NEW c \in BOOLEAN, LockDeadlock(t, c) PROVE Shape'
  <2>1. Return(t, th[t].at, "EDEADLK") /\ UNCHANGED <<kindVars, dataVars>>
    BY <1>3 DEF LockDeadlock
  <2> HIDE DEF Shape, Places, Outside
  <2>2. /\ DOMAIN th' = Threads /\ DOMAIN th'[t] = DOMAIN Outside
        /\ \A u \in Threads \ {t} : th'[u] = th[u]
        /\ th'[t].at = th[t].at /\ th'[t].cond = FALSE /\ th'[t].depth = th[t].depth
    BY <2>1, ReturnEffect
  <2> USE DEF Shape, kindVars, dataVars
  <2> QED
    BY <2>1, <2>2
<1>4. ASSUME NEW t \in Threads, NEW c \in BOOLEAN, LockBegin(t, c) PROVE Shape'
  BY <1>4, KindsAssumption, CallAssumption DEF LockBegin, LockType
<1>5. ASSUME NEW t \in Threads, Probe(t) PROVE Shape'
  BY <1>5, KindsAssumption, CallAssumption DEF Probe
<1>6. ASSUME NEW t \in Threads, LowLevelLockCall(t) PROVE Shape'
  BY <1>6, KindsAssumption, CallAssumption DEF LowLevelLockCall, LLL!lll_lock,
     LLL!lll_cond_lock, LLL!CmpXchgOrWait, LLL!Goto
<1>7. ASSUME NEW t \in Threads, LowLevelStep(t) PROVE Shape'
  BY <1>7, KindsAssumption, CallAssumption DEF LowLevelStep, LLL!Step, LLL!FutexWait,
     LLL!LockXchg, LLL!UnlockStore, LLL!UnlockWake, LLL!sleeping, LLL!Goto
<1>8. ASSUME NEW t \in Threads, Interrupted(t) PROVE Shape'
  BY <1>8, KindsAssumption, CallAssumption DEF Interrupted, LLL!FutexInterrupted,
     LLL!Goto
<1>9. ASSUME NEW t \in Threads, Spin(t) PROVE Shape'
  BY <1>9, KindsAssumption, CallAssumption DEF Spin, LLL!lll_trylock,
     LLL!lll_cond_trylock, LLL!CmpXchgOnce, LLL!Goto
<1>10. ASSUME NEW t \in Threads, Acquired(t) PROVE Shape'
  BY <1>10, KindsAssumption, CallAssumption DEF Acquired, UsersOnLock
<1>11. ASSUME NEW t \in Threads, TrylockAgain(t) PROVE Shape'
  BY <1>11, KindsAssumption, CallAssumption DEF TrylockAgain, EnterTrylock, Plus1, Bump,
     BumpedCount, Return
<1>12. ASSUME NEW t \in Threads, Trylock(t) PROVE Shape'
  BY <1>12, KindsAssumption, CallAssumption DEF Trylock, EnterTrylock, LLL!lll_trylock,
     LLL!CmpXchgOnce, LLL!Goto
<1>13. ASSUME NEW t \in Threads, TrylockWon(t) PROVE Shape'
  BY <1>13, KindsAssumption, CallAssumption DEF TrylockWon
<1>14. ASSUME NEW t \in Threads, UnlockRefused(t) PROVE Shape'
  BY <1>14, KindsAssumption, CallAssumption DEF UnlockRefused, vars
<1>15. ASSUME NEW t \in Threads, NEW c \in BOOLEAN, UnlockOnce(t, c) PROVE Shape'
  BY <1>15, KindsAssumption, CallAssumption DEF UnlockOnce
<1>16. ASSUME NEW t \in Threads, NEW c \in BOOLEAN, UnlockBegin(t, c) PROVE Shape'
  BY <1>16, KindsAssumption, CallAssumption DEF UnlockBegin, UsersOnUnlock,
     OwnerOnUnlock
<1>17. ASSUME NEW t \in Threads, LowLevelUnlock(t) PROVE Shape'
  BY <1>17, KindsAssumption, CallAssumption DEF LowLevelUnlock, LLL!lll_unlock, LLL!Goto
<1>18. ASSUME NEW t \in Threads, Unlocked(t) PROVE Shape'
  BY <1>18, KindsAssumption, CallAssumption DEF Unlocked
<1>19. ASSUME NEW t \in Threads, Destroy(t) PROVE Shape'
  BY <1>19, KindsAssumption, CallAssumption DEF Destroy, InUse
<1>20. CASE Reinit
  BY <1>20, KindsAssumption, CallAssumption DEF Reinit, FreshMutex
<1>21. CASE UNCHANGED vars
  BY <1>21 DEF vars
<1> QED
  BY <1>1, <1>2, <1>3, <1>4, <1>5, <1>6, <1>7, <1>8, <1>9, <1>10, <1>11, <1>12, <1>13,
     <1>14, <1>15, <1>16, <1>17, <1>18, <1>19, <1>20, <1>21 DEF Next, Call, Release,
     Relock, Inner

\* Every thread is where its place in the mutex functions says.
PlacesRight == \A t \in Threads : PcAt(t) /\ CondAt(t)

\* Every step leaves a thread in the lll_* call that its place calls for.
LEMMA PlacesStep ==
    ASSUME Shape, WordRight, WordRight', PlacesRight, OwnerRight, [Next]_vars
    PROVE PlacesRight'
<1> USE DEF lockVars, kindVars, dataVars, statVars, Shape, Places, Outside, WordRight,
            PlacesRight, PcAt, CondAt
<1>1. ASSUME NEW t \in Threads, NEW c \in BOOLEAN, LockInvalid(t, c) PROVE PlacesRight'
  BY <1>1 DEF LockInvalid, EnterLock, LockType, Plus1, OwnerRight, Has
<1>2. ASSUME NEW t \in Threads, NEW c \in BOOLEAN, LockAgain(t, c) PROVE PlacesRight'
  BY <1>2 DEF LockAgain, EnterLock, LockType, Plus1, Bump, BumpedCount, Return,
     OwnerRight, Has
<1>3. ASSUME NEW t \in Threads, NEW c \in BOOLEAN, LockDeadlock(t, c) PROVE PlacesRight'
  BY <1>3 DEF LockDeadlock, EnterLock, LockType, Plus1, Return, OwnerRight, Has
<1>4. ASSUME NEW t \in Threads, NEW c \in BOOLEAN, LockBegin(t, c) PROVE PlacesRight'
  BY <1>4 DEF LockBegin, EnterLock, LockType, Plus1, OwnerRight, Has
<1>5. ASSUME NEW t \in Threads, Probe(t) PROVE PlacesRight'
  BY <1>5 DEF Probe, OwnerRight, Has
<1>6. ASSUME NEW t \in Threads, LowLevelLockCall(t) PROVE PlacesRight'
  BY <1>6 DEF LowLevelLockCall, LLL!lll_lock, LLL!lll_cond_lock, LLL!CmpXchgOrWait,
     LLL!Goto, OwnerRight, Has
<1>7. ASSUME NEW t \in Threads, LowLevelStep(t) PROVE PlacesRight'
  BY <1>7 DEF LowLevelStep, LLL!Step, LLL!FutexWait, LLL!LockXchg, LLL!UnlockStore,
     LLL!UnlockWake, LLL!sleeping, LLL!Goto, OwnerRight, Has
<1>8. ASSUME NEW t \in Threads, Interrupted(t) PROVE PlacesRight'
  BY <1>8 DEF Interrupted, LLL!FutexInterrupted, LLL!Goto, OwnerRight, Has
<1>9. ASSUME NEW t \in Threads, Spin(t) PROVE PlacesRight'
  BY <1>9 DEF Spin, LLL!lll_trylock, LLL!lll_cond_trylock, LLL!CmpXchgOnce, LLL!Goto,
     OwnerRight, Has
<1>10. ASSUME NEW t \in Threads, Acquired(t) PROVE PlacesRight'
  BY <1>10 DEF Acquired, UsersOnLock, OwnerRight, Has
<1>11. ASSUME NEW t \in Threads, TrylockAgain(t) PROVE PlacesRight'
  BY <1>11 DEF TrylockAgain, EnterTrylock, Plus1, Bump, BumpedCount, Return, OwnerRight,
     Has
<1>12. ASSUME NEW t \in Threads, Trylock(t) PROVE PlacesRight'
  BY <1>12 DEF Trylock, EnterTrylock, LLL!lll_trylock, LLL!CmpXchgOnce, LLL!Goto,
     OwnerRight, Has
<1>13. ASSUME NEW t \in Threads, TrylockWon(t) PROVE PlacesRight'
  BY <1>13 DEF TrylockWon, OwnerRight, Has
<1>14. ASSUME NEW t \in Threads, UnlockRefused(t) PROVE PlacesRight'
  BY <1>14 DEF UnlockRefused, vars, OwnerRight, Has
<1>15. ASSUME NEW t \in Threads, NEW c \in BOOLEAN, UnlockOnce(t, c) PROVE PlacesRight'
  BY <1>15 DEF UnlockOnce, OwnerRight, Has
<1>16. ASSUME NEW t \in Threads, NEW c \in BOOLEAN, UnlockBegin(t, c) PROVE PlacesRight'
  BY <1>16 DEF UnlockBegin, UsersOnUnlock, OwnerOnUnlock, OwnerRight, Has
<1>17. ASSUME NEW t \in Threads, LowLevelUnlock(t) PROVE PlacesRight'
  BY <1>17 DEF LowLevelUnlock, LLL!lll_unlock, LLL!Goto, OwnerRight, Has
<1>18. ASSUME NEW t \in Threads, Unlocked(t) PROVE PlacesRight'
  BY <1>18 DEF Unlocked, OwnerRight, Has
<1>19. ASSUME NEW t \in Threads, Destroy(t) PROVE PlacesRight'
  BY <1>19 DEF Destroy, InUse, OwnerRight, Has
<1>20. CASE Reinit
  BY <1>20 DEF Reinit, FreshMutex, OwnerRight, Has
<1>21. CASE UNCHANGED vars
  BY <1>21 DEF vars, OwnerRight, Has
<1> QED
  BY <1>1, <1>2, <1>3, <1>4, <1>5, <1>6, <1>7, <1>8, <1>9, <1>10, <1>11, <1>12, <1>13,
     <1>14, <1>15, <1>16, <1>17, <1>18, <1>19, <1>20, <1>21 DEF Next, Call, Release,
     Relock, Inner

\* owner is set after the lock word is won and cleared before it is freed, so
\* every step keeps it right.
LEMMA OwnerStep ==
    ASSUME Shape, WordRight, WordRight', PlacesRight, OwnerRight, UsersRight, [Next]_vars
    PROVE OwnerRight'
<1> USE DEF lockVars, kindVars, dataVars, statVars, Shape, Places, Outside, WordRight,
            PlacesRight, PcAt, CondAt, OwnerRight, Has
<1>1. ASSUME NEW t \in Threads, NEW c \in BOOLEAN, LockInvalid(t, c) PROVE OwnerRight'
  BY <1>1, ThreadsAssumption DEF LockInvalid, EnterLock, LockType, Plus1, UsersRight,
     DestroyedIdle
<1>2. ASSUME NEW t \in Threads, NEW c \in BOOLEAN, LockAgain(t, c) PROVE OwnerRight'
  BY <1>2, ThreadsAssumption DEF LockAgain, EnterLock, LockType, Plus1, Bump,
     BumpedCount, Return, UsersRight, DestroyedIdle
<1>3. ASSUME NEW t \in Threads, NEW c \in BOOLEAN, LockDeadlock(t, c) PROVE OwnerRight'
  BY <1>3, ThreadsAssumption DEF LockDeadlock, EnterLock, LockType, Plus1, Return,
     UsersRight, DestroyedIdle
<1>4. ASSUME NEW t \in Threads, NEW c \in BOOLEAN, LockBegin(t, c) PROVE OwnerRight'
  BY <1>4, ThreadsAssumption DEF LockBegin, EnterLock, LockType, Plus1, UsersRight,
     DestroyedIdle
<1>5. ASSUME NEW t \in Threads, Probe(t) PROVE OwnerRight'
  BY <1>5, ThreadsAssumption DEF Probe, UsersRight, DestroyedIdle
<1>6. ASSUME NEW t \in Threads, LowLevelLockCall(t) PROVE OwnerRight'
  BY <1>6, ThreadsAssumption DEF LowLevelLockCall, LLL!lll_lock, LLL!lll_cond_lock,
     LLL!CmpXchgOrWait, LLL!Goto, UsersRight, DestroyedIdle
<1>7. ASSUME NEW t \in Threads, LowLevelStep(t) PROVE OwnerRight'
  BY <1>7, ThreadsAssumption DEF LowLevelStep, LLL!Step, LLL!FutexWait, LLL!LockXchg,
     LLL!UnlockStore, LLL!UnlockWake, LLL!sleeping, LLL!Goto, UsersRight, DestroyedIdle
<1>8. ASSUME NEW t \in Threads, Interrupted(t) PROVE OwnerRight'
  BY <1>8, ThreadsAssumption DEF Interrupted, LLL!FutexInterrupted, LLL!Goto,
     UsersRight, DestroyedIdle
<1>9. ASSUME NEW t \in Threads, Spin(t) PROVE OwnerRight'
  BY <1>9, ThreadsAssumption DEF Spin, LLL!lll_trylock, LLL!lll_cond_trylock,
     LLL!CmpXchgOnce, LLL!Goto, UsersRight, DestroyedIdle
<1>10. ASSUME NEW t \in Threads, Acquired(t) PROVE OwnerRight'
  BY <1>10, ThreadsAssumption DEF Acquired, UsersOnLock, UsersRight, DestroyedIdle
<1>11. ASSUME NEW t \in Threads, TrylockAgain(t) PROVE OwnerRight'
  BY <1>11, ThreadsAssumption DEF TrylockAgain, EnterTrylock, Plus1, Bump, BumpedCount,
     Return, UsersRight, DestroyedIdle
<1>12. ASSUME NEW t \in Threads, Trylock(t) PROVE OwnerRight'
  BY <1>12, ThreadsAssumption DEF Trylock, EnterTrylock, LLL!lll_trylock,
     LLL!CmpXchgOnce, LLL!Goto, UsersRight, DestroyedIdle
<1>13. ASSUME NEW t \in Threads, TrylockWon(t) PROVE OwnerRight'
  BY <1>13, ThreadsAssumption DEF TrylockWon, UsersRight, DestroyedIdle
<1>14. ASSUME NEW t \in Threads, UnlockRefused(t) PROVE OwnerRight'
  BY <1>14, ThreadsAssumption DEF UnlockRefused, vars, UsersRight, DestroyedIdle
<1>15. ASSUME NEW t \in Threads, NEW c \in BOOLEAN, UnlockOnce(t, c) PROVE OwnerRight'
  BY <1>15, ThreadsAssumption DEF UnlockOnce, UsersRight, DestroyedIdle
<1>16. ASSUME NEW t \in Threads, NEW c \in BOOLEAN, UnlockBegin(t, c) PROVE OwnerRight'
  BY <1>16, ThreadsAssumption DEF UnlockBegin, UsersOnUnlock, OwnerOnUnlock, UsersRight,
     DestroyedIdle
<1>17. ASSUME NEW t \in Threads, LowLevelUnlock(t) PROVE OwnerRight'
  BY <1>17, ThreadsAssumption DEF LowLevelUnlock, LLL!lll_unlock, LLL!Goto, UsersRight,
     DestroyedIdle
<1>18. ASSUME NEW t \in Threads, Unlocked(t) PROVE OwnerRight'
  BY <1>18, ThreadsAssumption DEF Unlocked, UsersRight, DestroyedIdle
<1>19. ASSUME NEW t \in Threads, Destroy(t) PROVE OwnerRight'
  BY <1>19, ThreadsAssumption DEF Destroy, InUse, UsersRight, DestroyedIdle
<1>20. CASE Reinit
  BY <1>20, ThreadsAssumption DEF Reinit, FreshMutex, UsersRight, DestroyedIdle
<1>21. CASE UNCHANGED vars
  BY <1>21 DEF vars, UsersRight, DestroyedIdle
<1> QED
  BY <1>1, <1>2, <1>3, <1>4, <1>5, <1>6, <1>7, <1>8, <1>9, <1>10, <1>11, <1>12, <1>13,
     <1>14, <1>15, <1>16, <1>17, <1>18, <1>19, <1>20, <1>21 DEF Next, Call, Release,
     Relock, Inner

\* The ways a thread may enter or leave the count of users; the last one is
\* the waiter of a process-shared mutex whom lock refuses.
UsersMove(t) == \/ Users' = Users /\ UNCHANGED <<nusers, pshared>>
                \/ /\ t \notin Users /\ Users' = Users \cup {t}
                   /\ nusers' = nusers + 1 /\ pshared' = pshared
                \/ /\ t \in Users /\ Users' = Users \ {t}
                   /\ nusers' = nusers - 1 /\ pshared' = pshared
                \/ /\ pshared /\ t \in Users /\ Users' = Users \ {t}
                   /\ UNCHANGED <<nusers, pshared>>

\* UsersCount, in terms of Users.
LEMMA CountOfUsers ==
    /\ UsersCount <=> /\ Cardinality(Users) <= nusers
                      /\ ~pshared => nusers = Cardinality(Users)
    /\ UsersCount' <=> /\ Cardinality(Users') <= nusers'
                       /\ ~pshared' => nusers' = Cardinality(Users')
  BY DEF UsersCount, UsersExact, Users

\* If one thread enters or leaves the users, and nusers follows, the count
\* remains right.
LEMMA UsersCounted ==
    ASSUME Shape, UsersRight, NEW t \in Threads, UsersMove(t)
    PROVE UsersCount'
<1>1. IsFiniteSet(Users)
  BY FS_Subset, ThreadsAssumption DEF Users
<1>2. Cardinality(Users) \in Nat
  BY <1>1, FS_CardinalityType
<1>3. /\ Cardinality(Users \cup {t}) =
            IF t \in Users THEN Cardinality(Users) ELSE Cardinality(Users) + 1
      /\ Cardinality(Users \ {t}) =
            IF t \in Users THEN Cardinality(Users) - 1 ELSE Cardinality(Users)
  BY <1>1, FS_AddElement, FS_RemoveElement
<1>4. UsersCount <=> /\ Cardinality(Users) <= nusers
                     /\ ~pshared => nusers = Cardinality(Users)
  BY CountOfUsers
<1>5. UsersCount' <=> /\ Cardinality(Users') <= nusers'
                      /\ ~pshared' => nusers' = Cardinality(Users')
  BY CountOfUsers
<1>6. /\ Cardinality(Users) <= nusers /\ (~pshared => nusers = Cardinality(Users))
      /\ nusers \in Int
  BY <1>4 DEF UsersRight, Shape
<1>7. CASE Users' = Users /\ UNCHANGED <<nusers, pshared>>
  BY <1>5, <1>6, <1>7
<1>8. CASE /\ t \notin Users /\ Users' = Users \cup {t}
           /\ nusers' = nusers + 1 /\ pshared' = pshared
  BY <1>2, <1>3, <1>5, <1>6, <1>8
<1>9. CASE /\ t \in Users /\ Users' = Users \ {t}
           /\ nusers' = nusers - 1 /\ pshared' = pshared
  BY <1>2, <1>3, <1>5, <1>6, <1>9
<1>10. CASE /\ pshared /\ t \in Users /\ Users' = Users \ {t}
            /\ UNCHANGED <<nusers, pshared>>
  BY <1>2, <1>3, <1>5, <1>6, <1>10
<1> QED
  BY <1>7, <1>8, <1>9, <1>10 DEF UsersMove

\* destroy is refused as long as the count of users is not 0.
LEMMA DestroyedStep ==
    ASSUME Shape, PlacesRight, OwnerRight, UsersRight, [Next]_vars
    PROVE DestroyedIdle'
<1> USE DEF lockVars, kindVars, dataVars, statVars, Shape, Places, Outside, PlacesRight,
            PcAt, CondAt, UsersRight, DestroyedIdle
<1>1. ASSUME NEW t \in Threads, NEW c \in BOOLEAN, LockInvalid(t, c)
      PROVE  DestroyedIdle'
  BY <1>1, KindsAssumption DEF LockInvalid, EnterLock, LockType, Plus1, OwnerRight, Has
<1>2. ASSUME NEW t \in Threads, NEW c \in BOOLEAN, LockAgain(t, c) PROVE DestroyedIdle'
  BY <1>2, KindsAssumption DEF LockAgain, EnterLock, LockType, Plus1, Bump, BumpedCount,
     Return, OwnerRight, Has
<1>3. ASSUME NEW t \in Threads, NEW c \in BOOLEAN, LockDeadlock(t, c)
      PROVE  DestroyedIdle'
  BY <1>3, KindsAssumption DEF LockDeadlock, EnterLock, LockType, Plus1, Return,
     OwnerRight, Has
<1>4. ASSUME NEW t \in Threads, NEW c \in BOOLEAN, LockBegin(t, c) PROVE DestroyedIdle'
  BY <1>4, KindsAssumption DEF LockBegin, EnterLock, LockType, Plus1, OwnerRight, Has
<1>5. ASSUME NEW t \in Threads, Probe(t) PROVE DestroyedIdle'
  BY <1>5, KindsAssumption DEF Probe, OwnerRight, Has
<1>6. ASSUME NEW t \in Threads, LowLevelLockCall(t) PROVE DestroyedIdle'
  BY <1>6, KindsAssumption DEF LowLevelLockCall, LLL!lll_lock, LLL!lll_cond_lock,
     LLL!CmpXchgOrWait, LLL!Goto, OwnerRight, Has
<1>7. ASSUME NEW t \in Threads, LowLevelStep(t) PROVE DestroyedIdle'
  BY <1>7, KindsAssumption DEF LowLevelStep, LLL!Step, LLL!FutexWait, LLL!LockXchg,
     LLL!UnlockStore, LLL!UnlockWake, LLL!sleeping, LLL!Goto, OwnerRight, Has
<1>8. ASSUME NEW t \in Threads, Interrupted(t) PROVE DestroyedIdle'
  BY <1>8, KindsAssumption DEF Interrupted, LLL!FutexInterrupted, LLL!Goto, OwnerRight,
     Has
<1>9. ASSUME NEW t \in Threads, Spin(t) PROVE DestroyedIdle'
  BY <1>9, KindsAssumption DEF Spin, LLL!lll_trylock, LLL!lll_cond_trylock,
     LLL!CmpXchgOnce, LLL!Goto, OwnerRight, Has
<1>10. ASSUME NEW t \in Threads, Acquired(t) PROVE DestroyedIdle'
  BY <1>10, KindsAssumption DEF Acquired, UsersOnLock, OwnerRight, Has
<1>11. ASSUME NEW t \in Threads, TrylockAgain(t) PROVE DestroyedIdle'
  BY <1>11, KindsAssumption DEF TrylockAgain, EnterTrylock, Plus1, Bump, BumpedCount,
     Return, OwnerRight, Has
<1>12. ASSUME NEW t \in Threads, Trylock(t) PROVE DestroyedIdle'
  BY <1>12, KindsAssumption DEF Trylock, EnterTrylock, LLL!lll_trylock, LLL!CmpXchgOnce,
     LLL!Goto, OwnerRight, Has
<1>13. ASSUME NEW t \in Threads, TrylockWon(t) PROVE DestroyedIdle'
  BY <1>13, KindsAssumption DEF TrylockWon, OwnerRight, Has
<1>14. ASSUME NEW t \in Threads, UnlockRefused(t) PROVE DestroyedIdle'
  BY <1>14, KindsAssumption DEF UnlockRefused, vars, OwnerRight, Has
<1>15. ASSUME NEW t \in Threads, NEW c \in BOOLEAN, UnlockOnce(t, c)
       PROVE  DestroyedIdle'
  BY <1>15, KindsAssumption DEF UnlockOnce, OwnerRight, Has
<1>16. ASSUME NEW t \in Threads, NEW c \in BOOLEAN, UnlockBegin(t, c)
       PROVE  DestroyedIdle'
  BY <1>16, KindsAssumption DEF UnlockBegin, UsersOnUnlock, OwnerOnUnlock, OwnerRight,
     Has
<1>17. ASSUME NEW t \in Threads, LowLevelUnlock(t) PROVE DestroyedIdle'
  BY <1>17, KindsAssumption DEF LowLevelUnlock, LLL!lll_unlock, LLL!Goto, OwnerRight,
     Has
<1>18. ASSUME NEW t \in Threads, Unlocked(t) PROVE DestroyedIdle'
  BY <1>18, KindsAssumption DEF Unlocked, OwnerRight, Has
<1>19. ASSUME NEW t \in Threads, Destroy(t) PROVE DestroyedIdle'
  <2>1. CASE InUse
    BY <1>19, <2>1 DEF Destroy
  <2>2. CASE ~InUse
    <3>1. IsFiniteSet(Users) /\ Cardinality(Users) \in Nat
      BY FS_Subset, FS_CardinalityType, ThreadsAssumption DEF Users
    <3>2. Cardinality(Users) = 0
      BY <2>2, <3>1 DEF InUse, UsersCount
    <3>3. Users = {}
      BY <3>1, <3>2, FS_EmptySet
    <3> QED
      BY <1>19, <3>3 DEF Destroy, Users, UsesMutex
  <2> QED
    BY <2>1, <2>2
<1>20. CASE Reinit
  BY <1>20, KindsAssumption DEF Reinit, FreshMutex, OwnerRight, Has
<1>21. CASE UNCHANGED vars
  BY <1>21 DEF vars, OwnerRight, Has
<1> QED
  BY <1>1, <1>2, <1>3, <1>4, <1>5, <1>6, <1>7, <1>8, <1>9, <1>10, <1>11, <1>12, <1>13,
     <1>14, <1>15, <1>16, <1>17, <1>18, <1>19, <1>20, <1>21 DEF Next, Call, Release,
     Relock, Inner

\* Every call that makes a thread a user, or ends that, adjusts __nusers.
LEMMA UsersStep ==
    ASSUME Shape, Shape', WordRight, PlacesRight, OwnerRight, UsersRight, [Next]_vars
    PROVE UsersRight'
<1> USE DEF lockVars, kindVars, dataVars, statVars, Shape, Places, Outside, WordRight,
            PlacesRight, PcAt, CondAt, OwnerRight, Has
<1>1. ASSUME NEW t \in Threads, NEW c \in BOOLEAN, LockInvalid(t, c) PROVE UsersMove(t)
  BY <1>1 DEF LockInvalid, EnterLock, LockType, Plus1, UsersMove, Users, UsesMutex
<1>2. ASSUME NEW t \in Threads, NEW c \in BOOLEAN, LockAgain(t, c) PROVE UsersMove(t)
  BY <1>2 DEF LockAgain, EnterLock, LockType, Plus1, Bump, BumpedCount, Return,
     UsersMove, Users, UsesMutex
<1>3. ASSUME NEW t \in Threads, NEW c \in BOOLEAN, LockDeadlock(t, c) PROVE UsersMove(t)
  <2>1. Return(t, th[t].at, "EDEADLK") /\ UNCHANGED <<kindVars, dataVars>>
    BY <1>3 DEF LockDeadlock
  <2>2. th[t].at \in {"user", "held"} \/ th[t].at = "condwait"
    BY <1>3 DEF LockDeadlock, EnterLock
  <2> HIDE DEF Shape, Outside, PlacesRight, WordRight, OwnerRight
  <2>3. /\ DOMAIN th' = Threads /\ DOMAIN th'[t] = DOMAIN Outside
        /\ \A u \in Threads \ {t} : th'[u] = th[u]
        /\ th'[t].at = th[t].at /\ th'[t].cond = FALSE /\ th'[t].depth = th[t].depth
    BY <2>1, ReturnEffect
  <2>4. th[t].at \in {"user", "held"} => th[t].cond = FALSE
    BY DEF PlacesRight, Shape
  <2>5. UsesMutex(t)' <=> UsesMutex(t)
    BY <2>2, <2>3, <2>4 DEF UsesMutex
  <2>6. Users' = Users
    BY <2>3, <2>5 DEF Users, UsesMutex
  <2> QED
    BY <2>1, <2>6 DEF UsersMove
<1>4. ASSUME NEW t \in Threads, NEW c \in BOOLEAN, LockBegin(t, c) PROVE UsersMove(t)
  BY <1>4 DEF LockBegin, EnterLock, LockType, Plus1, UsersMove, Users, UsesMutex
<1>5. ASSUME NEW t \in Threads, Probe(t) PROVE UsersMove(t)
  BY <1>5 DEF Probe, UsersMove, Users, UsesMutex
<1>6. ASSUME NEW t \in Threads, LowLevelLockCall(t) PROVE UsersMove(t)
  BY <1>6 DEF LowLevelLockCall, LLL!lll_lock, LLL!lll_cond_lock, LLL!CmpXchgOrWait,
     LLL!Goto, UsersMove, Users, UsesMutex
<1>7. ASSUME NEW t \in Threads, LowLevelStep(t) PROVE UsersMove(t)
  BY <1>7 DEF LowLevelStep, LLL!Step, LLL!FutexWait, LLL!LockXchg, LLL!UnlockStore,
     LLL!UnlockWake, LLL!sleeping, LLL!Goto, UsersMove, Users, UsesMutex
<1>8. ASSUME NEW t \in Threads, Interrupted(t) PROVE UsersMove(t)
  BY <1>8 DEF Interrupted, LLL!FutexInterrupted, LLL!Goto, UsersMove, Users, UsesMutex
<1>9. ASSUME NEW t \in Threads, Spin(t) PROVE UsersMove(t)
  BY <1>9, SpinEffect DEF UsersMove, Users, UsesMutex
<1>10. ASSUME NEW t \in Threads, Acquired(t) PROVE UsersMove(t)
  BY <1>10 DEF Acquired, UsersOnLock, UsersMove, Users, UsesMutex
<1>11. ASSUME NEW t \in Threads, TrylockAgain(t) PROVE UsersMove(t)
  BY <1>11 DEF TrylockAgain, EnterTrylock, Plus1, Bump, BumpedCount, Return, UsersMove,
     Users, UsesMutex
<1>12. ASSUME NEW t \in Threads, Trylock(t) PROVE UsersMove(t)
  BY <1>12 DEF Trylock, EnterTrylock, LLL!lll_trylock, LLL!CmpXchgOnce, LLL!Goto,
     UsersMove, Users, UsesMutex
<1>13. ASSUME NEW t \in Threads, TrylockWon(t) PROVE UsersMove(t)
  BY <1>13 DEF TrylockWon, UsersMove, Users, UsesMutex
<1>14. ASSUME NEW t \in Threads, UnlockRefused(t) PROVE UsersMove(t)
  BY <1>14 DEF UnlockRefused, vars, UsersMove, Users, UsesMutex
<1>15. ASSUME NEW t \in Threads, NEW c \in BOOLEAN, UnlockOnce(t, c) PROVE UsersMove(t)
  BY <1>15 DEF UnlockOnce, UsersMove, Users, UsesMutex
<1>16. ASSUME NEW t \in Threads, NEW c \in BOOLEAN, UnlockBegin(t, c) PROVE UsersMove(t)
  BY <1>16 DEF UnlockBegin, UsersOnUnlock, OwnerOnUnlock, UsersMove, Users, UsesMutex
<1>17. ASSUME NEW t \in Threads, LowLevelUnlock(t) PROVE UsersMove(t)
  BY <1>17 DEF LowLevelUnlock, LLL!lll_unlock, LLL!Goto, UsersMove, Users, UsesMutex
<1>18. ASSUME NEW t \in Threads, Unlocked(t) PROVE UsersMove(t)
  BY <1>18 DEF Unlocked, UsersMove, Users, UsesMutex
<1>19. ASSUME NEW t \in Threads, Destroy(t) PROVE UsersMove(t)
  BY <1>19 DEF Destroy, InUse, UsersMove, Users, UsesMutex
<1>20. ASSUME Reinit PROVE UsersCount'
  <2>1. \A t \in Threads : th[t].at = "user" /\ ~th[t].cond
    BY <1>20 DEF Reinit, UsersRight, DestroyedIdle
  <2>2. Users = {} /\ Users' = Users
    BY <1>20, <2>1 DEF Reinit, Users, UsesMutex
  <2>3. nusers' = 0
    BY <1>20 DEF Reinit, FreshMutex
  <2>4. Cardinality(Users') = 0
    BY <2>2, FS_EmptySet
  <2> QED
    BY <2>3, <2>4, CountOfUsers
<1>21. ASSUME UNCHANGED vars PROVE UsersCount'
  <2>1. UNCHANGED <<th, nusers, pshared>>
    BY <1>21 DEF vars, kindVars, dataVars
  <2>2. Users' = Users
    BY <2>1 DEF Users, UsesMutex
  <2> QED
    BY <2>1, <2>2, CountOfUsers DEF UsersRight
<1>22. ASSUME NEW t \in Threads, UsersMove(t) PROVE UsersCount'
  BY <1>22, UsersCounted
<1>23. UsersCount'
  BY <1>1, <1>2, <1>3, <1>4, <1>5, <1>6, <1>7, <1>8, <1>9, <1>10, <1>11, <1>12, <1>13,
     <1>14, <1>15,
     <1>16, <1>17, <1>18, <1>19, <1>20, <1>21, <1>22
     DEF Next, Call, Release, Relock, Inner, UsersRight
<1> QED
  BY <1>23, DestroyedStep DEF UsersRight

\* Every step keeps the recursion count equal to the depth.
LEMMA DepthStep ==
    ASSUME Shape, WordRight, WordRight', PlacesRight, OwnerRight, DestroyedIdle, DepthRight,
           [Next]_vars
    PROVE DepthRight'
<1> USE DEF lockVars, kindVars, dataVars, statVars, Shape, Places, Outside, WordRight,
            PlacesRight, PcAt, CondAt, OwnerRight, Has, DepthRight
<1>1. ASSUME NEW t \in Threads, NEW c \in BOOLEAN, LockInvalid(t, c) PROVE DepthRight'
  BY <1>1, CallAssumption DEF LockInvalid, EnterLock, LockType, Plus1, DestroyedIdle
<1>2. ASSUME NEW t \in Threads, NEW c \in BOOLEAN, LockAgain(t, c) PROVE DepthRight'
  BY <1>2, CallAssumption DEF LockAgain, EnterLock, LockType, Plus1, Bump, BumpedCount,
     Return, DestroyedIdle
<1>3. ASSUME NEW t \in Threads, NEW c \in BOOLEAN, LockDeadlock(t, c) PROVE DepthRight'
  BY <1>3, CallAssumption DEF LockDeadlock, EnterLock, LockType, Plus1, Return,
     DestroyedIdle
<1>4. ASSUME NEW t \in Threads, NEW c \in BOOLEAN, LockBegin(t, c) PROVE DepthRight'
  BY <1>4, CallAssumption DEF LockBegin, EnterLock, LockType, Plus1, DestroyedIdle
<1>5. ASSUME NEW t \in Threads, Probe(t) PROVE DepthRight'
  BY <1>5, CallAssumption DEF Probe, DestroyedIdle
<1>6. ASSUME NEW t \in Threads, LowLevelLockCall(t) PROVE DepthRight'
  BY <1>6, CallAssumption DEF LowLevelLockCall, LLL!lll_lock, LLL!lll_cond_lock,
     LLL!CmpXchgOrWait, LLL!Goto, DestroyedIdle
<1>7. ASSUME NEW t \in Threads, LowLevelStep(t) PROVE DepthRight'
  BY <1>7, CallAssumption DEF LowLevelStep, LLL!Step, LLL!FutexWait, LLL!LockXchg,
     LLL!UnlockStore, LLL!UnlockWake, LLL!sleeping, LLL!Goto, DestroyedIdle
<1>8. ASSUME NEW t \in Threads, Interrupted(t) PROVE DepthRight'
  BY <1>8, CallAssumption DEF Interrupted, LLL!FutexInterrupted, LLL!Goto, DestroyedIdle
<1>9. ASSUME NEW t \in Threads, Spin(t) PROVE DepthRight'
  <2>1. \A u \in Threads : Has(u)' <=> Has(u)
    BY <1>9, SpinEffect
  <2>2. /\ \A u \in Threads : th'[u].at \in {"held", "condwait"} => u # t /\ th'[u] = th[u]
        /\ \A u \in Threads : th'[u].cond = th[u].cond /\ th'[u].depth = th[u].depth
        /\ \A u \in Threads \ {t} : pc'[u] = pc[u]
        /\ UNCHANGED <<kind, count>>
    BY <1>9, SpinEffect
  <2> HIDE DEF Shape, WordRight, PlacesRight, PcAt, CondAt, OwnerRight, Has
  <2> QED
    BY <2>1, <2>2
<1>10. ASSUME NEW t \in Threads, Acquired(t) PROVE DepthRight'
  BY <1>10, CallAssumption DEF Acquired, UsersOnLock, DestroyedIdle
<1>11. ASSUME NEW t \in Threads, TrylockAgain(t) PROVE DepthRight'
  BY <1>11, CallAssumption DEF TrylockAgain, EnterTrylock, Plus1, Bump, BumpedCount,
     Return, DestroyedIdle
<1>12. ASSUME NEW t \in Threads, Trylock(t) PROVE DepthRight'
  BY <1>12, CallAssumption DEF Trylock, EnterTrylock, LLL!lll_trylock, LLL!CmpXchgOnce,
     LLL!Goto, DestroyedIdle
<1>13. ASSUME NEW t \in Threads, TrylockWon(t) PROVE DepthRight'
  BY <1>13, CallAssumption DEF TrylockWon, DestroyedIdle
<1>14. ASSUME NEW t \in Threads, UnlockRefused(t) PROVE DepthRight'
  BY <1>14, CallAssumption DEF UnlockRefused, vars, DestroyedIdle
<1>15. ASSUME NEW t \in Threads, NEW c \in BOOLEAN, UnlockOnce(t, c) PROVE DepthRight'
  BY <1>15, CallAssumption DEF UnlockOnce, DestroyedIdle
<1>16. ASSUME NEW t \in Threads, NEW c \in BOOLEAN, UnlockBegin(t, c) PROVE DepthRight'
  BY <1>16, CallAssumption DEF UnlockBegin, UsersOnUnlock, OwnerOnUnlock, DestroyedIdle
<1>17. ASSUME NEW t \in Threads, LowLevelUnlock(t) PROVE DepthRight'
  BY <1>17, CallAssumption DEF LowLevelUnlock, LLL!lll_unlock, LLL!Goto, DestroyedIdle
<1>18. ASSUME NEW t \in Threads, Unlocked(t) PROVE DepthRight'
  BY <1>18, CallAssumption DEF Unlocked, DestroyedIdle
<1>19. ASSUME NEW t \in Threads, Destroy(t) PROVE DepthRight'
  BY <1>19, CallAssumption DEF Destroy, InUse, DestroyedIdle
<1>20. CASE Reinit
  BY <1>20, CallAssumption DEF Reinit, FreshMutex, DestroyedIdle
<1>21. CASE UNCHANGED vars
  BY <1>21 DEF vars, DestroyedIdle
<1> HIDE DEF lockVars, kindVars, dataVars, statVars, Shape, Places, Outside, WordRight,
            PlacesRight, PcAt, CondAt, OwnerRight, Has, DepthRight
<1> QED
  BY <1>1, <1>2, <1>3, <1>4, <1>5, <1>6, <1>7, <1>8, <1>9, <1>10, <1>11, <1>12, <1>13,
     <1>14, <1>15, <1>16, <1>17, <1>18, <1>19, <1>20, <1>21 DEF Next, Call, Release,
     Relock, Inner

-----------------------------------------------------------------------------
\* The inductive invariant of the fields, given that of the lock word.
Inv == Shape /\ PlacesRight /\ OwnerRight /\ UsersRight /\ DepthRight

\* A new mutex satisfies the invariant.
LEMMA InitInv == Init => Inv
<1> SUFFICES ASSUME Init PROVE Inv
  OBVIOUS
<1>1. Users = {}
  BY DEF Init, Outside, Users, UsesMutex
<1>2. UsersCount
  BY <1>1, CountOfUsers, FS_EmptySet DEF Init
<1>3. Shape
  <2>1. DOMAIN th = Threads /\ \A t \in Threads : th[t] = Outside
    BY DEF Init
  <2>2. Outside.at \in Places /\ Outside.cond \in BOOLEAN /\ Outside.depth \in Int
    BY DEF Outside, Places
  <2> QED
    BY <2>1, <2>2, KindsAssumption DEF Init, Shape
<1>4. \A t \in Threads : th[t].at = "user" /\ ~th[t].cond /\ pc[t] = "out"
  BY DEF Init, LLL!Init, Outside
<1>5. PlacesRight /\ OwnerRight /\ DestroyedIdle
  BY <1>4, ThreadsAssumption DEF Init, PlacesRight, PcAt, CondAt, OwnerRight, Has,
     DestroyedIdle
<1>6. DepthRight
  BY <1>4, CallAssumption DEF Init, DepthRight
<1> QED
  BY <1>2, <1>3, <1>5, <1>6 DEF Inv, UsersRight

\* Every step of the mutex functions preserves the invariant, given that of the
\* lock word.
LEMMA NextInv == Inv /\ LLLProofs!IInv /\ LLLProofs!IInv' /\ [Next]_vars => Inv'
<1>1. LLLProofs!IInv' => WordRight'
  BY DEF LLLProofs!IInv, LLLProofs!TypeOK, LLLProofs!MutualExclusion, LLLProofs!Labels,
         LLLProofs!Owning, WordRight
<1> QED
  BY <1>1, WordIsRight, ShapeStep, PlacesStep, OwnerStep, UsersStep, DepthStep DEF Inv,
     UsersRight

\* The invariant of the mutex holds in every reachable state.
THEOREM Invariance == Spec => []Inv
  BY InitInv, NextInv, LockWordInvariant, PTL DEF Spec

\* Whatever mix of lock, trylock, condition waits and kinds, one thread at a
\* time holds the mutex, __owner names it, and the assertion owner == 0 after
\* LLL_MUTEX_LOCK never fails.
THEOREM HolderIsOwnerHolds == Spec => []HolderIsOwner
<1>1. Inv /\ LLLProofs!IInv => HolderIsOwner
  BY WordIsRight DEF Inv, WordRight, PlacesRight, PcAt, OwnerRight, Has, HolderIsOwner
<1> QED
  BY <1>1, Invariance, LockWordInvariant, PTL

\* __nusers counts the holder and the condition waiters.
THEOREM UsersExactHolds == Spec => []UsersExact
<1>1. Inv => UsersExact
  BY DEF Inv, UsersRight, UsersCount
<1> QED
  BY <1>1, Invariance, PTL

\* In the mutex, too, no sleeper is forgotten: while one sleeps on the lock
\* word, the word says so or somebody is about to wake it.
THEOREM NoLostWakeupHolds == Spec => []LLL!NoLostWakeup
<1>1. LLLProofs!IInv => LLL!NoLostWakeup
  BY DEF LLLProofs!IInv, LLLProofs!NoLostWakeup, LLLProofs!sleeping, LLL!NoLostWakeup,
     LLL!sleeping
<1> QED
  BY <1>1, LockWordInvariant, PTL

\* The mutex as a lock: who has the lock word, and who waits for it.
MutexLock == INSTANCE AbstractLock
               WITH holders <- {t \in Threads : pc[t] \in {"in", "store"}},
                    trying  <- {t \in Threads : pc[t] \in {"syscall", "asleep", "xchg"}}

\* The mutex functions implement the abstract lock (safety part), whatever the kind:
\* spinning, trying, recursion and condition waits only request, acquire, release
\* or leave it alone.
THEOREM MutexIsLock == Spec => MutexLock!ASpec
<1>1. Init => MutexLock!AInit
  BY DEF Init, LLL!Init, MutexLock!AInit
<1>2. LLLProofs!IInv /\ [Next]_vars => [MutexLock!ANext]_(MutexLock!avars)
  <2>1. LLLProofs!IInv /\ [Next]_vars => [LLLProofs!Lock!ANext]_(LLLProofs!Lock!avars)
    BY LockWordStep, SameLockWord, LLLProofs!NextRefines
  <2> QED
    BY <2>1 DEF LLLProofs!Lock!ANext, LLLProofs!Lock!avars, LLLProofs!Lock!Request,
                LLLProofs!Lock!Acquire, LLLProofs!Lock!Release, LLLProofs!Owning,
                LLLProofs!Waiting, MutexLock!ANext, MutexLock!avars, MutexLock!Request,
                MutexLock!Acquire, MutexLock!Release
<1> QED
  BY <1>1, <1>2, LockWordInvariant, PTL DEF Spec, MutexLock!ASpec

\* The recursion count is the number of unlocks the program still owes.
THEOREM CountIsDepthHolds == Spec => []CountIsDepth
<1>1. Inv => CountIsDepth
  BY DEF Inv, DepthRight, CountIsDepth
<1> QED
  BY <1>1, Invariance, PTL

-----------------------------------------------------------------------------
(***************************************************************************)
(* The statistics.                                                         *)
(***************************************************************************)

\* The turns of the spin loop a call may still count.
TurnsLeft(t) == IF th[t].at = "spin" /\ ~th[t].cond THEN MaxAdaptiveCount + 1 - th[t].cnt ELSE 0
Turns == [t \in Threads |-> TurnsLeft(t)]

CountShape == /\ access_count \in [Threads -> Nat]
              /\ fail_count \in [Threads -> Nat]
              /\ trylock_fail_count \in [Threads -> Nat]
              /\ totalConflicts \in Nat

\* The loop of an adaptive mutex ends in time, and starts from 0.
SpinRight(t) ==
    /\ th[t].cnt \in Nat /\ th[t].max \in Int
    /\ th[t].at \notin {"spin", "lll", "wait"} => th[t].cnt = 0
    /\ th[t].at = "spin" => /\ th[t].cnt = 0 \/ (th[t].cnt <= th[t].max /\ th[t].max <= MaxAdaptiveCount)
                            /\ "adaptive" \in Kinds

LoopRight == spins \in Int /\ \A t \in Threads : SpinRight(t)

\* A failure is explained or a turn of a loop, and the accesses pay for the turns.
Explained == totalConflicts + Sum(trylock_fail_count, Threads)
Accounted ==
    /\ Explained <= Sum(fail_count, Threads)
    /\ Sum(fail_count, Threads) + Sum(Turns, Threads)
          <= Explained + (MaxAdaptiveCount + 1) * Sum(access_count, Threads)
    /\ "adaptive" \notin Kinds => Sum(fail_count, Threads) = Explained

StatsInv == CountShape /\ LoopRight /\ Accounted

-----------------------------------------------------------------------------
\* The number of turns is at most MAX_ADAPTIVE_COUNT.
LEMMA MaxSpinsBound == ASSUME spins \in Int PROVE MaxSpins \in Int /\ MaxSpins <= MaxAdaptiveCount
<1>1. spins * 2 + SpinBase \in Int /\ MaxAdaptiveCount \in Int
  BY SpinAssumption
<1> DEFINE n == spins * 2 + SpinBase
<1>2. \E x \in {MaxAdaptiveCount, n} : \A y \in {MaxAdaptiveCount, n} : x <= y
  <2> HIDE DEF n
  <2>1. CASE MaxAdaptiveCount <= n
    BY <1>1, <2>1 DEF n
  <2>2. CASE ~(MaxAdaptiveCount <= n)
    <3>1. n <= MaxAdaptiveCount /\ n <= n
      BY <1>1, <2>2 DEF n
    <3> QED
      BY <3>1
  <2> QED
    BY <2>1, <2>2
<1>3. /\ MaxSpins \in {MaxAdaptiveCount, n}
      /\ \A y \in {MaxAdaptiveCount, n} : MaxSpins <= y
  BY <1>2 DEF MaxSpins, Min
<1> QED
  BY <1>1, <1>3

\* What a step of t does to the statistics.
Moves(t) == \A u \in Threads : u # t => th'[u] = th[u]
Still(t) == /\ Moves(t) /\ UNCHANGED statVars /\ TurnsLeft(t)' <= TurnsLeft(t)
Entered(t) == /\ Moves(t) /\ access_count' = Plus1(access_count, t)
              /\ UNCHANGED <<fail_count, trylock_fail_count, totalConflicts>>
              /\ TurnsLeft(t)' <= TurnsLeft(t) + (MaxAdaptiveCount + 1)
TryFailed(t) == /\ Moves(t) /\ access_count' = Plus1(access_count, t)
                /\ fail_count' = Plus1(fail_count, t)
                /\ trylock_fail_count' = Plus1(trylock_fail_count, t)
                /\ UNCHANGED totalConflicts
                /\ TurnsLeft(t)' <= TurnsLeft(t)
Conflict(t) == /\ Moves(t) /\ fail_count' = Plus1(fail_count, t)
               /\ UNCHANGED <<access_count, trylock_fail_count>>
               /\ totalConflicts' = totalConflicts + 1
               /\ TurnsLeft(t)' <= TurnsLeft(t)
Turn(t) == /\ Moves(t) /\ fail_count' = Plus1(fail_count, t)
           /\ UNCHANGED <<access_count, trylock_fail_count, totalConflicts>>
           /\ TurnsLeft(t)' + 1 <= TurnsLeft(t)
           /\ "adaptive" \in Kinds

\* So every step: the statistics stand still, or one of the four counts.
LEMMA StatEffect ==
    ASSUME Shape, CountShape, LoopRight, [Next]_vars
    PROVE  \/ UNCHANGED <<statVars, th>>
           \/ \E t \in Threads : Still(t) \/ Entered(t) \/ TryFailed(t) \/ Conflict(t) \/ Turn(t)
<1> USE SpinAssumption DEF Shape, Places, Outside, LoopRight, SpinRight, TurnsLeft, Moves,
       Still, Entered, TryFailed, Conflict, Turn, lockVars, kindVars, dataVars, statVars
<1>1. ASSUME NEW t \in Threads, NEW c \in BOOLEAN, LockInvalid(t, c)
      PROVE  Still(t) \/ Entered(t)
  BY <1>1 DEF LockInvalid, EnterLock, LockType, Plus1
<1>2. ASSUME NEW t \in Threads, NEW c \in BOOLEAN, LockAgain(t, c)
      PROVE  Still(t) \/ Entered(t)
  BY <1>2 DEF LockAgain, EnterLock, LockType, Plus1, Bump, Return
<1>3. ASSUME NEW t \in Threads, NEW c \in BOOLEAN, LockDeadlock(t, c)
      PROVE  Still(t) \/ Entered(t)
  BY <1>3 DEF LockDeadlock, EnterLock, LockType, Plus1, Return
<1>4. ASSUME NEW t \in Threads, NEW c \in BOOLEAN, LockBegin(t, c)
      PROVE  Still(t) \/ Entered(t)
  BY <1>4 DEF LockBegin, EnterLock, LockType, Plus1
<1>5. ASSUME NEW t \in Threads, Probe(t) PROVE Still(t) \/ Conflict(t)
  BY <1>5 DEF Probe, Plus1
<1>6. ASSUME NEW t \in Threads, LowLevelLockCall(t) PROVE Still(t)
  BY <1>6 DEF LowLevelLockCall
<1>7. ASSUME NEW t \in Threads, LowLevelStep(t) PROVE Still(t)
  BY <1>7 DEF LowLevelStep
<1>8. ASSUME NEW t \in Threads, Interrupted(t) PROVE Still(t)
  BY <1>8 DEF Interrupted
<1>9. ASSUME NEW t \in Threads, Spin(t) PROVE Still(t) \/ Turn(t)
  BY <1>9, MaxSpinsBound DEF Spin, Plus1
<1>10. ASSUME NEW t \in Threads, Acquired(t) PROVE Still(t)
  BY <1>10 DEF Acquired
<1>11. ASSUME NEW t \in Threads, TrylockAgain(t) PROVE Entered(t)
  BY <1>11 DEF TrylockAgain, EnterTrylock, Plus1, Bump, Return
<1>12. ASSUME NEW t \in Threads, Trylock(t) PROVE Entered(t) \/ TryFailed(t)
  BY <1>12 DEF Trylock, EnterTrylock, TrylockFailures, Plus1
<1>13. ASSUME NEW t \in Threads, TrylockWon(t) PROVE Still(t)
  BY <1>13 DEF TrylockWon
<1>14. ASSUME NEW t \in Threads, UnlockRefused(t) PROVE Still(t)
  BY <1>14 DEF UnlockRefused, vars
<1>15. ASSUME NEW t \in Threads, NEW c \in BOOLEAN, UnlockOnce(t, c) PROVE Still(t)
  BY <1>15 DEF UnlockOnce
<1>16. ASSUME NEW t \in Threads, NEW c \in BOOLEAN, UnlockBegin(t, c) PROVE Still(t)
  BY <1>16 DEF UnlockBegin
<1>17. ASSUME NEW t \in Threads, LowLevelUnlock(t) PROVE Still(t)
  BY <1>17 DEF LowLevelUnlock
<1>18. ASSUME NEW t \in Threads, Unlocked(t) PROVE Still(t)
  BY <1>18 DEF Unlocked
<1>19. ASSUME NEW t \in Threads, Destroy(t) PROVE Still(t)
  BY <1>19 DEF Destroy
<1>20. CASE Reinit
  BY <1>20 DEF Reinit
<1>21. CASE UNCHANGED vars
  BY <1>21 DEF vars
<1> HIDE DEF Shape, Places, Outside, LoopRight, SpinRight, TurnsLeft, Moves,
       Still, Entered, TryFailed, Conflict, Turn, lockVars, kindVars, dataVars, statVars
<1> QED
  BY <1>1, <1>2, <1>3, <1>4, <1>5, <1>6, <1>7, <1>8, <1>9, <1>10, <1>11, <1>12, <1>13,
     <1>14, <1>15, <1>16, <1>17, <1>18, <1>19, <1>20, <1>21 DEF Next, Call, Release, Relock,
     Inner

\* Every step keeps the counters of the loop right.
LEMMA LoopStep == ASSUME Shape, LoopRight, [Next]_vars PROVE LoopRight'
<1> USE SpinAssumption DEF Shape, Places, Outside, LoopRight, SpinRight, lockVars, kindVars,
       dataVars, statVars
<1>1. ASSUME NEW t \in Threads, NEW c \in BOOLEAN, LockInvalid(t, c) PROVE LoopRight'
  BY <1>1 DEF LockInvalid, EnterLock, LockType
<1>2. ASSUME NEW t \in Threads, NEW c \in BOOLEAN, LockAgain(t, c) PROVE LoopRight'
  BY <1>2 DEF LockAgain, EnterLock, LockType, Bump, Return
<1>3. ASSUME NEW t \in Threads, NEW c \in BOOLEAN, LockDeadlock(t, c) PROVE LoopRight'
  BY <1>3 DEF LockDeadlock, EnterLock, LockType, Return
<1>4. ASSUME NEW t \in Threads, NEW c \in BOOLEAN, LockBegin(t, c) PROVE LoopRight'
  BY <1>4, KindsAssumption DEF LockBegin, EnterLock, LockType
<1>5. ASSUME NEW t \in Threads, Probe(t) PROVE LoopRight'
  BY <1>5 DEF Probe
<1>6. ASSUME NEW t \in Threads, LowLevelLockCall(t) PROVE LoopRight'
  BY <1>6 DEF LowLevelLockCall
<1>7. ASSUME NEW t \in Threads, LowLevelStep(t) PROVE LoopRight'
  BY <1>7 DEF LowLevelStep
<1>8. ASSUME NEW t \in Threads, Interrupted(t) PROVE LoopRight'
  BY <1>8 DEF Interrupted
<1>9. ASSUME NEW t \in Threads, Spin(t) PROVE LoopRight'
  <2>1. th'[t].cnt \in Nat /\ th'[t].max \in Int
    BY <1>9, MaxSpinsBound DEF Spin
  <2>2. /\ th'[t].at \in {"spin", "lll", "wait"} /\ UNCHANGED spins
        /\ \A u \in Threads \ {t} : th'[u] = th[u]
    BY <1>9 DEF Spin
  <2>3. ASSUME th'[t].at = "spin"
        PROVE  th'[t].cnt <= th'[t].max /\ th'[t].max <= MaxAdaptiveCount /\ "adaptive" \in Kinds
    BY <1>9, <2>3, MaxSpinsBound DEF Spin
  <2> QED
    BY <2>1, <2>2, <2>3
<1>10. ASSUME NEW t \in Threads, Acquired(t) PROVE LoopRight'
  BY <1>10 DEF Acquired, Quotient
<1>11. ASSUME NEW t \in Threads, TrylockAgain(t) PROVE LoopRight'
  BY <1>11 DEF TrylockAgain, EnterTrylock, Bump, Return
<1>12. ASSUME NEW t \in Threads, Trylock(t) PROVE LoopRight'
  BY <1>12 DEF Trylock, EnterTrylock, TrylockFailures
<1>13. ASSUME NEW t \in Threads, TrylockWon(t) PROVE LoopRight'
  BY <1>13 DEF TrylockWon
<1>14. ASSUME NEW t \in Threads, UnlockRefused(t) PROVE LoopRight'
  BY <1>14 DEF UnlockRefused, vars
<1>15. ASSUME NEW t \in Threads, NEW c \in BOOLEAN, UnlockOnce(t, c) PROVE LoopRight'
  BY <1>15 DEF UnlockOnce
<1>16. ASSUME NEW t \in Threads, NEW c \in BOOLEAN, UnlockBegin(t, c) PROVE LoopRight'
  BY <1>16 DEF UnlockBegin
<1>17. ASSUME NEW t \in Threads, LowLevelUnlock(t) PROVE LoopRight'
  BY <1>17 DEF LowLevelUnlock
<1>18. ASSUME NEW t \in Threads, Unlocked(t) PROVE LoopRight'
  BY <1>18 DEF Unlocked
<1>19. ASSUME NEW t \in Threads, Destroy(t) PROVE LoopRight'
  BY <1>19 DEF Destroy
<1>20. CASE Reinit
  BY <1>20 DEF Reinit, FreshMutex
<1>21. CASE UNCHANGED vars
  BY <1>21 DEF vars
<1> HIDE DEF Shape, Places, Outside, LoopRight, SpinRight, lockVars, kindVars, dataVars,
             statVars
<1> QED
  BY <1>1, <1>2, <1>3, <1>4, <1>5, <1>6, <1>7, <1>8, <1>9, <1>10, <1>11, <1>12, <1>13,
     <1>14, <1>15, <1>16, <1>17, <1>18, <1>19, <1>20, <1>21 DEF Next, Call, Release, Relock,
     Inner

\* One thread's value goes up by one, and so does the sum.
LEMMA SumPlus1 ==
    ASSUME NEW f \in [Threads -> Nat], NEW t \in Threads
    PROVE  Sum(Plus1(f, t), Threads) = Sum(f, Threads) + 1 /\ Plus1(f, t) \in [Threads -> Nat]
<1> DEFINE g == Plus1(f, t)
<1>1. /\ \A u \in Threads : f[u] \in Int /\ IsFiniteSet(Threads)
      /\ g[t] = f[t] + 1 /\ \A u \in Threads \ {t} : g[u] = f[u]
      /\ g \in [Threads -> Nat]
  BY ThreadsAssumption DEF Plus1
<1>2. g[t] \in Int /\ f[t] \in Int /\ Sum(f, Threads) \in Int
  BY <1>1, ThreadsAssumption, SumInt
<1> HIDE DEF g
<1>3. Sum(g, Threads) = Sum(f, Threads) + (g[t] - f[t])
  BY <1>1, <1>2, ThreadsAssumption, SumUpdate
<1>4. g[t] - f[t] = 1
  BY <1>1, <1>2
<1> QED
  BY <1>1, <1>2, <1>3, <1>4 DEF g

\* The turns that are left are whole numbers.
LEMMA TurnsInt ==
    ASSUME LoopRight
    PROVE  (\A t \in Threads : Turns[t] \in Int) /\ Sum(Turns, Threads) \in Int
<1>1. \A t \in Threads : Turns[t] \in Int
  BY SpinAssumption DEF LoopRight, SpinRight, Turns, TurnsLeft
<1> QED
  BY <1>1, ThreadsAssumption, SumInt

\* The turns that are left change by what they change for the thread that moves.
LEMMA TurnsMove ==
    ASSUME LoopRight, LoopRight', NEW t \in Threads, Moves(t)
    PROVE  Sum(Turns', Threads) = Sum(Turns, Threads) + (TurnsLeft(t)' - TurnsLeft(t))
<1>1. /\ \A u \in Threads : Turns[u] \in Int
      /\ \A u \in Threads : Turns'[u] \in Int
  BY SpinAssumption DEF LoopRight, SpinRight, Turns, TurnsLeft
<1>2. /\ \A u \in Threads \ {t} : Turns'[u] = Turns[u]
      /\ Turns'[t] = TurnsLeft(t)' /\ Turns[t] = TurnsLeft(t)
  BY DEF Moves, Turns, TurnsLeft
<1>3. Sum(Turns', Threads) = Sum(Turns, Threads) + (Turns'[t] - Turns[t])
  BY <1>1, <1>2, ThreadsAssumption, SumUpdate
<1> QED
  BY <1>2, <1>3

\* Every step keeps the accounts.
LEMMA AccountStep ==
    ASSUME Shape, StatsInv, LoopRight', [Next]_vars
    PROVE  CountShape' /\ Accounted'
<1> USE DEF StatsInv
<1> DEFINE A == Sum(access_count, Threads)
           F == Sum(fail_count, Threads)
           T == Sum(trylock_fail_count, Threads)
           L == Sum(Turns, Threads)
           M == MaxAdaptiveCount + 1
<1>a. A \in Int /\ F \in Int /\ T \in Int /\ totalConflicts \in Int
  BY ThreadsAssumption, SumInt DEF CountShape
<1>b. L \in Int /\ M \in Int
  BY TurnsInt, SpinAssumption
<1>c. /\ totalConflicts + T <= F /\ F + L <= totalConflicts + T + M * A
      /\ "adaptive" \notin Kinds => F = totalConflicts + T
  BY <1>a, <1>b DEF Accounted, Explained
<1>d. M * A \in Int /\ M * (A + 1) = M * A + M
  BY <1>a, <1>b
<1>1. CASE UNCHANGED <<statVars, th>>
  <2>1. UNCHANGED <<access_count, fail_count, trylock_fail_count, totalConflicts, th>>
    BY <1>1 DEF statVars
  <2>2. Turns' = Turns
    BY <2>1 DEF Turns, TurnsLeft
  <2> QED
    BY <2>1, <2>2 DEF CountShape, Accounted, Explained
<1>2. ASSUME NEW t \in Threads,
             Still(t) \/ Entered(t) \/ TryFailed(t) \/ Conflict(t) \/ Turn(t)
      PROVE  CountShape' /\ Accounted'
  <2> DEFINE l == TurnsLeft(t)
             m == TurnsLeft(t)'
             B == Sum(access_count', Threads)
             G == Sum(fail_count', Threads)
             U == Sum(trylock_fail_count', Threads)
             K == Sum(Turns', Threads)
             c == totalConflicts'
  <2>1. K = L + (m - l) /\ l \in Int /\ m \in Int
    <3>1. Moves(t)
      BY <1>2 DEF Still, Entered, TryFailed, Conflict, Turn
    <3>2. l \in Int /\ m \in Int
      BY SpinAssumption DEF LoopRight, SpinRight, TurnsLeft
    <3> QED
      BY <3>1, <3>2, TurnsMove
  <2>2. /\ Sum(Plus1(access_count, t), Threads) = A + 1
        /\ Sum(Plus1(fail_count, t), Threads) = F + 1
        /\ Sum(Plus1(trylock_fail_count, t), Threads) = T + 1
        /\ Plus1(access_count, t) \in [Threads -> Nat]
        /\ Plus1(fail_count, t) \in [Threads -> Nat]
        /\ Plus1(trylock_fail_count, t) \in [Threads -> Nat]
    BY SumPlus1 DEF CountShape
  <2>3. CountShape'
    BY <1>2, <2>2 DEF CountShape, Still, Entered, TryFailed, Conflict, Turn, statVars
  <2>4. \/ B = A /\ G = F /\ U = T /\ c = totalConflicts /\ m <= l
        \/ B = A + 1 /\ G = F /\ U = T /\ c = totalConflicts /\ m <= l + M
        \/ B = A + 1 /\ G = F + 1 /\ U = T + 1 /\ c = totalConflicts /\ m <= l
        \/ B = A /\ G = F + 1 /\ U = T /\ c = totalConflicts + 1 /\ m <= l
        \/ B = A /\ G = F + 1 /\ U = T /\ c = totalConflicts /\ m + 1 <= l /\ "adaptive" \in Kinds
    <3>1. CASE Still(t)
      BY <3>1 DEF Still, statVars
    <3>2. CASE Entered(t)
      BY <2>2, <3>2 DEF Entered
    <3>3. CASE TryFailed(t)
      BY <2>2, <3>3 DEF TryFailed
    <3>4. CASE Conflict(t)
      BY <2>2, <3>4 DEF Conflict
    <3>5. CASE Turn(t)
      BY <2>2, <3>5 DEF Turn
    <3> QED
      BY <1>2, <3>1, <3>2, <3>3, <3>4, <3>5
  <2>5. M >= 0
    BY SpinAssumption
  <2> HIDE DEF l, m, A, F, T, L, M, B, G, U, K, c
  <2>6. /\ c + U <= G /\ G + K <= c + U + M * B
        /\ "adaptive" \notin Kinds => G = c + U
    BY <1>a, <1>b, <1>c, <1>d, <2>1, <2>4, <2>5
  <2> QED
    BY <2>3, <2>6 DEF Accounted, Explained, M, B, G, U, K, c
<1> QED
  BY <1>1, <1>2, StatEffect

\* The accounts hold in every reachable state.
LEMMA StatsInvariant == Spec => []StatsInv
<1>1. Init => StatsInv
  <2> SUFFICES ASSUME Init PROVE StatsInv
    OBVIOUS
  <2>1. \A t \in Threads : th[t] = Outside
    BY DEF Init
  <2>2. CountShape
    BY DEF Init, CountShape
  <2>3. LoopRight
    BY <2>1 DEF Init, LoopRight, SpinRight, Outside
  <2>4. \A t \in Threads : Turns[t] = 0
    BY <2>1 DEF Turns, TurnsLeft, Outside
  <2>5. /\ Sum(Turns, Threads) = 0 /\ Sum(access_count, Threads) = 0
        /\ Sum(fail_count, Threads) = 0 /\ Sum(trylock_fail_count, Threads) = 0
    BY <2>4, ThreadsAssumption, SumZero DEF Init
  <2>6. Accounted
    BY <2>5, SpinAssumption DEF Init, Accounted, Explained
  <2> QED
    BY <2>2, <2>3, <2>6 DEF StatsInv
<1>2. Inv /\ StatsInv /\ [Next]_vars => StatsInv'
  BY LoopStep, AccountStep DEF Inv, StatsInv
<1> QED
  BY Invariance, <1>1, <1>2, PTL DEF Spec

\* Every failure is a counted conflict, a failed trylock or a turn of the spin
\* loop, and a call takes no more turns than the loop allows.
THEOREM ConflictsAccountedHolds == Spec => []ConflictsAccounted
<1>1. StatsInv => ConflictsAccounted
  <2> SUFFICES ASSUME StatsInv PROVE ConflictsAccounted
    OBVIOUS
  <2>1. /\ SumOf(trylock_fail_count) = Sum(trylock_fail_count, Threads)
        /\ SumOf(fail_count) = Sum(fail_count, Threads)
        /\ SumOf(access_count) = Sum(access_count, Threads)
    BY DEF SumOf, Sum
  <2>2. \A t \in Threads : Turns[t] \in Nat
    BY SpinAssumption DEF StatsInv, LoopRight, SpinRight, Turns, TurnsLeft
  <2>3. Sum(Turns, Threads) \in Nat
    BY <2>2, ThreadsAssumption, SumNat
  <2>4. /\ Sum(fail_count, Threads) \in Int /\ Sum(access_count, Threads) \in Int
        /\ Explained \in Int
    BY ThreadsAssumption, SumInt DEF StatsInv, CountShape, Explained
  <2>5. (MaxAdaptiveCount + 1) * Sum(access_count, Threads) \in Int
    BY <2>4, SpinAssumption
  <2> QED
    BY <2>1, <2>3, <2>4, <2>5 DEF StatsInv, Accounted, Explained, ConflictsAccounted
<1> QED
  BY StatsInvariant, <1>1, PTL
=============================================================================
