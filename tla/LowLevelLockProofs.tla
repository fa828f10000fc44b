------------------------- MODULE LowLevelLockProofs -------------------------
(***************************************************************************)
(* Theorems about LowLevelLock, for every set of threads.                  *)
(***************************************************************************)
EXTENDS LowLevelLock, TLAPS

(***************************************************************************)
(* TypeOK, MutualExclusion and NoLostWakeup are inductive only together:   *)
(* the decrement of lll_unlock stays in 0..2 because an owner's word is    *)
(* not 0, and a sleeper's wakeup is on its way after the decrement because *)
(* only the owner performs it.                                             *)
(***************************************************************************)
IInv == TypeOK /\ MutualExclusion /\ NoLostWakeup

\* The initial state satisfies the inductive invariant.
LEMMA InitIInv == Init => IInv
  BY DEF Init, IInv, TypeOK, MutualExclusion, NoLostWakeup, Labels, Owning, sleeping

\* Every instruction and system call of lll_lock, lll_trylock and lll_unlock
\* preserves the inductive invariant.
LEMMA NextIInv == IInv /\ [Next]_vars => IInv'
<1> SUFFICES ASSUME IInv, [Next]_vars PROVE IInv'
  OBVIOUS
<1> USE DEF IInv, TypeOK, MutualExclusion, NoLostWakeup, Labels, Owning, sleeping, Goto
<1>1. ASSUME NEW t \in Threads, NEW v \in {1, 2}, CmpXchgOrWait(t, v) PROVE IInv'
  BY <1>1 DEF CmpXchgOrWait
<1>2. ASSUME NEW t \in Threads, NEW v \in {1, 2}, CmpXchgOnce(t, v) PROVE IInv'
  BY <1>2 DEF CmpXchgOnce
<1>3. ASSUME NEW t \in Threads, lll_unlock(t) PROVE IInv'
  BY <1>3 DEF lll_unlock
<1>4. ASSUME NEW t \in Threads, FutexWait(t) PROVE IInv'
  BY <1>4 DEF FutexWait
<1>5. ASSUME NEW t \in Threads, FutexInterrupted(t) PROVE IInv'
  BY <1>5 DEF FutexInterrupted
<1>6. ASSUME NEW t \in Threads, LockXchg(t) PROVE IInv'
  BY <1>6 DEF LockXchg
<1>7. ASSUME NEW t \in Threads, UnlockStore(t) PROVE IInv'
  BY <1>7 DEF UnlockStore
<1>8. ASSUME NEW t \in Threads, UnlockWake(t) PROVE IInv'
  BY <1>8 DEF UnlockWake
<1>9. CASE UNCHANGED vars
  BY <1>9 DEF vars
<1>10. ASSUME NEW t \in Threads, Call(t) PROVE IInv'
  BY <1>10, <1>1, <1>2, <1>3
     DEF Call, lll_lock, lll_cond_lock, lll_trylock, lll_cond_trylock
<1> QED
  BY <1>4, <1>5, <1>6, <1>7, <1>8, <1>9, <1>10 DEF Next, Step

\* The inductive invariant holds in every reachable state.
THEOREM Invariance == Spec => []IInv
  BY InitIInv, NextIInv, PTL DEF Spec

\* The lock word is always 0, 1 or 2: no sequence of lll_unlock's decrements
\* and lll_lock's exchanges drives it out of range.
THEOREM TypeCorrect == Spec => []TypeOK
  BY Invariance, PTL DEF IInv

\* Two threads never own the lock, whatever mix of lll_lock, lll_trylock and
\* their cond variants the program calls.
THEOREM MutualExclusionHolds == Spec => []MutualExclusion
  BY Invariance, PTL DEF IInv

\* No thread sleeps in FUTEX_WAIT without a wakeup being on its way.
THEOREM NoLostWakeupHolds == Spec => []NoLostWakeup
  BY Invariance, PTL DEF IInv

-----------------------------------------------------------------------------
(***************************************************************************)
(* The refinement.  Only three kinds of step are visible in the abstract   *)
(* lock: a failed cmpxchg (Request), a cmpxchg or xchg that finds 0        *)
(* (Acquire) and the decrement or store that writes 0 (Release).           *)
(***************************************************************************)
\* The initial state is an initial state of the abstract lock.
LEMMA InitRefines == Init => Lock!AInit
  BY DEF Init, Lock!AInit, Owning, Waiting

\* Every step is a step of the abstract lock or leaves it unchanged.
LEMMA NextRefines == IInv /\ [Next]_vars => [Lock!ANext]_(Lock!avars)
<1> SUFFICES ASSUME IInv, [Next]_vars PROVE [Lock!ANext]_(Lock!avars)
  OBVIOUS
<1> USE DEF IInv, TypeOK, MutualExclusion, Labels, Owning, Waiting, sleeping, Goto,
            Lock!ANext, Lock!avars, Lock!Request, Lock!Acquire, Lock!Release
<1>1. ASSUME NEW t \in Threads, NEW v \in {1, 2}, CmpXchgOrWait(t, v)
      PROVE Lock!Request(t) \/ Lock!Acquire(t)
  BY <1>1 DEF CmpXchgOrWait
<1>2. ASSUME NEW t \in Threads, NEW v \in {1, 2}, CmpXchgOnce(t, v)
      PROVE Lock!Acquire(t) \/ UNCHANGED Lock!avars
  BY <1>2 DEF CmpXchgOnce
<1>3. ASSUME NEW t \in Threads, lll_unlock(t)
      PROVE Lock!Release(t) \/ UNCHANGED Lock!avars
  BY <1>3 DEF lll_unlock
<1>4. ASSUME NEW t \in Threads, FutexWait(t) PROVE UNCHANGED Lock!avars
  BY <1>4 DEF FutexWait
<1>5. ASSUME NEW t \in Threads, FutexInterrupted(t) PROVE UNCHANGED Lock!avars
  BY <1>5 DEF FutexInterrupted
<1>6. ASSUME NEW t \in Threads, LockXchg(t)
      PROVE Lock!Acquire(t) \/ UNCHANGED Lock!avars
  BY <1>6 DEF LockXchg
<1>7. ASSUME NEW t \in Threads, UnlockStore(t) PROVE Lock!Release(t)
  BY <1>7 DEF UnlockStore
<1>8. ASSUME NEW t \in Threads, UnlockWake(t) PROVE UNCHANGED Lock!avars
  BY <1>8 DEF UnlockWake
<1>9. CASE UNCHANGED vars
  BY <1>9 DEF vars
<1>10. ASSUME NEW t \in Threads, Call(t) PROVE [Lock!ANext]_(Lock!avars)
  BY <1>10, <1>1, <1>2, <1>3
     DEF Call, lll_lock, lll_cond_lock, lll_trylock, lll_cond_trylock
<1> QED
  BY <1>4, <1>5, <1>6, <1>7, <1>8, <1>9, <1>10 DEF Next, Step

\* The futex lock implements the abstract lock (safety part): every behaviour
\* of the instructions is a behaviour of AbstractLock.
THEOREM Refinement == Spec => ImplementsLockSafely
  BY InitRefines, NextRefines, Invariance, PTL
     DEF Spec, ImplementsLockSafely, Lock!ASpec
=============================================================================
