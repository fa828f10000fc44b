------------------------------ MODULE XThread -------------------------------
(***************************************************************************)
(* The thread registry of SyncPerf (class xthread): every thread gets an   *)
(* index, and the run of the program is cut into levels, serial phases     *)
(* (one thread alive) alternating with parallel ones.                      *)
(*                                                                         *)
(* allocThreadIndex and markThreadExit run under one global lock, so each  *)
(* is one action; between them and the real pthread_create or pthread_join *)
(* any other thread may run.  Time is left out: a level has started, and   *)
(* its elapsed time has been taken or not.                                 *)
(***************************************************************************)
EXTENDS Naturals, FiniteSets

CONSTANTS
    MaxThreads,         \* xdefines::MAX_THREADS
    MaxAliveThreads,    \* xdefines::MAX_ALIVE_THREADS
    MaxThreadLevels,    \* xdefines::MAX_THREAD_LEVELS, length of _threadLevelInfo
    None

ASSUME SizesAssumption == /\ MaxThreads \in Nat \ {0}
                          /\ MaxAliveThreads \in Nat \ {0}
                          /\ MaxThreadLevels \in Nat \ {0}
ASSUME NoneAssumption == None \notin Nat

Indices == 0 .. MaxThreads - 1

\* A level costs a thread or the join of one, so there are no more than these,
\* whether or not _threadLevelInfo has room for them.
Levels == 0 .. 2 * MaxThreads

VARIABLES
    _threadIndex, _aliveThreads, _isMultithreading, _threadLevel,
    _threadLevelInfo,   \* [beginIndex, endIndex, state] of each level
    _threads,           \* the thread_t structures, with the life of the thread
    process             \* "running", "aborted" or "exited"

counters == <<_threadIndex, _aliveThreads, _isMultithreading>>
levelVars == <<_threadLevel, _threadLevelInfo>>
vars == <<counters, levelVars, _threads, process>>

\* life: none, allocated (index taken, pthread_create not yet done), running,
\* finished, joined or failed (pthread_create refused).  creating and joining
\* are locals of thread_create and thread_join.
NoThread == [life |-> "none", detached |-> FALSE, pindex |-> 0, levelIndex |-> 0,
             childBeginIndex |-> 0, childEndIndex |-> 0, hasRuntime |-> FALSE,
             creating |-> None, joining |-> None]

NoLevel == [beginIndex |-> 0, endIndex |-> 0, state |-> "unused"]

\* startThreadLevelInfo and stopThreadLevelInfo on the entry of one level.
Started(index) == [beginIndex |-> index, endIndex |-> index, state |-> "started"]
Stopped(info) == [info EXCEPT !.state = "stopped"]

\* initialize(): the initial thread has index 0 and opens level 0.
Init ==
    /\ _threadIndex = 1
    /\ _aliveThreads = 1
    /\ _isMultithreading = FALSE
    /\ _threadLevel = 0
    /\ _threadLevelInfo = [l \in Levels |-> IF l = 0 THEN Started(0) ELSE NoLevel]
    /\ _threads = [i \in Indices |-> IF i = 0 THEN [NoThread EXCEPT !.life = "running"] ELSE NoThread]
    /\ process = "running"

\* The thread is executing program code.
Free(t) == /\ _threads[t].life = "running"
           /\ _threads[t].creating = None
           /\ _threads[t].joining = None

-----------------------------------------------------------------------------
\* "Check whether we have created too many threads or there are too many
\* alive threads now."
TooMany == _threadIndex >= MaxThreads \/ _aliveThreads >= MaxAliveThreads

\* Stop this level, start the next one.
EnterLevel(index) ==
    /\ _threadLevel' = _threadLevel + 1
    /\ _threadLevelInfo' = [_threadLevelInfo EXCEPT ![_threadLevel] = Stopped(@),
                                                    ![_threadLevel + 1] = Started(index)]

updateThreadLevelInfo(index) ==
    /\ _threadLevelInfo' =
          [_threadLevelInfo EXCEPT ![_threadLevel].endIndex = IF @ < index THEN index ELSE @]
    /\ UNCHANGED _threadLevel

\* MUTANT of AliveAfterAlloc: the first thread of a phase is not counted.
AliveAfterAlloc_First == IF _aliveThreads = 1 /\ _threadLevel > 0 THEN 1 ELSE _aliveThreads + 1

AliveAfterAlloc == _aliveThreads + 1

\* The end of the creator's child range: reset by the first thread of a
\* parallel phase, raised by the others.
ChildEnd(p, index) ==
    IF _aliveThreads = 1 \/ index > _threads[p].childEndIndex
      THEN index ELSE _threads[p].childEndIndex

\* thread_create, first half: allocThreadIndex for a thread that t creates.
\* Only the first thread of a parallel phase resets the creator's child range.
allocThreadIndex(t) ==
    /\ Free(t)
    /\ ~TooMany
    /\ LET index == _threadIndex
           first == _aliveThreads = 1
       IN /\ _threadIndex' = index + 1
          /\ _aliveThreads' = AliveAfterAlloc
          /\ _isMultithreading' = TRUE
          /\ IF first THEN EnterLevel(index) ELSE updateThreadLevelInfo(index)
          /\ _threads' =
                [_threads EXCEPT
                    ![index] = [NoThread EXCEPT !.life = "allocated", !.pindex = t,
                                                !.levelIndex = _threadLevel],
                    ![t].creating = index,
                    ![t].childBeginIndex = IF first THEN index ELSE @,
                    ![t].childEndIndex = ChildEnd(t, index)]
    /\ UNCHANGED process

\* The check fails: the process is stopped, and its counters with it.
allocAborts(t) ==
    /\ Free(t)
    /\ TooMany
    /\ process' = "aborted"
    /\ UNCHANGED <<counters, levelVars, _threads>>

\* thread_create, second half: the real pthread_create, which may refuse.
\* Its result is handed on; nothing is taken back.
CreateReturns(t, ok) ==
    /\ _threads[t].creating # None
    /\ LET c == _threads[t].creating
       IN _threads' = [_threads EXCEPT ![c].life = IF ok THEN "running" ELSE "failed",
                                       ![t].creating = None]
    /\ UNCHANGED <<counters, levelVars, process>>

\* startThread: the start routine returns and the runtime is recorded, or the
\* thread calls pthread_exit and is gone without.  The initial thread may do the
\* latter; when it returns from main, that is exit().
ThreadFinishes(t, returns) ==
    /\ Free(t)
    /\ t = 0 => ~returns
    /\ _threads' = [_threads EXCEPT ![t].life = "finished", ![t].hasRuntime = returns]
    /\ UNCHANGED <<counters, levelVars, process>>

\* pthread_detach is not intercepted.
Detach(t) ==
    /\ _threads[t].life \in {"running", "finished"}
    /\ ~_threads[t].detached
    /\ \A u \in Indices : _threads[u].joining # t
    /\ _threads' = [_threads EXCEPT ![t].detached = TRUE]
    /\ UNCHANGED <<counters, levelVars, process>>

\* thread_join, first half: the real pthread_join has returned 0.
JoinReturns(t, c) ==
    /\ Free(t)
    /\ _threads[c].life = "finished" /\ ~_threads[c].detached
    /\ _threads' = [_threads EXCEPT ![t].joining = c, ![c].life = "joined"]
    /\ UNCHANGED <<counters, levelVars, process>>

\* MUTANT of LastOne: the test is made before the decrement.
LastOne_Early(alive) == alive + 1 = 1

LastOne(alive) == alive = 1

\* thread_join, second half: markThreadExit.
markThreadExit(t) ==
    /\ _threads[t].joining # None
    /\ LET alive == _aliveThreads - 1
       IN /\ _aliveThreads' = alive
          /\ IF LastOne(alive)
               THEN /\ _isMultithreading' = FALSE
                    /\ EnterLevel(_threadIndex)
               ELSE UNCHANGED <<_isMultithreading, levelVars>>
    /\ _threads' = [_threads EXCEPT ![t].joining = None]
    /\ UNCHANGED <<_threadIndex, process>>

\* exit(), called by a thread or when the last one has ended: finalize() stops
\* the current level without taking the lock.
Finalize(t) ==
    /\ Free(t) \/ \A u \in Indices : _threads[u].life # "running"
    /\ process' = "exited"
    /\ _threadLevelInfo' = [_threadLevelInfo EXCEPT ![_threadLevel] = Stopped(@)]
    /\ UNCHANGED <<counters, _threadLevel, _threads>>

-----------------------------------------------------------------------------
Step(t) == \/ allocThreadIndex(t) \/ allocAborts(t)
           \/ \E ok \in BOOLEAN : CreateReturns(t, ok) \/ ThreadFinishes(t, ok)
           \/ Detach(t)
           \/ \E c \in Indices : JoinReturns(t, c)
           \/ markThreadExit(t)
           \/ Finalize(t)

Ended == process # "running" /\ UNCHANGED vars

Next == (process = "running" /\ \E t \in Indices : Step(t)) \/ Ended

Spec == Init /\ [][Next]_vars

-----------------------------------------------------------------------------
\* The phase flag, the count of threads and the level agree: a program is
\* multithreaded exactly in the levels with an odd number.
PhasesAlternate == /\ _isMultithreading <=> _aliveThreads > 1
                   /\ _isMultithreading <=> _threadLevel % 2 = 1

\* The count of alive threads never falls short: in a phase that counts as
\* serial no second thread can run, however joins and creations interleave.
Executing == {i \in Indices : _threads[i].life \in {"allocated", "running"}}
NeverUndercounts == Cardinality(Executing) <= _aliveThreads

\* Every level before the current one has its elapsed time, the current one is
\* being timed, and no later one has been touched.
LevelsTimed ==
    \A l \in Levels :
        _threadLevelInfo[l].state =
            IF l < _threadLevel THEN "stopped"
            ELSE IF l > _threadLevel THEN "unused"
            ELSE IF process = "exited" THEN "stopped" ELSE "started"

\* The threads of the parallel levels partition the indices: every created
\* thread lies in the range of exactly one of them.
InLevel(i, l) == _threadLevelInfo[l].beginIndex <= i /\ i <= _threadLevelInfo[l].endIndex
ParallelLevels == {l \in 0 .. _threadLevel : l % 2 = 1}
OneLevelPerThread ==
    \A i \in 1 .. _threadIndex - 1 :
        Cardinality({l \in ParallelLevels : InLevel(i, l)}) = 1

\* However creations, joins and detached threads interleave, the three views
\* of a phase agree, the levels are timed without a gap up to the exit, and
\* they partition the threads.
LevelsRight == PhasesAlternate /\ LevelsTimed /\ OneLevelPerThread

\* "Total threads we can support is MAX_THREADS": the array of levels is long
\* enough for as many threads.
LevelsWithinArray == _threadLevel < MaxThreadLevels
=============================================================================
