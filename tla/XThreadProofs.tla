---------------------------- MODULE XThreadProofs ----------------------------
(***************************************************************************)
(* Theorems about XThread, for every number of threads and of alive        *)
(* threads.                                                                *)
(*                                                                         *)
(* The steps are first reduced to their effects on the fields that matter  *)
(* (Effect): which thread is where in its life, who creates and who joins  *)
(* whom, and where each level begins and ends.  The invariant counts the   *)
(* threads alive through these: a joined thread is struck off by the one   *)
(* thread that joined it, so each thread is counted until then, and once.  *)
(***************************************************************************)
EXTENDS XThread, FiniteSetTheorems, TLAPS

\* The registry as the proofs see it: where each thread is in its life, which
\* thread it is creating or joining, and the fields of the levels.
Life == [i \in Indices |-> _threads[i].life]
Creating == [i \in Indices |-> _threads[i].creating]
Joining == [i \in Indices |-> _threads[i].joining]

Begin == [l \in Levels |-> _threadLevelInfo[l].beginIndex]
End == [l \in Levels |-> _threadLevelInfo[l].endIndex]
State == [l \in Levels |-> _threadLevelInfo[l].state]

threadsView == <<Life, Creating, Joining>>
levelsView == <<_threadLevel, Begin, End, State>>

\* The shapes of the two arrays.
Shape == /\ DOMAIN _threads = Indices
         /\ \A i \in Indices : DOMAIN _threads[i] = DOMAIN NoThread
         /\ DOMAIN _threadLevelInfo = Levels
         /\ \A l \in Levels : DOMAIN _threadLevelInfo[l] = DOMAIN NoLevel

\* A level costs the creation of a thread or the join of one; the array of
\* levels of the model is therefore long enough.
CountsRight == /\ _threadIndex \in 1 .. MaxThreads
               /\ _aliveThreads \in Nat \ {0}
               /\ _threadLevel \in Nat
               /\ _isMultithreading \in BOOLEAN
               /\ _threadLevel + _aliveThreads + 1 <= 2 * _threadIndex

\* The indices up to _threadIndex are taken; a thread creates, and joins, one
\* thread at a time, and no two threads create or join the same one.
ThreadsRight ==
    /\ \A i \in Indices : Life[i] = "none" <=> i >= _threadIndex
    /\ \A t \in Indices : Creating[t] # None =>
          /\ Creating[t] \in Indices
          /\ Life[t] = "running" /\ Life[Creating[t]] = "allocated"
    /\ \A t \in Indices : Joining[t] # None =>
          /\ Joining[t] \in Indices
          /\ Life[t] = "running" /\ Life[Joining[t]] = "joined"
    /\ \A t, u \in Indices :
          /\ Creating[t] = Creating[u] /\ Creating[t] # None => t = u
          /\ Joining[t] = Joining[u] /\ Joining[t] # None => t = u

\* What _aliveThreads counts: every thread that is neither joined nor about to be
\* struck off by its joiner.  Detached threads and failed creations stay in.
Alive == {i \in Indices : \/ Life[i] \in {"allocated", "running", "finished", "failed"}
                          \/ \E t \in Indices : Joining[t] = i}

AliveCounted == IsFiniteSet(Alive) /\ Cardinality(Alive) = _aliveThreads

\* LevelsTimed, in terms of State.
TimesRight ==
    \A l \in Levels :
        State[l] = IF l < _threadLevel THEN "stopped"
                   ELSE IF l > _threadLevel THEN "unused"
                   ELSE IF process = "exited" THEN "stopped" ELSE "started"

\* InLevel, in terms of Begin and End.
Covers(i, l) == Begin[l] <= i /\ i <= End[l]

\* The parallel levels partition the indices of the created threads, and the
\* current one, if it is parallel, ends at the last index.
RangesRight ==
    /\ \A l \in ParallelLevels :
          /\ Begin[l] \in Nat \ {0} /\ End[l] \in Nat
          /\ Begin[l] <= End[l] /\ End[l] < _threadIndex
    /\ \A i \in 1 .. _threadIndex - 1 : \E l \in ParallelLevels : Covers(i, l)
    /\ \A i \in 1 .. _threadIndex - 1 : \A l, k \in ParallelLevels :
          Covers(i, l) /\ Covers(i, k) => l = k
    /\ _aliveThreads > 1 => End[_threadLevel] = _threadIndex - 1

\* The inductive invariant.
Inv == /\ Shape /\ CountsRight /\ ThreadsRight /\ AliveCounted
       /\ PhasesAlternate /\ TimesRight /\ RangesRight

\* The current level and the next one lie within the array.
LEMMA LevelRoom ==
    ASSUME CountsRight
    PROVE  _threadLevel \in Levels /\ _threadLevel + 1 \in Levels
  BY SizesAssumption DEF CountsRight, Levels

\* What EnterLevel does to the levels.
EnterEffect(index) ==
    /\ _threadLevel' = _threadLevel + 1
    /\ Begin' = [Begin EXCEPT ![_threadLevel + 1] = index]
    /\ End' = [End EXCEPT ![_threadLevel + 1] = index]
    /\ State' = [State EXCEPT ![_threadLevel] = "stopped", ![_threadLevel + 1] = "started"]

\* EnterLevel has this effect.
LEMMA Enter ==
    ASSUME Shape, CountsRight, NEW index, EnterLevel(index)
    PROVE  EnterEffect(index)
<1>1. _threadLevel + 1 # _threadLevel /\ _threadLevel + 1 \in Levels /\ _threadLevel \in Levels
  BY LevelRoom DEF CountsRight
<1>2. \A l \in Levels :
        _threadLevelInfo'[l] = IF l = _threadLevel + 1 THEN Started(index)
                               ELSE IF l = _threadLevel THEN Stopped(_threadLevelInfo[l])
                               ELSE _threadLevelInfo[l]
  BY <1>1 DEF EnterLevel, Shape
<1>3. /\ Started(index).beginIndex = index /\ Started(index).endIndex = index
      /\ Started(index).state = "started"
  BY DEF Started
<1>4. \A l \in Levels :
        /\ Stopped(_threadLevelInfo[l]).beginIndex = _threadLevelInfo[l].beginIndex
        /\ Stopped(_threadLevelInfo[l]).endIndex = _threadLevelInfo[l].endIndex
        /\ Stopped(_threadLevelInfo[l]).state = "stopped"
  BY DEF Stopped, Shape, NoLevel
<1>5. Begin' = [Begin EXCEPT ![_threadLevel + 1] = index]
  BY <1>1, <1>2, <1>3, <1>4 DEF Begin
<1>6. End' = [End EXCEPT ![_threadLevel + 1] = index]
  BY <1>1, <1>2, <1>3, <1>4 DEF End
<1>7. State' = [State EXCEPT ![_threadLevel] = "stopped", ![_threadLevel + 1] = "started"]
  BY <1>1, <1>2, <1>3, <1>4 DEF State
<1> QED
  BY <1>5, <1>6, <1>7 DEF EnterLevel, EnterEffect

\* What allocThreadIndex does: the new index was free, and the current level
\* ends there.
AllocEffect(t) ==
    /\ _threadIndex \in Indices \ {t} /\ _threadIndex + 1 <= MaxThreads
    /\ Life[t] = "running" /\ Creating[t] = None /\ Joining[t] = None
    /\ _threadIndex' = _threadIndex + 1
    /\ _aliveThreads' = _aliveThreads + 1
    /\ _isMultithreading' = TRUE
    /\ process' = process
    /\ Life' = [Life EXCEPT ![_threadIndex] = "allocated"]
    /\ Creating' = [Creating EXCEPT ![t] = _threadIndex]
    /\ Joining' = Joining
    /\ IF _aliveThreads = 1
         THEN EnterEffect(_threadIndex)
         ELSE /\ End' = [End EXCEPT ![_threadLevel] = _threadIndex]
              /\ UNCHANGED <<_threadLevel, Begin, State>>

\* allocThreadIndex has this effect.
LEMMA Alloc ==
    ASSUME Inv, NEW t \in Indices, allocThreadIndex(t) PROVE AllocEffect(t) /\ Shape'
<1> USE SizesAssumption DEF Inv, Shape, CountsRight, Indices
<1>1. /\ _threadIndex \in Indices \ {t} /\ _threadIndex + 1 <= MaxThreads
      /\ Life[_threadIndex] = "none"
      /\ Creating[_threadIndex] = None
      /\ Joining[_threadIndex] = None
      /\ Life[t] = "running" /\ Creating[t] = None /\ Joining[t] = None
  <2>1. Free(t) /\ ~TooMany
    BY DEF allocThreadIndex
  <2>2. Life[t] = "running" /\ Creating[t] = None /\ Joining[t] = None
    BY <2>1 DEF Free, Life, Creating, Joining
  <2>3. _threadIndex \in Indices /\ _threadIndex + 1 <= MaxThreads
    BY <2>1 DEF TooMany
  <2>4. Life[_threadIndex] = "none"
    BY <2>3 DEF ThreadsRight
  <2> QED
    BY <2>2, <2>3, <2>4 DEF ThreadsRight
<1> DEFINE w == [NoThread EXCEPT !.life = "allocated", !.pindex = t,
                                 !.levelIndex = _threadLevel]
<1>2. /\ DOMAIN w = DOMAIN NoThread /\ w.life = "allocated"
      /\ w.creating = None /\ w.joining = None
  BY DEF NoThread
<1> HIDE DEF w
<1>3. PICK b, e :
         _threads' = [_threads EXCEPT ![_threadIndex] = w, ![t].creating = _threadIndex,
                                      ![t].childBeginIndex = b, ![t].childEndIndex = e]
  BY DEF allocThreadIndex, w
<1>4. \A i \in Indices : i # t /\ i # _threadIndex => _threads'[i] = _threads[i]
  BY <1>1, <1>3
<1>5. _threads'[_threadIndex] = w /\ DOMAIN _threads' = Indices
  BY <1>1, <1>3
<1>6. _threads'[t] = [_threads[t] EXCEPT !.creating = _threadIndex, !.childBeginIndex = b,
                                         !.childEndIndex = e]
  BY <1>1, <1>3
<1>7. /\ DOMAIN _threads'[t] = DOMAIN NoThread
      /\ _threads'[t].life = _threads[t].life
      /\ _threads'[t].creating = _threadIndex
      /\ _threads'[t].joining = _threads[t].joining
  <2> USE <1>1, <1>6 DEF NoThread
  <2>1. DOMAIN _threads'[t] = DOMAIN NoThread
    OBVIOUS
  <2>2. _threads'[t].life = _threads[t].life
    OBVIOUS
  <2>3. _threads'[t].creating = _threadIndex
    OBVIOUS
  <2>4. _threads'[t].joining = _threads[t].joining
    OBVIOUS
  <2> QED
    BY <2>1, <2>2, <2>3, <2>4
<1>8. /\ Life' = [Life EXCEPT ![_threadIndex] = "allocated"]
      /\ Creating' = [Creating EXCEPT ![t] = _threadIndex]
      /\ Joining' = Joining
  <2> USE <1>1, <1>2, <1>4, <1>5, <1>7
  <2>1. Life' = [Life EXCEPT ![_threadIndex] = "allocated"]
    BY DEF Life
  <2>2. Creating' = [Creating EXCEPT ![t] = _threadIndex]
    BY DEF Creating
  <2>3. Joining' = Joining
    BY DEF Joining
  <2> QED
    BY <2>1, <2>2, <2>3
<1>9. DOMAIN _threads' = Indices /\ \A i \in Indices : DOMAIN _threads'[i] = DOMAIN NoThread
  BY <1>1, <1>2, <1>4, <1>5, <1>7
<1>10. /\ _threadIndex' = _threadIndex + 1
       /\ _aliveThreads' = _aliveThreads + 1
       /\ _isMultithreading' = TRUE
       /\ process' = process
       /\ IF _aliveThreads = 1 THEN EnterLevel(_threadIndex)
          ELSE updateThreadLevelInfo(_threadIndex)
  BY DEF allocThreadIndex, AliveAfterAlloc
<1>11. CASE _aliveThreads = 1
  <2>1. EnterLevel(_threadIndex)
    BY <1>10, <1>11
  <2>2. EnterEffect(_threadIndex)
    BY <2>1, Enter
  <2>3. /\ DOMAIN _threadLevelInfo' = Levels
        /\ \A l \in Levels : DOMAIN _threadLevelInfo'[l] = DOMAIN NoLevel
    BY <2>1, LevelRoom DEF EnterLevel, Started, Stopped, NoLevel
  <2> QED
    BY <1>1, <1>8, <1>9, <1>10, <1>11, <2>2, <2>3 DEF AllocEffect
<1>12. CASE _aliveThreads # 1
  <2>1. _threadLevel \in Levels /\ _threadLevel' = _threadLevel
    BY <1>10, <1>12, LevelRoom DEF updateThreadLevelInfo
  <2>2. _threadLevelInfo[_threadLevel].endIndex < _threadIndex
    BY <1>12, <2>1 DEF RangesRight, End
  <2>3. _threadLevelInfo' = [_threadLevelInfo EXCEPT ![_threadLevel].endIndex = _threadIndex]
    BY <1>10, <1>12, <2>2 DEF updateThreadLevelInfo
  <2>4. /\ DOMAIN _threadLevelInfo' = Levels
        /\ \A l \in Levels : DOMAIN _threadLevelInfo'[l] = DOMAIN NoLevel
        /\ End' = [End EXCEPT ![_threadLevel] = _threadIndex]
        /\ Begin' = Begin /\ State' = State
    BY <2>1, <2>3 DEF NoLevel, Begin, End, State
  <2> QED
    BY <1>1, <1>8, <1>9, <1>10, <1>12, <2>1, <2>4 DEF AllocEffect
<1> QED
  BY <1>11, <1>12

countsView == <<_threadIndex, _aliveThreads, _isMultithreading>>

\* What the return of the real pthread_create does.
CreateEffect(t, life) ==
    /\ Creating[t] # None
    /\ Life' = [Life EXCEPT ![Creating[t]] = life]
    /\ Creating' = [Creating EXCEPT ![t] = None]
    /\ UNCHANGED <<countsView, levelsView, Joining, process>>

\* CreateReturns has this effect.
LEMMA Create ==
    ASSUME Inv, NEW t \in Indices, NEW ok \in BOOLEAN, CreateReturns(t, ok)
    PROVE  CreateEffect(t, IF ok THEN "running" ELSE "failed") /\ Shape'
<1> DEFINE c == _threads[t].creating
           life == IF ok THEN "running" ELSE "failed"
<1>1. c # None /\ c = Creating[t] /\ c \in Indices
  BY DEF CreateReturns, Inv, ThreadsRight, Creating
<1>2. _threads' = [_threads EXCEPT ![c].life = life, ![t].creating = None]
  BY DEF CreateReturns
<1> HIDE DEF c, life
<1>3. /\ DOMAIN _threads' = Indices
      /\ \A i \in Indices :
            /\ DOMAIN _threads'[i] = DOMAIN NoThread
            /\ _threads'[i].life = IF i = c THEN life ELSE _threads[i].life
            /\ _threads'[i].creating = IF i = t THEN None ELSE _threads[i].creating
            /\ _threads'[i].joining = _threads[i].joining
  BY <1>1, <1>2 DEF Inv, Shape, NoThread
<1>4. UNCHANGED <<countsView, levelsView, process, _threadLevelInfo>>
  BY DEF CreateReturns, counters, levelVars, countsView, levelsView, Begin, End, State
<1>5. Life' = [Life EXCEPT ![c] = life]
  BY <1>1, <1>3 DEF Life
<1>6. Creating' = [Creating EXCEPT ![t] = None]
  BY <1>1, <1>3 DEF Creating
<1>7. Joining' = Joining
  BY <1>1, <1>3 DEF Joining
<1> QED
  BY <1>1, <1>3, <1>4, <1>5, <1>6, <1>7 DEF CreateEffect, Inv, Shape, life

\* What the end of a thread does.
FinishEffect(t) ==
    /\ Life[t] = "running" /\ Creating[t] = None /\ Joining[t] = None
    /\ Life' = [Life EXCEPT ![t] = "finished"]
    /\ UNCHANGED <<countsView, levelsView, Creating, Joining, process>>

\* ThreadFinishes has this effect.
LEMMA Finish ==
    ASSUME Inv, NEW t \in Indices, NEW ok \in BOOLEAN, ThreadFinishes(t, ok)
    PROVE  FinishEffect(t) /\ Shape'
<1>1. /\ DOMAIN _threads' = Indices
      /\ \A i \in Indices :
            /\ DOMAIN _threads'[i] = DOMAIN NoThread
            /\ _threads'[i].life = IF i = t THEN "finished" ELSE _threads[i].life
            /\ _threads'[i].creating = _threads[i].creating
            /\ _threads'[i].joining = _threads[i].joining
  BY DEF ThreadFinishes, Inv, Shape, NoThread
<1>2. Life' = [Life EXCEPT ![t] = "finished"]
  BY <1>1 DEF Life
<1>3. Creating' = Creating /\ Joining' = Joining
  BY <1>1 DEF Creating, Joining
<1>4. Life[t] = "running" /\ Creating[t] = None /\ Joining[t] = None
  BY DEF ThreadFinishes, Free, Life, Creating, Joining
<1>5. UNCHANGED <<countsView, levelsView, process, _threadLevelInfo>>
  BY DEF ThreadFinishes, counters, levelVars, countsView, levelsView, Begin, End, State
<1> QED
  BY <1>1, <1>2, <1>3, <1>4, <1>5 DEF FinishEffect, Inv, Shape

\* pthread_detach changes nothing that the registry counts.
LEMMA Detaching ==
    ASSUME Inv, NEW t \in Indices, Detach(t)
    PROVE  UNCHANGED <<threadsView, countsView, levelsView, process>> /\ Shape'
<1>1. /\ DOMAIN _threads' = Indices
      /\ \A i \in Indices :
            /\ DOMAIN _threads'[i] = DOMAIN NoThread
            /\ _threads'[i].life = _threads[i].life
            /\ _threads'[i].creating = _threads[i].creating
            /\ _threads'[i].joining = _threads[i].joining
  BY DEF Detach, Inv, Shape, NoThread
<1>2. UNCHANGED threadsView
  BY <1>1 DEF threadsView, Life, Creating, Joining
<1>3. UNCHANGED <<countsView, levelsView, process, _threadLevelInfo>>
  BY DEF Detach, counters, levelVars, countsView, levelsView, Begin, End, State
<1> QED
  BY <1>1, <1>2, <1>3 DEF Inv, Shape

\* What the return of the real pthread_join does.
JoinEffect(t, c) ==
    /\ Life[t] = "running" /\ Creating[t] = None /\ Joining[t] = None
    /\ Life[c] = "finished"
    /\ Life' = [Life EXCEPT ![c] = "joined"]
    /\ Joining' = [Joining EXCEPT ![t] = c]
    /\ UNCHANGED <<countsView, levelsView, Creating, process>>

\* JoinReturns has this effect.
LEMMA Join ==
    ASSUME Inv, NEW t \in Indices, NEW c \in Indices, JoinReturns(t, c)
    PROVE  JoinEffect(t, c) /\ Shape'
<1>1. /\ DOMAIN _threads' = Indices
      /\ \A i \in Indices :
            /\ DOMAIN _threads'[i] = DOMAIN NoThread
            /\ _threads'[i].life = IF i = c THEN "joined" ELSE _threads[i].life
            /\ _threads'[i].creating = _threads[i].creating
            /\ _threads'[i].joining = IF i = t THEN c ELSE _threads[i].joining
  BY DEF JoinReturns, Inv, Shape, NoThread
<1>2. Life' = [Life EXCEPT ![c] = "joined"]
  BY <1>1 DEF Life
<1>3. Creating' = Creating
  BY <1>1 DEF Creating
<1>4. Joining' = [Joining EXCEPT ![t] = c]
  BY <1>1 DEF Joining
<1>5. Life[t] = "running" /\ Creating[t] = None /\ Joining[t] = None /\ Life[c] = "finished"
  BY DEF JoinReturns, Free, Life, Creating, Joining
<1>6. UNCHANGED <<countsView, levelsView, process, _threadLevelInfo>>
  BY DEF JoinReturns, counters, levelVars, countsView, levelsView, Begin, End, State
<1> QED
  BY <1>1, <1>2, <1>3, <1>4, <1>5, <1>6 DEF JoinEffect, Inv, Shape

\* What markThreadExit does.
ExitEffect(t) ==
    /\ Joining[t] # None
    /\ Joining' = [Joining EXCEPT ![t] = None]
    /\ _aliveThreads' = _aliveThreads - 1
    /\ IF _aliveThreads' = 1
         THEN _isMultithreading' = FALSE /\ EnterEffect(_threadIndex)
         ELSE UNCHANGED <<_isMultithreading, levelsView>>
    /\ UNCHANGED <<_threadIndex, Life, Creating, process>>

\* markThreadExit has this effect.
LEMMA MarkExit ==
    ASSUME Inv, NEW t \in Indices, markThreadExit(t)
    PROVE  ExitEffect(t) /\ Shape'
<1>1. /\ DOMAIN _threads' = Indices
      /\ \A i \in Indices :
            /\ DOMAIN _threads'[i] = DOMAIN NoThread
            /\ _threads'[i].life = _threads[i].life
            /\ _threads'[i].creating = _threads[i].creating
            /\ _threads'[i].joining = IF i = t THEN None ELSE _threads[i].joining
  BY DEF markThreadExit, Inv, Shape, NoThread
<1>2. Life' = Life /\ Creating' = Creating
  BY <1>1 DEF Life, Creating
<1>3. Joining' = [Joining EXCEPT ![t] = None]
  BY <1>1 DEF Joining
<1>4. Joining[t] # None
  BY DEF markThreadExit, Joining
<1>5. /\ _aliveThreads' = _aliveThreads - 1
      /\ UNCHANGED <<_threadIndex, process>>
      /\ IF _aliveThreads' = 1
           THEN _isMultithreading' = FALSE /\ EnterLevel(_threadIndex)
           ELSE UNCHANGED <<_isMultithreading, _threadLevel, _threadLevelInfo>>
  BY DEF markThreadExit, LastOne, levelVars
<1>6. CASE _aliveThreads' = 1
  <2>1. EnterLevel(_threadIndex)
    BY <1>5, <1>6
  <2>2. EnterEffect(_threadIndex)
    BY <2>1, Enter DEF Inv
  <2>3. /\ DOMAIN _threadLevelInfo' = Levels
        /\ \A l \in Levels : DOMAIN _threadLevelInfo'[l] = DOMAIN NoLevel
    BY <2>1, LevelRoom DEF Inv, Shape, EnterLevel, Started, Stopped, NoLevel
  <2> QED
    BY <1>1, <1>2, <1>3, <1>4, <1>5, <1>6, <2>2, <2>3 DEF ExitEffect, Shape
<1>7. CASE _aliveThreads' # 1
  <2>1. UNCHANGED <<_isMultithreading, levelsView, _threadLevelInfo>>
    BY <1>5, <1>7 DEF levelsView, Begin, End, State
  <2> QED
    BY <1>1, <1>2, <1>3, <1>4, <1>5, <1>7, <2>1 DEF ExitEffect, Inv, Shape
<1> QED
  BY <1>6, <1>7

\* What finalize does.
FinalizeEffect ==
    /\ process' = "exited"
    /\ State' = [State EXCEPT ![_threadLevel] = "stopped"]
    /\ UNCHANGED <<threadsView, countsView, _threadLevel, Begin, End>>

\* Finalize has this effect.
LEMMA Finalizing ==
    ASSUME Inv, NEW t \in Indices, Finalize(t)
    PROVE  FinalizeEffect /\ Shape'
<1>1. _threadLevel \in Levels
  BY LevelRoom DEF Inv
<1>2. /\ DOMAIN _threadLevelInfo' = Levels
      /\ \A l \in Levels :
            /\ DOMAIN _threadLevelInfo'[l] = DOMAIN NoLevel
            /\ _threadLevelInfo'[l].beginIndex = _threadLevelInfo[l].beginIndex
            /\ _threadLevelInfo'[l].endIndex = _threadLevelInfo[l].endIndex
            /\ _threadLevelInfo'[l].state =
                  IF l = _threadLevel THEN "stopped" ELSE _threadLevelInfo[l].state
  BY <1>1 DEF Finalize, Stopped, Inv, Shape, NoLevel
<1>3. State' = [State EXCEPT ![_threadLevel] = "stopped"]
  BY <1>1, <1>2 DEF State
<1>4. Begin' = Begin /\ End' = End
  BY <1>2 DEF Begin, End
<1>5. UNCHANGED <<threadsView, countsView, _threadLevel, _threads>> /\ process' = "exited"
  BY DEF Finalize, counters, countsView, threadsView, Life, Creating, Joining
<1> QED
  BY <1>2, <1>3, <1>4, <1>5 DEF FinalizeEffect, Inv, Shape

\* What the refusal of a thread too many does.
Aborts == UNCHANGED <<threadsView, countsView, levelsView>> /\ process' = "aborted"

\* What a step of t may do to the view.
Effect(t) ==
    \/ AllocEffect(t)
    \/ Aborts
    \/ \E life \in {"running", "failed"} : CreateEffect(t, life)
    \/ FinishEffect(t)
    \/ UNCHANGED <<threadsView, countsView, levelsView, process>>
    \/ \E c \in Indices : JoinEffect(t, c)
    \/ ExitEffect(t)
    \/ FinalizeEffect

\* Every step of a thread has one of the effects, and keeps the shapes.
LEMMA StepEffect ==
    ASSUME Inv, NEW t \in Indices, Step(t) PROVE Effect(t) /\ Shape'
<1>1. ASSUME allocAborts(t) PROVE Aborts /\ Shape'
  BY <1>1 DEF allocAborts, Aborts, counters, levelVars, countsView, levelsView,
     threadsView,
     Life, Creating, Joining, Begin, End, State, Inv, Shape
<1>2. ASSUME NEW ok \in BOOLEAN, CreateReturns(t, ok) PROVE Effect(t) /\ Shape'
  BY <1>2, Create DEF Effect
<1>3. ASSUME NEW ok \in BOOLEAN, ThreadFinishes(t, ok) PROVE Effect(t) /\ Shape'
  BY <1>3, Finish DEF Effect
<1>4. ASSUME NEW c \in Indices, JoinReturns(t, c) PROVE Effect(t) /\ Shape'
  BY <1>4, Join DEF Effect
<1> QED
  BY <1>1, <1>2, <1>3, <1>4, Alloc, Detaching, MarkExit, Finalizing DEF Step, Effect

\* The domains of the view.
LEMMA Domains ==
    /\ DOMAIN Life = Indices /\ DOMAIN Creating = Indices /\ DOMAIN Joining = Indices
    /\ DOMAIN Begin = Levels /\ DOMAIN End = Levels /\ DOMAIN State = Levels
  BY DEF Life, Creating, Joining, Begin, End, State

\* A thread about to be struck off is still counted, and so is the one that has
\* joined it: the count cannot drop below 1.
LEMMA JoinedAlive ==
    ASSUME Inv, NEW t \in Indices, Joining[t] # None
    PROVE  _aliveThreads > 1 /\ Joining[t] \in Alive
<1> USE DEF Inv, CountsRight, ThreadsRight, AliveCounted
<1>1. Joining[t] \in Alive /\ t \in Alive /\ Joining[t] # t
  BY DEF Alive
<1>2. /\ IsFiniteSet(Alive \ {Joining[t]})
      /\ Cardinality(Alive \ {Joining[t]}) = _aliveThreads - 1
  BY <1>1, FS_RemoveElement
<1>3. Cardinality(Alive \ {Joining[t]}) # 0
  BY <1>1, <1>2, FS_EmptySet
<1> QED
  BY <1>1, <1>2, <1>3

\* Every effect keeps the counters in their ranges.
LEMMA CountsStep ==
    ASSUME Inv, process = "running", NEW t \in Indices, Effect(t) PROVE CountsRight'
<1> USE Domains, NoneAssumption, SizesAssumption DEF Inv, CountsRight, countsView,
        levelsView
<1>1. ASSUME AllocEffect(t) PROVE CountsRight'
  BY <1>1 DEF AllocEffect, EnterEffect
<1>2. ASSUME Aborts PROVE CountsRight'
  BY <1>2 DEF Aborts
<1>3. ASSUME NEW life \in {"running", "failed"}, CreateEffect(t, life)
      PROVE  CountsRight'
  BY <1>3 DEF CreateEffect
<1>4. ASSUME FinishEffect(t) PROVE CountsRight'
  BY <1>4 DEF FinishEffect
<1>5. ASSUME UNCHANGED <<threadsView, countsView, levelsView, process>>
      PROVE  CountsRight'
  BY <1>5
<1>6. ASSUME NEW c \in Indices, JoinEffect(t, c) PROVE CountsRight'
  BY <1>6 DEF JoinEffect
<1>7. ASSUME ExitEffect(t) PROVE CountsRight'
  <2>1. _aliveThreads > 1
    BY <1>7, JoinedAlive DEF ExitEffect
  <2>2. CASE _aliveThreads = 2
    <3>1. _aliveThreads' = 1 /\ _threadIndex' = _threadIndex
      BY <1>7, <2>2 DEF ExitEffect
    <3>2. _threadLevel' = _threadLevel + 1 /\ _isMultithreading' = FALSE
      BY <1>7, <3>1 DEF ExitEffect, EnterEffect
    <3>3. _isMultithreading' \in BOOLEAN
      BY <3>2
    <3>4. _threadLevel' + _aliveThreads' + 1 <= 2 * _threadIndex'
      BY <2>2, <3>1, <3>2
    <3>5. _threadIndex' \in 1 .. MaxThreads
      BY <3>1
    <3>6. _threadLevel' \in Nat
      BY <3>2
    <3>7. _aliveThreads' \in Nat \ {0}
      BY <3>1
    <3> QED
      BY <3>3, <3>4, <3>5, <3>6, <3>7
  <2>3. CASE _aliveThreads > 2
    BY <1>7, <2>3 DEF ExitEffect
  <2> QED
    BY <2>1, <2>2, <2>3
<1>8. ASSUME FinalizeEffect PROVE CountsRight'
  BY <1>8 DEF FinalizeEffect
<1> HIDE DEF CountsRight
<1> QED
  BY <1>1, <1>2, <1>3, <1>4, <1>5, <1>6, <1>7, <1>8 DEF Effect

\* Every effect keeps the lives of the threads consistent.
LEMMA ThreadsStep ==
    ASSUME Inv, process = "running", NEW t \in Indices, Effect(t) PROVE ThreadsRight'
<1> USE Domains, NoneAssumption, SizesAssumption DEF Inv, Indices, ThreadsRight,
        CountsRight, countsView, threadsView
<1>1. ASSUME AllocEffect(t) PROVE ThreadsRight'
  BY <1>1 DEF AllocEffect
<1>2. ASSUME Aborts PROVE ThreadsRight'
  BY <1>2 DEF Aborts
<1>3. ASSUME NEW life \in {"running", "failed"}, CreateEffect(t, life)
      PROVE  ThreadsRight'
  BY <1>3 DEF CreateEffect
<1>4. ASSUME FinishEffect(t) PROVE ThreadsRight'
  BY <1>4 DEF FinishEffect
<1>5. ASSUME UNCHANGED <<threadsView, countsView, levelsView, process>>
      PROVE  ThreadsRight'
  BY <1>5
<1>6. ASSUME NEW c \in Indices, JoinEffect(t, c) PROVE ThreadsRight'
  BY <1>6 DEF JoinEffect
<1>7. ASSUME ExitEffect(t) PROVE ThreadsRight'
  BY <1>7 DEF ExitEffect
<1>8. ASSUME FinalizeEffect PROVE ThreadsRight'
  BY <1>8 DEF FinalizeEffect
<1> HIDE DEF ThreadsRight
<1> QED
  BY <1>1, <1>2, <1>3, <1>4, <1>5, <1>6, <1>7, <1>8 DEF Effect

\* Every effect that changes who is alive changes _aliveThreads with it.
LEMMA AliveStep ==
    ASSUME Inv, process = "running", NEW t \in Indices, Effect(t) PROVE AliveCounted'
<1> USE Domains, NoneAssumption, SizesAssumption DEF Inv, ThreadsRight, AliveCounted,
        countsView, threadsView
<1>1. ASSUME AllocEffect(t) PROVE AliveCounted'
  <2>1. /\ Alive' = Alive \cup {_threadIndex}
        /\ _threadIndex \notin Alive
    <3>1. Life[_threadIndex] = "none" /\ \A u \in Indices : Joining[u] # _threadIndex
      BY <1>1 DEF AllocEffect, CountsRight
    <3> QED
      BY <1>1, <3>1 DEF AllocEffect, Alive
  <2> QED
    BY <1>1, <2>1, FS_AddElement DEF AllocEffect
<1>2. ASSUME Aborts PROVE AliveCounted'
  <2>1. Alive' = Alive
    BY <1>2 DEF Alive, Aborts
  <2> QED
    BY <1>2, <2>1 DEF Aborts
<1>3. ASSUME NEW life \in {"running", "failed"}, CreateEffect(t, life)
      PROVE  AliveCounted'
  <2>1. Alive' = Alive
    BY <1>3 DEF Alive, CreateEffect
  <2> QED
    BY <1>3, <2>1 DEF CreateEffect
<1>4. ASSUME FinishEffect(t) PROVE AliveCounted'
  <2>1. Alive' = Alive
    BY <1>4 DEF Alive, FinishEffect
  <2> QED
    BY <1>4, <2>1 DEF FinishEffect
<1>5. ASSUME UNCHANGED <<threadsView, countsView, levelsView, process>>
      PROVE  AliveCounted'
  <2>1. Alive' = Alive
    BY <1>5 DEF Alive
  <2> QED
    BY <1>5, <2>1
<1>6. ASSUME NEW c \in Indices, JoinEffect(t, c) PROVE AliveCounted'
  <2>1. Alive' = Alive
    BY <1>6 DEF Alive, JoinEffect
  <2> QED
    BY <1>6, <2>1 DEF JoinEffect
<1>7. ASSUME ExitEffect(t) PROVE AliveCounted'
  <2>1. Alive' = Alive \ {Joining[t]}
    BY <1>7 DEF ExitEffect, Alive
  <2> QED
    BY <1>7, <2>1, JoinedAlive, FS_RemoveElement DEF ExitEffect
<1>8. ASSUME FinalizeEffect PROVE AliveCounted'
  <2>1. Alive' = Alive
    BY <1>8 DEF Alive, FinalizeEffect
  <2> QED
    BY <1>8, <2>1 DEF FinalizeEffect
<1> HIDE DEF AliveCounted
<1> QED
  BY <1>1, <1>2, <1>3, <1>4, <1>5, <1>6, <1>7, <1>8 DEF Effect

\* A level begins exactly when a second thread comes or the last one goes.
LEMMA PhasesStep ==
    ASSUME Inv, process = "running", NEW t \in Indices, Effect(t) PROVE PhasesAlternate'
<1> USE Domains, NoneAssumption, SizesAssumption DEF Inv, CountsRight, PhasesAlternate,
        countsView, levelsView
<1>1. ASSUME AllocEffect(t) PROVE PhasesAlternate'
  BY <1>1 DEF AllocEffect, EnterEffect
<1>2. ASSUME Aborts PROVE PhasesAlternate'
  BY <1>2 DEF Aborts
<1>3. ASSUME NEW life \in {"running", "failed"}, CreateEffect(t, life)
      PROVE  PhasesAlternate'
  BY <1>3 DEF CreateEffect
<1>4. ASSUME FinishEffect(t) PROVE PhasesAlternate'
  BY <1>4 DEF FinishEffect
<1>5. ASSUME UNCHANGED <<threadsView, countsView, levelsView, process>>
      PROVE  PhasesAlternate'
  BY <1>5
<1>6. ASSUME NEW c \in Indices, JoinEffect(t, c) PROVE PhasesAlternate'
  BY <1>6 DEF JoinEffect
<1>7. ASSUME ExitEffect(t) PROVE PhasesAlternate'
  BY <1>7 DEF ExitEffect, EnterEffect
<1>8. ASSUME FinalizeEffect PROVE PhasesAlternate'
  BY <1>8 DEF FinalizeEffect
<1> HIDE DEF PhasesAlternate
<1> QED
  BY <1>1, <1>2, <1>3, <1>4, <1>5, <1>6, <1>7, <1>8 DEF Effect

\* Every level is started once, and stopped before the next one starts.
LEMMA TimesStep ==
    ASSUME Inv, process = "running", NEW t \in Indices, Effect(t) PROVE TimesRight'
<1> USE Domains, NoneAssumption, SizesAssumption DEF Inv, CountsRight, TimesRight,
        levelsView, Levels
<1>1. ASSUME AllocEffect(t) PROVE TimesRight'
  <2>1. _threadLevel \in Levels /\ _threadLevel + 1 \in Levels
    OBVIOUS
  <2>2. CASE _aliveThreads = 1
    <3>1. EnterEffect(_threadIndex) /\ process' = process
      BY <1>1, <2>2 DEF AllocEffect
    <3>2. _threadLevel' = _threadLevel + 1
      BY <3>1 DEF EnterEffect
    <3>3. SUFFICES ASSUME NEW l \in Levels
                   PROVE  State'[l] = IF l < _threadLevel + 1 THEN "stopped"
                                      ELSE IF l > _threadLevel + 1 THEN "unused" ELSE "started"
      BY <3>1, <3>2
    <3>4. State'[l] = IF l = _threadLevel + 1 THEN "started"
                      ELSE IF l = _threadLevel THEN "stopped" ELSE State[l]
      BY <2>1, <3>1 DEF EnterEffect
    <3>5. l \in Int /\ _threadLevel \in Int
      OBVIOUS
    <3> QED
      BY <3>4, <3>5
  <2>3. CASE _aliveThreads # 1
    BY <1>1, <2>1, <2>3 DEF AllocEffect
  <2> QED
    BY <2>2, <2>3
<1>2. ASSUME Aborts PROVE TimesRight'
  BY <1>2 DEF Aborts
<1>3. ASSUME NEW life \in {"running", "failed"}, CreateEffect(t, life) PROVE TimesRight'
  BY <1>3 DEF CreateEffect
<1>4. ASSUME FinishEffect(t) PROVE TimesRight'
  BY <1>4 DEF FinishEffect
<1>5. ASSUME UNCHANGED <<threadsView, countsView, levelsView, process>>
      PROVE  TimesRight'
  BY <1>5
<1>6. ASSUME NEW c \in Indices, JoinEffect(t, c) PROVE TimesRight'
  BY <1>6 DEF JoinEffect
<1>7. ASSUME ExitEffect(t) PROVE TimesRight'
  <2>1. _threadLevel \in Levels /\ _threadLevel + 1 \in Levels
    OBVIOUS
  <2>2. CASE _aliveThreads' = 1
    <3>1. EnterEffect(_threadIndex) /\ process' = process
      BY <1>7, <2>2 DEF ExitEffect
    <3>2. _threadLevel' = _threadLevel + 1
      BY <3>1 DEF EnterEffect
    <3>3. SUFFICES ASSUME NEW l \in Levels
                   PROVE  State'[l] = IF l < _threadLevel + 1 THEN "stopped"
                                      ELSE IF l > _threadLevel + 1 THEN "unused" ELSE "started"
      BY <3>1, <3>2
    <3>4. State'[l] = IF l = _threadLevel + 1 THEN "started"
                      ELSE IF l = _threadLevel THEN "stopped" ELSE State[l]
      BY <2>1, <3>1 DEF EnterEffect
    <3>5. l \in Int /\ _threadLevel \in Int
      OBVIOUS
    <3> QED
      BY <3>4, <3>5
  <2>3. CASE _aliveThreads' # 1
    BY <1>7, <2>1, <2>3 DEF ExitEffect
  <2> QED
    BY <2>2, <2>3
<1>8. ASSUME FinalizeEffect PROVE TimesRight'
  <2>1. _threadLevel \in Levels /\ _threadLevel + 1 \in Levels
    OBVIOUS
  <2> QED
    BY <1>8, <2>1 DEF FinalizeEffect
<1> HIDE DEF TimesRight
<1> QED
  BY <1>1, <1>2, <1>3, <1>4, <1>5, <1>6, <1>7, <1>8 DEF Effect

\* The new level is parallel if one thread was alive, and serial otherwise.
LEMMA ParallelAfterEnter ==
    ASSUME Inv, NEW index, EnterEffect(index)
    PROVE  ParallelLevels' = IF _aliveThreads = 1 THEN ParallelLevels \cup {_threadLevel + 1}
                             ELSE ParallelLevels
<1>1. _threadLevel \in Nat /\ _aliveThreads \in Nat \ {0} /\ _threadLevel' = _threadLevel + 1
  BY DEF Inv, CountsRight, EnterEffect
<1>2. _aliveThreads > 1 <=> _threadLevel % 2 = 1
  BY DEF Inv, PhasesAlternate
<1>3. (_threadLevel + 1) % 2 = 1 <=> _threadLevel % 2 # 1
  BY <1>1
<1> QED
  BY <1>1, <1>2, <1>3 DEF ParallelLevels

\* A step leaves the ranges of these levels alone.
RangesOf(levels) ==
    \A l \in levels : l \in Levels /\ Begin'[l] = Begin[l] /\ End'[l] = End[l]

\* Entering a level leaves the ranges of the parallel levels before it alone.
LEMMA EnterKeeps ==
    ASSUME Inv, NEW index, EnterEffect(index)
    PROVE  /\ RangesOf(ParallelLevels)
           /\ Begin'[_threadLevel + 1] = index /\ End'[_threadLevel + 1] = index
<1>1. _threadLevel \in Levels /\ _threadLevel + 1 \in Levels /\ _threadLevel \in Nat
  BY LevelRoom DEF Inv, CountsRight
<1>2. \A l \in ParallelLevels : l \in Levels /\ l # _threadLevel + 1
  BY <1>1, SizesAssumption DEF ParallelLevels, Levels
<1> QED
  BY <1>1, <1>2, Domains DEF RangesOf, EnterEffect

\* Every effect keeps the parallel levels a partition of the indices.
LEMMA RangesStep ==
    ASSUME Inv, process = "running", NEW t \in Indices, Effect(t) PROVE RangesRight'
<1> USE DEF Inv, CountsRight, RangesRight, Covers
<1>1. ASSUME AllocEffect(t), _aliveThreads = 1 PROVE RangesRight'
  <2>1. EnterEffect(_threadIndex) /\ _threadIndex' = _threadIndex + 1 /\ _aliveThreads' = 2
    BY <1>1 DEF AllocEffect
  <2>2. ParallelLevels' = ParallelLevels \cup {_threadLevel + 1}
    BY <1>1, <2>1, ParallelAfterEnter
  <2>3. /\ RangesOf(ParallelLevels)
        /\ Begin'[_threadLevel + 1] = _threadIndex /\ End'[_threadLevel + 1] = _threadIndex
        /\ _threadLevel' = _threadLevel + 1
    BY <2>1, EnterKeeps DEF EnterEffect
  <2> QED
    BY <2>1, <2>2, <2>3 DEF RangesOf
<1>2. ASSUME AllocEffect(t), _aliveThreads # 1 PROVE RangesRight'
  <2>1. /\ _threadLevel \in ParallelLevels /\ _threadLevel \in Levels
        /\ ParallelLevels \subseteq Levels
    <3>1. _threadLevel \in Levels /\ _threadLevel \in 0 .. _threadLevel
      BY LevelRoom
    <3>2. _threadLevel % 2 = 1
      BY <1>2 DEF PhasesAlternate
    <3> QED
      BY <3>1, <3>2, SizesAssumption DEF ParallelLevels, Levels
  <2>2. /\ _threadIndex' = _threadIndex + 1 /\ _threadLevel' = _threadLevel
        /\ Begin' = Begin /\ End' = [End EXCEPT ![_threadLevel] = _threadIndex]
    BY <1>2 DEF AllocEffect
  <2>3. ParallelLevels' = ParallelLevels
    BY <2>2 DEF ParallelLevels
  <2>4. /\ \A l \in ParallelLevels : l # _threadLevel => End'[l] = End[l]
        /\ End'[_threadLevel] = _threadIndex /\ End[_threadLevel] = _threadIndex - 1
    BY <1>2, <2>1, <2>2, Domains
  <2> QED
    BY <2>1, <2>2, <2>3, <2>4
<1>3. ASSUME ExitEffect(t), _aliveThreads' = 1 PROVE RangesRight'
  <2>1. EnterEffect(_threadIndex) /\ _threadIndex' = _threadIndex /\ _aliveThreads = 2
    BY <1>3 DEF ExitEffect
  <2>2. ParallelLevels' = ParallelLevels
    BY <2>1, ParallelAfterEnter
  <2>3. RangesOf(ParallelLevels)
    BY <2>1, EnterKeeps
  <2> QED
    BY <1>3, <2>1, <2>2, <2>3 DEF RangesOf
<1>4. ASSUME UNCHANGED <<_threadIndex, _threadLevel, Begin, End>>,
             _aliveThreads' > 1 => _aliveThreads > 1
      PROVE  RangesRight'
  BY <1>4 DEF ParallelLevels
<1>5. ASSUME ExitEffect(t), _aliveThreads' # 1 PROVE RangesRight'
  BY <1>4, <1>5 DEF ExitEffect, levelsView
<1> HIDE DEF Inv, RangesRight
<1> QED
  BY <1>1, <1>2, <1>3, <1>4, <1>5 DEF Effect, Aborts, CreateEffect, FinishEffect,
     JoinEffect,
     FinalizeEffect, countsView, levelsView

\* The initial thread, running alone in level 0, satisfies the invariant.
LEMMA InitInv == Init => Inv
<1> SUFFICES ASSUME Init PROVE Inv
  OBVIOUS
<1> USE SizesAssumption, NoneAssumption
<1>1. Shape
  BY DEF Init, Shape, NoThread, NoLevel, Started, Indices, Levels
<1>2. CountsRight
  <2>1. _isMultithreading \in BOOLEAN
    BY DEF Init
  <2>2. _threadIndex = 1 /\ _aliveThreads = 1 /\ _threadLevel = 0
    BY DEF Init
  <2> QED
    BY <2>1, <2>2 DEF CountsRight
<1>3. \A i \in Indices : /\ Life[i] = IF i = 0 THEN "running" ELSE "none"
                         /\ Creating[i] = None /\ Joining[i] = None
  BY DEF Init, NoThread, Life, Creating, Joining
<1>4. \A l \in Levels : /\ Begin[l] = 0 /\ End[l] = 0
                        /\ State[l] = IF l = 0 THEN "started" ELSE "unused"
  BY DEF Init, Started, NoLevel, Begin, End, State
<1>5. ThreadsRight
  BY <1>3 DEF Init, ThreadsRight, Indices
<1>6. AliveCounted
  <2>1. Alive = {0}
    BY <1>3 DEF Alive, Indices
  <2> QED
    BY <2>1, FS_Singleton DEF Init, AliveCounted
<1>7. PhasesAlternate
  BY DEF Init, PhasesAlternate
<1>8. TimesRight
  BY <1>4 DEF Init, TimesRight, Levels
<1>9. RangesRight
  <2>1. ParallelLevels = {}
    BY DEF Init, ParallelLevels
  <2> QED
    BY <2>1 DEF Init, RangesRight
<1> QED
  BY <1>1, <1>2, <1>5, <1>6, <1>7, <1>8, <1>9 DEF Inv

\* Every step preserves the invariant.
LEMMA NextInv == Inv /\ [Next]_vars => Inv'
<1> SUFFICES ASSUME Inv, [Next]_vars PROVE Inv'
  OBVIOUS
<1>1. CASE UNCHANGED vars
  <2>1. Shape'
    BY <1>1 DEF Inv, Shape, vars, levelVars
  <2>2. UNCHANGED <<Life, Creating, Joining, Begin, End, State>>
    BY <1>1 DEF vars, levelVars, Life, Creating, Joining, Begin, End, State
  <2>3. UNCHANGED <<_threadIndex, _aliveThreads, _isMultithreading, _threadLevel, process>>
    BY <1>1 DEF vars, counters, levelVars
  <2> QED
    BY <2>1, <2>2, <2>3 DEF Inv, CountsRight, ThreadsRight, Alive, AliveCounted,
       PhasesAlternate,
       TimesRight, RangesRight, Covers, ParallelLevels
<1>2. ASSUME process = "running", NEW t \in Indices, Step(t) PROVE Inv'
  <2>1. Effect(t) /\ Shape'
    BY <1>2, StepEffect
  <2> QED
    BY <1>2, <2>1, CountsStep, ThreadsStep, AliveStep, PhasesStep, TimesStep, RangesStep
       DEF Inv
<1> QED
  BY <1>1, <1>2 DEF Next, Ended

\* The invariant holds in every reachable state.
THEOREM Invariance == Spec => []Inv
  BY InitInv, NextInv, PTL DEF Spec

\* _aliveThreads never falls short of the threads that may execute, so that a
\* phase counted as serial is one: the decrement comes after the real join.
THEOREM NeverUndercountsHolds == Spec => []NeverUndercounts
<1>1. ASSUME Inv PROVE NeverUndercounts
  <2>1. Executing \subseteq Alive
    BY DEF Executing, Alive, Life
  <2> QED
    BY <1>1, <2>1, FS_Subset DEF Inv, AliveCounted, NeverUndercounts
<1> QED
  BY <1>1, Invariance, PTL

\* However creations, joins and exits interleave, phases alternate, levels are
\* timed without a gap, and every created thread lies in one parallel level.
THEOREM LevelsRightHolds == Spec => []LevelsRight
<1>1. ASSUME Inv PROVE LevelsRight
  <2>1. LevelsTimed
    BY <1>1 DEF Inv, TimesRight, LevelsTimed, State
  <2>2. ASSUME NEW i \in 1 .. _threadIndex - 1
        PROVE  Cardinality({l \in ParallelLevels : InLevel(i, l)}) = 1
    <3>1. \A l \in ParallelLevels : InLevel(i, l) <=> Covers(i, l)
      <4>1. ParallelLevels \subseteq Levels
        BY <1>1, LevelRoom, SizesAssumption DEF Inv, CountsRight, ParallelLevels, Levels
      <4> QED
        BY <4>1 DEF InLevel, Covers, Begin, End
    <3>2. PICK l \in ParallelLevels : Covers(i, l)
      BY <1>1 DEF Inv, RangesRight
    <3>3. {k \in ParallelLevels : InLevel(i, k)} = {l}
      BY <1>1, <3>1, <3>2 DEF Inv, RangesRight
    <3> QED
      BY <3>3, FS_Singleton
  <2> QED
    BY <1>1, <2>1, <2>2 DEF Inv, LevelsRight, OneLevelPerThread
<1> QED
  BY <1>1, Invariance, PTL

\* There are never more than 2 * MaxThreads - 1 levels: the bound that an array
\* of levels needs, and that MaxThreadLevels does not always give.
THEOREM LevelBound == Spec => [](_threadLevel <= 2 * MaxThreads - 2)
<1>1. Inv => _threadLevel <= 2 * MaxThreads - 2
  BY SizesAssumption DEF Inv, CountsRight
<1> QED
  BY <1>1, Invariance, PTL

==============================================================================
