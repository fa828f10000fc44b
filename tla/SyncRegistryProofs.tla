------------------------- MODULE SyncRegistryProofs -------------------------
(***************************************************************************)
(* Theorems about SyncRegistry, for every set of mutexes, every number of  *)
(* threads and of table entries.                                           *)
(*                                                                         *)
(* The race in setSyncEntry is harmless for three reasons, which the       *)
(* invariant spells out: an index of the table is handed out once          *)
(* (FreshRight), a mutex word that is not NULL stays as it is while any    *)
(* thread is in a call on the mutex (WordsRight, CallsExclude), and so the *)
(* swap succeeds only for the first thread.                                *)
(***************************************************************************)
EXTENDS SyncRegistry, SumFacts, FiniteSetTheorems, TLAPS

Fields == {"pc", "op", "arg", "fresh", "expected", "data", "loaded"}

\* The types, as far as the proofs need them; and before the table is full,
\* _cur is no larger than the table.
Shape == /\ DOMAIN th = Threads
         /\ \A t \in Threads : DOMAIN th[t] = Fields
         /\ DOMAIN nominal = Mutexes /\ DOMAIN life = Mutexes
         /\ DOMAIN usedFor = Entries /\ DOMAIN entry_index = Entries
         /\ _cur \in Nat /\ DOMAIN report = DOMAIN NoReport
         /\ report.total \in Nat /\ report.i \in Nat
         /\ report.at # "idle" => report.total <= _cur
         /\ aborted = "no" => _cur <= MaxSyncEntries

\* Where a thread is tells which call it is in, and on which mutex.
PlaceRight(t) ==
    \/ th[t].pc = "out" /\ th[t] = Idle
    \/ /\ th[t].arg \in Mutexes
       /\ \/ th[t].op = "lock" /\ th[t].pc \in {"check", "next_index", "set_index",
                "expected", "double_check", "cas", "get_mutex", "count", "add", "leave"}
          \/ th[t].op = "init" /\ th[t].pc \in {"next_index", "set_index", "store"}
          \/ th[t].op = "destroy" /\ th[t].pc \in {"get_mutex", "leave"}

\* init and destroy have their mutex for themselves.
CallsExclude ==
    \A t, u \in Threads :
        t # u /\ th[t].arg = th[u].arg /\ th[t].pc # "out" => th[t].op = "lock"

\* The thread has an entry that no mutex has yet.
Unattached(t) == th[t].pc \in {"set_index", "store", "expected", "double_check", "cas"}

FreshRight ==
    \A t \in Threads :
        /\ th[t].fresh # NULL => th[t].fresh \in Entries /\ th[t].fresh < _cur
        /\ Unattached(t) =>
              /\ th[t].fresh # NULL
              /\ \A u \in Threads : Unattached(u) /\ th[u].fresh = th[t].fresh => u = t
              /\ \A m \in Mutexes : nominal[m] # th[t].fresh

\* The words of the mutexes.
WordsRight ==
    /\ \A m \in Mutexes : nominal[m] # NULL => nominal[m] \in Entries /\ nominal[m] < _cur
    /\ \A m, n \in Mutexes : nominal[m] = nominal[n] /\ nominal[m] # NULL => m = n

\* What a thread knows of the word of its mutex.
KnowsRight(t) ==
    /\ th[t].pc = "double_check" => th[t].expected \in {NULL, nominal[th[t].arg]}
    /\ th[t].pc = "cas" => th[t].expected = NULL
    /\ th[t].pc = "get_mutex" /\ th[t].op = "lock" => nominal[th[t].arg] # NULL
    /\ th[t].pc \in {"count", "add", "leave"} =>
          th[t].data = nominal[th[t].arg] /\ th[t].data # NULL

\* Every entry handed out knows its index, or its thread is about to tell it.
IndexRight ==
    \A e \in Entries : e < _cur =>
        entry_index[e] = e \/ \E t \in Threads : th[t].pc = "set_index" /\ th[t].fresh = e

\* The inductive invariant.
Inv == /\ Shape /\ CallsExclude /\ FreshRight /\ WordsRight /\ IndexRight
       /\ \A t \in Threads : PlaceRight(t) /\ KnowsRight(t)

\* Every step of the registry and of the report preserves the invariant.
LEMMA NextInv == ASSUME Inv, [Next]_vars PROVE Inv'
<1> USE DEF Inv, Shape, Fields, CallsExclude, FreshRight, Unattached, WordsRight,
            IndexRight, PlaceRight,
        KnowsRight, Idle, NoReport, Entries, mutexVars, tableVars, countVars, exitVars,
        Goto
<1>0. CASE UNCHANGED vars
  BY <1>0 DEF vars
<1>1. ASSUME Running, NEW t \in Threads, NEW m \in Mutexes, Lock(t, m) PROVE Inv'
  <2>1. Shape'
    BY <1>1, NullAssumption DEF Lock, Enter
  <2>2. CallsExclude'
    BY <1>1, NullAssumption DEF Lock, Enter
  <2>3. FreshRight'
    BY <1>1, NullAssumption DEF Lock, Enter
  <2>4. WordsRight'
    BY <1>1, NullAssumption DEF Lock, Enter
  <2>5. IndexRight'
    BY <1>1, NullAssumption DEF Lock, Enter
  <2>6. (\A u \in Threads : PlaceRight(u))'
    BY <1>1, NullAssumption DEF Lock, Enter
  <2>7. (\A u \in Threads : KnowsRight(u))'
    BY <1>1, NullAssumption DEF Lock, Enter
  <2> QED
    BY <2>1, <2>2, <2>3, <2>4, <2>5, <2>6, <2>7 DEF Inv
<1>2. ASSUME Running, NEW t \in Threads, NEW m \in Mutexes, MutexInit(t, m) PROVE Inv'
  <2>1. Shape'
    BY <1>2, NullAssumption DEF MutexInit, Enter, Unused
  <2>2. CallsExclude'
    BY <1>2, NullAssumption DEF MutexInit, Enter, Unused
  <2>3. FreshRight'
    BY <1>2, NullAssumption DEF MutexInit, Enter, Unused
  <2>4. WordsRight'
    BY <1>2, NullAssumption DEF MutexInit, Enter, Unused
  <2>5. IndexRight'
    BY <1>2, NullAssumption DEF MutexInit, Enter, Unused
  <2>6. (\A u \in Threads : PlaceRight(u))'
    BY <1>2, NullAssumption DEF MutexInit, Enter, Unused
  <2>7. (\A u \in Threads : KnowsRight(u))'
    BY <1>2, NullAssumption DEF MutexInit, Enter, Unused
  <2> QED
    BY <2>1, <2>2, <2>3, <2>4, <2>5, <2>6, <2>7 DEF Inv
<1>3. ASSUME Running, NEW t \in Threads, NEW m \in Mutexes, MutexDestroy(t, m)
      PROVE  Inv'
  <2>1. Shape'
    BY <1>3, NullAssumption DEF MutexDestroy, Enter, Unused
  <2>2. CallsExclude'
    BY <1>3, NullAssumption DEF MutexDestroy, Enter, Unused
  <2>3. FreshRight'
    BY <1>3, NullAssumption DEF MutexDestroy, Enter, Unused
  <2>4. WordsRight'
    BY <1>3, NullAssumption DEF MutexDestroy, Enter, Unused
  <2>5. IndexRight'
    BY <1>3, NullAssumption DEF MutexDestroy, Enter, Unused
  <2>6. (\A u \in Threads : PlaceRight(u))'
    BY <1>3, NullAssumption DEF MutexDestroy, Enter, Unused
  <2>7. (\A u \in Threads : KnowsRight(u))'
    BY <1>3, NullAssumption DEF MutexDestroy, Enter, Unused
  <2> QED
    BY <2>1, <2>2, <2>3, <2>4, <2>5, <2>6, <2>7 DEF Inv
<1>4. ASSUME Running, NEW t \in Threads, CheckMutex(t) PROVE Inv'
  <2>1. Shape'
    BY <1>4, NullAssumption DEF CheckMutex, is_my_mutex
  <2>2. CallsExclude'
    BY <1>4, NullAssumption DEF CheckMutex, is_my_mutex
  <2>3. FreshRight'
    BY <1>4, NullAssumption DEF CheckMutex, is_my_mutex
  <2>4. WordsRight'
    BY <1>4, NullAssumption DEF CheckMutex, is_my_mutex
  <2>5. IndexRight'
    BY <1>4, NullAssumption DEF CheckMutex, is_my_mutex
  <2>6. (\A u \in Threads : PlaceRight(u))'
    BY <1>4, NullAssumption DEF CheckMutex, is_my_mutex
  <2>7. (\A u \in Threads : KnowsRight(u))'
    BY <1>4, NullAssumption DEF CheckMutex, is_my_mutex
  <2> QED
    BY <2>1, <2>2, <2>3, <2>4, <2>5, <2>6, <2>7 DEF Inv
<1>5. ASSUME Running, NEW t \in Threads, GetNextIndex(t) PROVE Inv'
  <2>1. Shape'
    BY <1>5, NullAssumption, SizesAssumption DEF Running, GetNextIndex, HasRoom,
       Increment
  <2>2. CallsExclude'
    BY <1>5, NullAssumption, SizesAssumption DEF Running, GetNextIndex, HasRoom,
       Increment
  <2>3. FreshRight'
    BY <1>5, NullAssumption, SizesAssumption DEF Running, GetNextIndex, HasRoom,
       Increment
  <2>4. WordsRight'
    BY <1>5, NullAssumption, SizesAssumption DEF Running, GetNextIndex, HasRoom,
       Increment
  <2>5. IndexRight'
    BY <1>5, NullAssumption, SizesAssumption DEF Running, GetNextIndex, HasRoom,
       Increment
  <2>6. (\A u \in Threads : PlaceRight(u) /\ KnowsRight(u))'
    BY <1>5, NullAssumption, SizesAssumption DEF Running, GetNextIndex, HasRoom,
       Increment
  <2> QED
    BY <2>1, <2>2, <2>3, <2>4, <2>5, <2>6 DEF Inv
<1>6. ASSUME Running, NEW t \in Threads, SetIndex(t) PROVE Inv'
  <2>1. Shape'
    BY <1>6, NullAssumption DEF SetIndex, OwnIndex
  <2>2. CallsExclude'
    BY <1>6, NullAssumption DEF SetIndex, OwnIndex
  <2>3. FreshRight'
    BY <1>6, NullAssumption DEF SetIndex, OwnIndex
  <2>4. WordsRight'
    BY <1>6, NullAssumption DEF SetIndex, OwnIndex
  <2>5. IndexRight'
    BY <1>6, NullAssumption DEF SetIndex, OwnIndex
  <2>6. (\A u \in Threads : PlaceRight(u))'
    BY <1>6, NullAssumption DEF SetIndex, OwnIndex
  <2>7. (\A u \in Threads : KnowsRight(u))'
    BY <1>6, NullAssumption DEF SetIndex, OwnIndex
  <2> QED
    BY <2>1, <2>2, <2>3, <2>4, <2>5, <2>6, <2>7 DEF Inv
<1>7. ASSUME Running, NEW t \in Threads, StorePointer(t) PROVE Inv'
  <2>1. Shape'
    BY <1>7, NullAssumption DEF StorePointer, Attach
  <2>2. CallsExclude'
    BY <1>7, NullAssumption DEF StorePointer, Attach
  <2>3. FreshRight'
    BY <1>7, NullAssumption DEF StorePointer, Attach
  <2>4. WordsRight'
    <3>1. /\ th[t].arg \in Mutexes /\ th[t].fresh \in Entries /\ th[t].fresh < _cur
          /\ \A m \in Mutexes : nominal[m] # th[t].fresh
      BY <1>7, NullAssumption DEF StorePointer
    <3>2. nominal' = [nominal EXCEPT ![th[t].arg] = th[t].fresh] /\ _cur' = _cur
      BY <1>7 DEF StorePointer, Attach
    <3> QED
      BY <3>1, <3>2
  <2>5. IndexRight'
    BY <1>7, NullAssumption DEF StorePointer, Attach
  <2>6. (\A u \in Threads : PlaceRight(u))'
    BY <1>7, NullAssumption DEF StorePointer
  <2>7. (\A u \in Threads : KnowsRight(u))'
    <3>1. th'[t] = Idle /\ \A u \in Threads \ {t} : th'[u] = th[u] /\ th[u].arg # th[t].arg
      BY <1>7 DEF StorePointer
    <3>2. \A u \in Threads \ {t} : th[u].pc # "out" => nominal'[th[u].arg] = nominal[th[u].arg]
      BY <1>7, <3>1 DEF StorePointer, Attach
    <3> QED
      BY <3>1, <3>2
  <2> QED
    BY <2>1, <2>2, <2>3, <2>4, <2>5, <2>6, <2>7 DEF Inv
<1>8. ASSUME Running, NEW t \in Threads, ReadExpected(t) PROVE Inv'
  <2>1. Shape'
    BY <1>8, NullAssumption DEF ReadExpected
  <2>2. CallsExclude'
    BY <1>8, NullAssumption DEF ReadExpected
  <2>3. FreshRight'
    BY <1>8, NullAssumption DEF ReadExpected
  <2>4. WordsRight'
    BY <1>8, NullAssumption DEF ReadExpected
  <2>5. IndexRight'
    BY <1>8, NullAssumption DEF ReadExpected
  <2>6. (\A u \in Threads : PlaceRight(u))'
    BY <1>8, NullAssumption DEF ReadExpected
  <2>7. (\A u \in Threads : KnowsRight(u))'
    BY <1>8, NullAssumption DEF ReadExpected
  <2> QED
    BY <2>1, <2>2, <2>3, <2>4, <2>5, <2>6, <2>7 DEF Inv
<1>9. ASSUME Running, NEW t \in Threads, DoubleCheck(t) PROVE Inv'
  <2>1. Shape'
    BY <1>9, NullAssumption DEF DoubleCheck, is_my_mutex
  <2>2. CallsExclude'
    BY <1>9, NullAssumption DEF DoubleCheck, is_my_mutex
  <2>3. FreshRight'
    BY <1>9, NullAssumption DEF DoubleCheck, is_my_mutex
  <2>4. WordsRight'
    BY <1>9, NullAssumption DEF DoubleCheck, is_my_mutex
  <2>5. IndexRight'
    BY <1>9, NullAssumption DEF DoubleCheck, is_my_mutex
  <2>6. (\A u \in Threads : PlaceRight(u))'
    BY <1>9, NullAssumption DEF DoubleCheck, is_my_mutex
  <2>7. (\A u \in Threads : KnowsRight(u))'
    BY <1>9, NullAssumption DEF DoubleCheck, is_my_mutex
  <2> QED
    BY <2>1, <2>2, <2>3, <2>4, <2>5, <2>6, <2>7 DEF Inv
<1>10. ASSUME Running, NEW t \in Threads, CompareAndSwap(t) PROVE Inv'
  <2>1. CASE nominal[th[t].arg] = NULL
    <3>1. Shape'
      BY <1>10, <2>1, NullAssumption, SizesAssumption DEF Running, CompareAndSwap,
         SwapSucceeds, Attach
    <3>2. CallsExclude'
      BY <1>10, <2>1, NullAssumption, SizesAssumption DEF Running, CompareAndSwap,
         SwapSucceeds, Attach
    <3>3. FreshRight'
      BY <1>10, <2>1, NullAssumption, SizesAssumption DEF Running, CompareAndSwap,
         SwapSucceeds, Attach
    <3>4. WordsRight'
      <4>1. /\ th[t].arg \in Mutexes /\ th[t].fresh \in Entries /\ th[t].fresh < _cur
            /\ \A m \in Mutexes : nominal[m] # th[t].fresh
        BY <1>10, NullAssumption, SizesAssumption DEF Running, CompareAndSwap,
           SwapSucceeds, Attach
      <4>2. nominal' = [nominal EXCEPT ![th[t].arg] = th[t].fresh] /\ _cur' = _cur
        BY <1>10, <2>1 DEF CompareAndSwap, SwapSucceeds, Attach
      <4> QED
        BY <4>1, <4>2
    <3>5. IndexRight'
      BY <1>10, <2>1, NullAssumption, SizesAssumption DEF Running, CompareAndSwap,
         SwapSucceeds, Attach
    <3>6. (\A u \in Threads : PlaceRight(u) /\ KnowsRight(u))'
      BY <1>10, <2>1, NullAssumption, SizesAssumption DEF Running, CompareAndSwap,
         SwapSucceeds, Attach
    <3> QED
      BY <3>1, <3>2, <3>3, <3>4, <3>5, <3>6 DEF Inv
  <2>2. CASE nominal[th[t].arg] # NULL
    <3>1. Shape'
      BY <1>10, <2>2, NullAssumption DEF CompareAndSwap, SwapSucceeds
    <3>2. CallsExclude'
      BY <1>10, <2>2, NullAssumption DEF CompareAndSwap, SwapSucceeds
    <3>3. FreshRight'
      BY <1>10, <2>2, NullAssumption DEF CompareAndSwap, SwapSucceeds
    <3>4. WordsRight'
      BY <1>10, <2>2, NullAssumption DEF CompareAndSwap, SwapSucceeds
    <3>5. IndexRight'
      BY <1>10, <2>2, NullAssumption DEF CompareAndSwap, SwapSucceeds
    <3>6. (\A u \in Threads : PlaceRight(u))'
      BY <1>10, <2>2, NullAssumption DEF CompareAndSwap, SwapSucceeds
    <3>7. (\A u \in Threads : KnowsRight(u))'
      BY <1>10, <2>2, NullAssumption DEF CompareAndSwap, SwapSucceeds
    <3> QED
      BY <3>1, <3>2, <3>3, <3>4, <3>5, <3>6, <3>7 DEF Inv
  <2> QED
    BY <2>1, <2>2
<1>11. ASSUME Running, NEW t \in Threads, GetMutex(t) PROVE Inv'
  <2>1. Shape'
    BY <1>11, NullAssumption DEF GetMutex, is_my_mutex, RecordOf
  <2>2. CallsExclude'
    BY <1>11, NullAssumption DEF GetMutex, is_my_mutex, RecordOf
  <2>3. FreshRight'
    BY <1>11, NullAssumption DEF GetMutex, is_my_mutex, RecordOf
  <2>4. WordsRight'
    BY <1>11, NullAssumption DEF GetMutex, is_my_mutex, RecordOf
  <2>5. IndexRight'
    BY <1>11, NullAssumption DEF GetMutex, is_my_mutex, RecordOf
  <2>6. (\A u \in Threads : PlaceRight(u))'
    BY <1>11, NullAssumption DEF GetMutex, is_my_mutex, RecordOf
  <2>7. (\A u \in Threads : KnowsRight(u))'
    BY <1>11, NullAssumption DEF GetMutex, is_my_mutex, RecordOf
  <2> QED
    BY <2>1, <2>2, <2>3, <2>4, <2>5, <2>6, <2>7 DEF Inv
<1>12. ASSUME Running, NEW t \in Threads, LoadAccessCount(t) PROVE Inv'
  <2>1. Shape'
    BY <1>12, NullAssumption DEF LoadAccessCount
  <2>2. CallsExclude'
    BY <1>12, NullAssumption DEF LoadAccessCount
  <2>3. FreshRight'
    BY <1>12, NullAssumption DEF LoadAccessCount
  <2>4. WordsRight'
    BY <1>12, NullAssumption DEF LoadAccessCount
  <2>5. IndexRight'
    BY <1>12, NullAssumption DEF LoadAccessCount
  <2>6. (\A u \in Threads : PlaceRight(u))'
    BY <1>12, NullAssumption DEF LoadAccessCount
  <2>7. (\A u \in Threads : KnowsRight(u))'
    BY <1>12, NullAssumption DEF LoadAccessCount
  <2> QED
    BY <2>1, <2>2, <2>3, <2>4, <2>5, <2>6, <2>7 DEF Inv
<1>13. ASSUME Running, NEW t \in Threads, StoreAccessCount(t) PROVE Inv'
  <2>1. Shape'
    BY <1>13, NullAssumption DEF StoreAccessCount
  <2>2. CallsExclude'
    BY <1>13, NullAssumption DEF StoreAccessCount
  <2>3. FreshRight'
    BY <1>13, NullAssumption DEF StoreAccessCount
  <2>4. WordsRight'
    BY <1>13, NullAssumption DEF StoreAccessCount
  <2>5. IndexRight'
    BY <1>13, NullAssumption DEF StoreAccessCount
  <2>6. (\A u \in Threads : PlaceRight(u))'
    BY <1>13, NullAssumption DEF StoreAccessCount
  <2>7. (\A u \in Threads : KnowsRight(u))'
    BY <1>13, NullAssumption DEF StoreAccessCount
  <2> QED
    BY <2>1, <2>2, <2>3, <2>4, <2>5, <2>6, <2>7 DEF Inv
<1>14. ASSUME Running, NEW t \in Threads, Return(t) PROVE Inv'
  <2>1. Shape'
    BY <1>14, NullAssumption DEF Return, Idle
  <2>2. CallsExclude'
    BY <1>14, NullAssumption DEF Return, Idle
  <2>3. FreshRight'
    BY <1>14, NullAssumption DEF Return, Idle
  <2>4. WordsRight'
    BY <1>14, NullAssumption DEF Return, Idle
  <2>5. IndexRight'
    BY <1>14, NullAssumption DEF Return, Idle
  <2>6. (\A u \in Threads : PlaceRight(u))'
    BY <1>14, NullAssumption DEF Return, Idle
  <2>7. (\A u \in Threads : KnowsRight(u))'
    BY <1>14, NullAssumption DEF Return, Idle
  <2> QED
    BY <2>1, <2>2, <2>3, <2>4, <2>5, <2>6, <2>7 DEF Inv
<1>15. ASSUME Running, NEW t \in Threads, NEW orderly \in BOOLEAN, Exit(t, orderly)
       PROVE  Inv'
  BY <1>15, NullAssumption, SizesAssumption DEF Running, Exit
<1>16. ASSUME Running, NEW m \in Mutexes, StaticInit(m) PROVE Inv'
  BY <1>16, NullAssumption, SizesAssumption DEF Running, StaticInit, Unused
<1>17. ASSUME Running, ReportAssert PROVE Inv'
  BY <1>17, NullAssumption, SizesAssumption DEF Running, ReportAssert
<1>18. ASSUME Running, ReportSum PROVE Inv'
  BY <1>18, NullAssumption, SizesAssumption DEF Running, ReportSum
<1>19. ASSUME Running, ReportCount PROVE Inv'
  BY <1>19, NullAssumption, SizesAssumption DEF Running, ReportCount
<1>20. ASSUME Running, ReportStatistics PROVE Inv'
  BY <1>20, NullAssumption, SizesAssumption DEF Running, ReportStatistics
<1> HIDE DEF Inv, Shape, Fields, CallsExclude, FreshRight, Unattached, WordsRight,
             IndexRight, PlaceRight,
        KnowsRight, Idle, NoReport, Entries, Goto
<1>21. ASSUME Running, NEW t \in Threads, Call(t) \/ Step(t) PROVE Inv'
  BY <1>21, <1>1, <1>2, <1>3, <1>4, <1>5, <1>6, <1>7, <1>8, <1>9, <1>10, <1>11, <1>12,
     <1>13, <1>14 DEF Call, Step
<1> QED
  BY <1>15, <1>16, <1>17, <1>18, <1>19, <1>20, <1>0, <1>21 DEF Next, Report, Terminated

\* The zeroed tables satisfy the invariant.
LEMMA InitInv == Init => Inv
<1> SUFFICES ASSUME Init PROVE Inv
  OBVIOUS
<1> USE NullAssumption, SizesAssumption DEF Init, Idle, NoReport
<1>1. \A t \in Threads : th[t] = Idle
  OBVIOUS
<1>2. \A m \in Mutexes : nominal[m] = NULL
  OBVIOUS
<1>3. Shape
  BY <1>1 DEF Shape, Fields, Entries
<1>4. CallsExclude
  BY <1>1 DEF CallsExclude
<1>5. FreshRight
  BY <1>1 DEF FreshRight, Unattached
<1>6. WordsRight
  BY <1>2 DEF WordsRight
<1>7. IndexRight
  BY DEF IndexRight, Entries
<1>8. \A t \in Threads : PlaceRight(t) /\ KnowsRight(t)
  BY <1>1 DEF PlaceRight, KnowsRight
<1> QED
  BY <1>3, <1>4, <1>5, <1>6, <1>7, <1>8 DEF Inv

\* The invariant holds in every reachable state.
THEOREM Invariance == Spec => []Inv
<1>1. Inv /\ [Next]_vars => Inv'
  BY NextInv
<1> QED
  BY InitInv, <1>1, PTL DEF Spec

\* However many threads create records at once, no two mutexes share one:
\* get_next_index hands out an index once, and only its thread attaches it.
THEOREM OneEntryPerMutexHolds == Spec => []OneEntryPerMutex
<1>1. Inv => OneEntryPerMutex
  BY DEF Inv, WordsRight, FreshRight, OneEntryPerMutex
<1> QED
  BY Invariance, <1>1, PTL

\* All threads that lock a mutex work on the one record of its word.
THEOREM SameRecordHolds == Spec => []SameRecord
<1>1. Inv => SameRecord
  BY DEF Inv, KnowsRight, SameRecord
<1> QED
  BY Invariance, <1>1, PTL

\* The assertion of get_mutex cannot fail in a lock: after setSyncEntry the word
\* is set, by this thread or by another.
THEOREM LockFindsRecordHolds == Spec => []LockFindsRecord
<1>1. Inv => LockFindsRecord
  BY DEF Inv, KnowsRight, LockFindsRecord
<1> QED
  BY Invariance, <1>1, PTL

\* The assertion of the report fails only at the entry of a thread between
\* get_next_index and the store of entry_index.
THEOREM AssertOnlyMidCreateHolds == Spec => []AssertOnlyMidCreate
<1>1. Init => AssertOnlyMidCreate
  BY DEF Init, AssertOnlyMidCreate
<1>2. ASSUME Inv, AssertOnlyMidCreate, [Next]_vars PROVE AssertOnlyMidCreate'
  <2>1. CASE UNCHANGED vars
    BY <1>2, <2>1 DEF AssertOnlyMidCreate, vars, exitVars
  <2>2. ASSUME Running, ReportAssert PROVE AssertOnlyMidCreate'
    <3>1. report.i \in Entries /\ report.i < _cur
      BY <1>2, <2>2, SizesAssumption DEF Inv, Shape, Running, ReportAssert, Entries
    <3>2. \/ entry_index[report.i] = report.i
          \/ \E t \in Threads : th[t].pc = "set_index" /\ th[t].fresh = report.i
      BY <1>2, <3>1 DEF Inv, IndexRight
    <3> QED
      BY <2>2, <3>2 DEF Running, ReportAssert, AssertOnlyMidCreate
  <2>3. ASSUME Running, aborted' \in {aborted, "full", "get_mutex"}
        PROVE  AssertOnlyMidCreate'
    BY <2>3 DEF Running, AssertOnlyMidCreate
  <2>4. ASSUME NEW t \in Threads, NEW m \in Mutexes,
               Lock(t, m) \/ MutexInit(t, m) \/ MutexDestroy(t, m)
        PROVE aborted' = aborted
    BY <2>4 DEF Lock, MutexInit, MutexDestroy, exitVars
  <2>5. ASSUME Running, NEW t \in Threads, Step(t)
        PROVE  aborted' \in {aborted, "full", "get_mutex"}
    BY <2>5 DEF Step, CheckMutex, GetNextIndex, SetIndex, StorePointer, ReadExpected,
       DoubleCheck,
       CompareAndSwap, GetMutex, LoadAccessCount, StoreAccessCount, Return, exitVars
  <2>6. ASSUME NEW t \in Threads, NEW orderly \in BOOLEAN, Exit(t, orderly)
        PROVE  aborted' = aborted
    BY <2>6 DEF Exit
  <2>7. ASSUME NEW m \in Mutexes, StaticInit(m) PROVE aborted' = aborted
    BY <2>7 DEF StaticInit, exitVars
  <2>8. ASSUME ReportSum \/ ReportCount \/ ReportStatistics PROVE aborted' = aborted
    BY <2>8 DEF ReportSum, ReportCount, ReportStatistics
  <2> QED
    BY <1>2, <2>1, <2>2, <2>3, <2>4, <2>5, <2>6, <2>7, <2>8 DEF Next, Call, Report,
       Terminated
<1> QED
  BY Invariance, <1>1, <1>2, PTL DEF Spec

\* No step of any thread takes the record from a live mutex: the swap in
\* setSyncEntry only ever replaces NULL.
THEOREM RecordForLifeHolds == Spec => RecordForLife
<1> DEFINE Kept(m) == nominal[m] # NULL /\ life[m] = "live" /\ ~Initialising(m)
                         => nominal'[m] = nominal[m]
<1>1. ASSUME Inv, [Next]_vars, NEW m \in Mutexes PROVE Kept(m)
  <2> USE DEF Kept
  <2>1. CASE UNCHANGED vars
    BY <2>1 DEF vars, mutexVars
  <2>2. ASSUME NEW t \in Threads, StorePointer(t) PROVE Kept(m)
    BY <1>1, <2>2 DEF StorePointer, Attach, Initialising, Inv, Shape, PlaceRight
  <2>3. ASSUME NEW t \in Threads, CompareAndSwap(t) PROVE Kept(m)
    BY <1>1, <2>3 DEF CompareAndSwap, SwapSucceeds, Attach, Inv, Shape, PlaceRight,
       KnowsRight
  <2>4. ASSUME NEW n \in Mutexes, StaticInit(n) PROVE Kept(m)
    BY <1>1, <2>4 DEF StaticInit, Inv, Shape
  <2>5. ASSUME NEW t \in Threads, Step(t) PROVE Kept(m)
    BY <2>2, <2>3, <2>5 DEF Step, CheckMutex, GetNextIndex, SetIndex, ReadExpected,
       DoubleCheck,
       GetMutex, LoadAccessCount, StoreAccessCount, Return, mutexVars
  <2>6. ASSUME NEW t \in Threads, Call(t) PROVE Kept(m)
    BY <2>6 DEF Call, Lock, MutexInit, MutexDestroy
  <2>7. ASSUME NEW t \in Threads, NEW orderly \in BOOLEAN, Exit(t, orderly)
        PROVE  Kept(m)
    BY <2>7 DEF Exit, mutexVars
  <2>8. CASE Report
    BY <2>8 DEF Report, ReportAssert, ReportSum, ReportCount, ReportStatistics,
       mutexVars
  <2> QED
    BY <1>1, <2>1, <2>4, <2>5, <2>6, <2>7, <2>8 DEF Next, Terminated
<1>2. Inv /\ [Next]_vars => [\A m \in Mutexes : Kept(m)]_vars
  BY <1>1
<1> QED
  BY Invariance, <1>2, PTL DEF Spec, RecordForLife

-----------------------------------------------------------------------------
(***************************************************************************)
(* The counters.  Each thread has its own rows, so the load and the store  *)
(* of access_count++ are safe.                                             *)
(***************************************************************************)

\* Every row of the data of a thread lies in the table, and no two are the same.
LEMMA RowsApart ==
    ASSUME NEW e \in Entries, NEW t \in Threads
    PROVE  /\ Row(e, t) \in Rows
           /\ \A d \in Entries, u \in Threads : Row(d, u) = Row(e, t) => d = e /\ u = t
<1>1. /\ t \in Int /\ MaxThreads \in Int /\ t < MaxThreads /\ t >= 0
      /\ MaxSyncEntries \in Nat \ {0} /\ e \in 0 .. MaxSyncEntries - 1
  BY SizesAssumption DEF Entries, Threads
<1>2. /\ MaxSyncEntries * t \in Int /\ MaxSyncEntries * MaxThreads \in Int
      /\ MaxSyncEntries * t + MaxSyncEntries <= MaxSyncEntries * MaxThreads
  BY <1>1, Multiple
<1>3. MaxSyncEntries * t >= 0
  BY <1>1
<1>4. Row(e, t) = MaxSyncEntries * t + e /\ MaxThreads * MaxSyncEntries = MaxSyncEntries * MaxThreads
  BY <1>1 DEF Row
<1>5. Row(e, t) \in Rows
  BY <1>1, <1>2, <1>3, <1>4 DEF Rows
<1>6. ASSUME NEW d \in Entries, NEW u \in Threads, Row(d, u) = Row(e, t)
      PROVE  d = e /\ u = t
  <2>1. u \in Int /\ d \in 0 .. MaxSyncEntries - 1
    BY SizesAssumption DEF Entries, Threads
  <2>2. Row(d, u) = MaxSyncEntries * u + d
    BY <1>1, <2>1 DEF Row
  <2> QED
    BY <1>1, <1>4, <1>6, <2>1, <2>2, Remainder
<1> QED
  BY <1>5, <1>6

\* Every row belongs to an entry and a thread.
LEMMA RowsCovered ==
    ASSUME NEW r \in Rows
    PROVE  \E e \in Entries, t \in Threads : r = Row(e, t)
<1> DEFINE t == r \div MaxSyncEntries
           e == r % MaxSyncEntries
<1>1. MaxThreads \in Nat \ {0} /\ MaxSyncEntries \in Nat \ {0} /\ r \in Int /\ r >= 0
  BY SizesAssumption DEF Rows
<1>2. t \in Int /\ e \in 0 .. MaxSyncEntries - 1 /\ r = MaxSyncEntries * t + e
  BY <1>1
<1>3. MaxThreads * MaxSyncEntries = MaxSyncEntries * MaxThreads
      /\ MaxSyncEntries * MaxThreads \in Int
  BY <1>1
<1>4. r < MaxSyncEntries * MaxThreads
  BY <1>1, <1>3 DEF Rows
<1> HIDE DEF t, e
<1>5. MaxSyncEntries * t \in Int
  BY <1>1, <1>2
<1>6. t < MaxThreads
  <2>1. CASE t = MaxThreads
    BY <1>1, <1>2, <1>3, <1>4, <1>5, <2>1
  <2>2. CASE t > MaxThreads
    <3>1. MaxSyncEntries * MaxThreads + MaxSyncEntries <= MaxSyncEntries * t
      BY <1>1, <1>2, <2>2, Multiple
    <3> QED
      BY <1>1, <1>2, <1>3, <1>4, <1>5, <3>1
  <2> QED
    BY <1>1, <1>2, <2>1, <2>2
<1>7. t >= 0
  <2>1. SUFFICES ASSUME t < 0 PROVE FALSE
    BY <1>2
  <2>2. MaxSyncEntries * t + MaxSyncEntries <= MaxSyncEntries * 0
    BY <1>1, <1>2, <2>1, Multiple
  <2>3. MaxSyncEntries * 0 = 0
    BY <1>1
  <2> QED
    BY <1>1, <1>2, <1>5, <2>2, <2>3
<1>8. t \in Threads /\ e \in Entries /\ r = Row(e, t)
  <2>1. t * MaxSyncEntries = MaxSyncEntries * t
    BY <1>1, <1>2
  <2> QED
    BY <1>1, <1>2, <1>6, <1>7, <2>1 DEF Threads, Entries, Row
<1> QED
  BY <1>8

UnderWay == {t \in Threads : th[t].op = "lock" /\ th[t].pc # "leave"}

CountShape == access_count \in [Rows -> 0 .. CountMod - 1] /\ totalLocks \in Nat

\* The register of access_count++ holds what is still in the row.
LoadedRight ==
    \A t \in Threads : th[t].pc = "add" => th[t].loaded = access_count[Row(th[t].data, t)]

\* A record that is or was in use is known to be, and it was handed out.
UsedRight ==
    /\ \A m \in Mutexes : nominal[m] # NULL => usedFor[nominal[m]] # NULL
    /\ \A e \in Entries : usedFor[e] # NULL => e < _cur
    /\ \A e \in Entries, t \in Threads : access_count[Row(e, t)] # 0 => usedFor[e] # NULL

Conserved ==
    (Sum(access_count, Rows) + Cardinality(UnderWay)) % CountMod = (totalLocks % CountMod)

CountInv == CountShape /\ LoadedRight /\ UsedRight /\ Conserved

\* A thread that counts uses the row of its record.
LEMMA MyRowRight ==
    ASSUME Inv, NEW t \in Threads, th[t].pc \in {"count", "add"}
    PROVE  /\ th[t].data \in Entries /\ th[t].data < _cur /\ th[t].data = nominal[th[t].arg]
           /\ th[t].arg \in Mutexes /\ th[t].op = "lock" /\ th[t].data # NULL
           /\ MyRow(t) = Row(th[t].data, t) /\ MyRow(t) \in Rows
<1>1. /\ th[t].data = nominal[th[t].arg] /\ th[t].data # NULL
      /\ th[t].arg \in Mutexes /\ th[t].op = "lock"
  BY DEF Inv, PlaceRight, KnowsRight
<1>2. th[t].data \in Entries /\ th[t].data < _cur
  BY <1>1 DEF Inv, WordsRight
<1>3. entry_index[th[t].data] = th[t].data
  BY <1>1, <1>2 DEF Inv, IndexRight, FreshRight, Unattached
<1> QED
  BY <1>1, <1>2, <1>3, RowsApart DEF MyRow

\* The rows are finitely many, and so are the calls under way.
LEMMA Finite ==
    ASSUME CountShape
    PROVE  /\ IsFiniteSet(Rows) /\ IsFiniteSet(UnderWay)
           /\ Sum(access_count, Rows) \in Int /\ Cardinality(UnderWay) \in Nat
           /\ \A r \in Rows : access_count[r] \in Int
<1>1. IsFiniteSet(Rows) /\ IsFiniteSet(Threads)
  BY SizesAssumption, FS_Interval DEF Rows, Threads
<1>2. IsFiniteSet(UnderWay) /\ Cardinality(UnderWay) \in Nat
  BY <1>1, FS_Subset, FS_CardinalityType DEF UnderWay
<1>3. \A r \in Rows : access_count[r] \in Int
  BY CountAssumption DEF CountShape
<1> QED
  BY <1>1, <1>2, <1>3, SumInt

\* What a step does to the counters: nothing, or a lock begins, or the counter of
\* a lock is stored.
Begun(t) == /\ totalLocks' = totalLocks + 1 /\ UNCHANGED access_count
            /\ t \notin UnderWay /\ UnderWay' = UnderWay \cup {t}
Counted(t) == /\ UNCHANGED totalLocks /\ t \in UnderWay /\ UnderWay' = UnderWay \ {t}
              /\ th[t].pc = "add"
              /\ access_count' = [access_count EXCEPT ![MyRow(t)] = (th[t].loaded + 1) % CountMod]
Quiet == UNCHANGED <<access_count, totalLocks, UnderWay>>

\* So every step: nothing, a lock begins, or one is counted.
LEMMA CountEffect ==
    ASSUME Inv, [Next]_vars
    PROVE  Quiet \/ \E t \in Threads : Begun(t) \/ Counted(t)
<1> USE NullAssumption DEF Quiet, UnderWay, Goto, Idle, mutexVars, tableVars, countVars,
        exitVars
<1>a. DOMAIN th = Threads /\ \A t \in Threads : DOMAIN th[t] = Fields
  BY DEF Inv, Shape
<1>b. \A t \in Threads : PlaceRight(t)
  BY DEF Inv
<1>0. CASE UNCHANGED vars
  BY <1>0 DEF vars
<1>1. ASSUME NEW t \in Threads, NEW m \in Mutexes, Lock(t, m) PROVE Begun(t)
  BY <1>a, <1>b, <1>1 DEF Lock, Enter, Begun, Fields, PlaceRight
<1>2. ASSUME NEW t \in Threads, NEW m \in Mutexes, MutexInit(t, m) \/ MutexDestroy(t, m)
      PROVE  Quiet
  BY <1>a, <1>b, <1>2 DEF MutexInit, MutexDestroy, Enter, Fields, PlaceRight
<1>3. ASSUME NEW t \in Threads, CheckMutex(t) \/ SetIndex(t) PROVE Quiet
  BY <1>a, <1>b, <1>3 DEF CheckMutex, SetIndex, Fields, PlaceRight
<1>4. ASSUME NEW t \in Threads, GetNextIndex(t) \/ ReadExpected(t) PROVE Quiet
  BY <1>a, <1>b, <1>4 DEF GetNextIndex, ReadExpected, Fields, PlaceRight
<1>5. ASSUME NEW t \in Threads, StorePointer(t) \/ Return(t) PROVE Quiet
  BY <1>a, <1>b, <1>5 DEF StorePointer, Return, Fields, PlaceRight
<1>6. ASSUME NEW t \in Threads, DoubleCheck(t) \/ CompareAndSwap(t) PROVE Quiet
  BY <1>a, <1>b, <1>6 DEF DoubleCheck, CompareAndSwap, Fields, PlaceRight
<1>7. ASSUME NEW t \in Threads, GetMutex(t) PROVE Quiet
  BY <1>a, <1>b, <1>7 DEF GetMutex, Fields, PlaceRight
<1>8. ASSUME NEW t \in Threads, LoadAccessCount(t) PROVE Quiet
  BY <1>a, <1>b, <1>8 DEF LoadAccessCount, Fields, PlaceRight
<1>9. ASSUME NEW t \in Threads, StoreAccessCount(t) PROVE Counted(t)
  BY <1>a, <1>b, <1>9 DEF StoreAccessCount, Counted, Fields, PlaceRight
<1>10. ASSUME NEW t \in Threads, NEW orderly \in BOOLEAN, Exit(t, orderly) PROVE Quiet
  BY <1>10 DEF Exit
<1>11. ASSUME NEW m \in Mutexes, StaticInit(m) PROVE Quiet
  BY <1>11 DEF StaticInit
<1>12. CASE Report
  BY <1>12 DEF Report, ReportAssert, ReportSum, ReportCount, ReportStatistics
<1> HIDE DEF Quiet, UnderWay, Goto, Idle
<1> QED
  BY <1>0, <1>1, <1>2, <1>3, <1>4, <1>5, <1>6, <1>7, <1>8, <1>9, <1>10, <1>11, <1>12
     DEF Next, Step, Call, Terminated

\* The sums and the calls under way, after a step that changes them.
LEMMA ConservedStep ==
    ASSUME Inv, CountInv, [Next]_vars
    PROVE  CountShape' /\ Conserved'
<1> USE CountAssumption
<1>1. CASE Quiet
  BY <1>1 DEF Quiet, CountInv, CountShape, Conserved, Rows
<1>a. /\ IsFiniteSet(Rows) /\ IsFiniteSet(UnderWay)
      /\ Sum(access_count, Rows) \in Int /\ Cardinality(UnderWay) \in Nat
      /\ \A r \in Rows : access_count[r] \in Int
  BY Finite DEF CountInv
<1> DEFINE sum == Sum(access_count, Rows)
           calls == Cardinality(UnderWay)
<1>b. PICK k \in Int : sum + calls = totalLocks + CountMod * k
  <2> DEFINE all == sum + calls
  <2>1. all \in Int /\ totalLocks \in Int
    BY <1>a DEF CountInv, CountShape
  <2>2. (all % CountMod) = (totalLocks % CountMod)
    BY DEF CountInv, Conserved
  <2> HIDE DEF all
  <2>3. \E k \in Int : all = totalLocks + CountMod * k
    BY <2>1, <2>2, RemainderGap
  <2> QED
    BY <2>3 DEF all
<1>c. totalLocks \in Nat
  BY DEF CountInv, CountShape
<1>2. ASSUME NEW t \in Threads, Begun(t) PROVE CountShape' /\ Conserved'
  <2>1. CountShape'
    BY <1>2 DEF Begun, CountInv, CountShape, Rows
  <2>2. Cardinality(UnderWay') = calls + 1
    BY <1>2, <1>a, FS_AddElement DEF Begun
  <2>3. Sum(access_count, Rows)' = sum
    BY <1>2 DEF Begun, Rows
  <2> HIDE DEF sum, calls
  <2>4. /\ sum + (calls + 1) \in Int /\ totalLocks + 1 \in Int
        /\ sum + (calls + 1) = totalLocks + 1 + CountMod * k
    BY <1>a, <1>b, <1>c DEF sum, calls
  <2>5. (sum + (calls + 1)) % CountMod = (totalLocks + 1) % CountMod
    BY <2>4, SameRemainder
  <2> QED
    BY <1>2, <2>1, <2>2, <2>3, <2>5 DEF Begun, Conserved
<1>3. ASSUME NEW t \in Threads, Counted(t) PROVE CountShape' /\ Conserved'
  <2> DEFINE r == MyRow(t)
             c == access_count[r]
             d == (c + 1) % CountMod
  <2>1. r \in Rows /\ th[t].loaded = c
    BY <1>3, MyRowRight DEF Counted, CountInv, LoadedRight
  <2>2. c \in Int /\ d \in 0 .. CountMod - 1
    BY <1>a, <2>1
  <2>3. access_count' = [access_count EXCEPT ![r] = d]
    BY <1>3, <2>1 DEF Counted
  <2> HIDE DEF d, c, r
  <2>4. CountShape'
    BY <1>3, <2>1, <2>2, <2>3 DEF Counted, CountInv, CountShape, Rows
  <2>5. /\ access_count'[r] = d
        /\ \A x \in Rows \ {r} : access_count'[x] = access_count[x]
    BY <2>1, <2>3 DEF CountInv, CountShape
  <2>6. Sum(access_count', Rows) = sum + (d - c)
    BY <1>a, <2>1, <2>2, <2>5, SumUpdate DEF c
  <2>7. Cardinality(UnderWay') = calls - 1
    BY <1>3, <1>a, FS_RemoveElement DEF Counted
  <2>8. PICK j \in Int : d = c + 1 + CountMod * j
    <3>1. (d % CountMod) = ((c + 1) % CountMod)
      BY <2>2 DEF d
    <3>2. c + 1 \in Int /\ d \in Int
      BY <2>2
    <3> QED
      BY <3>1, <3>2, RemainderGap
  <2> DEFINE before == sum + (d - c)
             after == calls - 1
             all == before + after
             i == k + j
  <2>9. all \in Int /\ i \in Int /\ all = totalLocks + CountMod * i
    BY <1>a, <1>b, <1>c, <2>2, <2>8
  <2> HIDE DEF all, i
  <2>10. (all % CountMod) = (totalLocks % CountMod)
    <3>1. CountMod \in Nat \ {0} /\ all \in Int /\ totalLocks \in Int /\ i \in Int
      BY <1>c, <2>9
    <3>2. all = totalLocks + CountMod * i
      BY <2>9
    <3> QED
      BY <3>1, <3>2, SameRemainder, Zenon
  <2>11. (Sum(access_count', Rows) + Cardinality(UnderWay')) % CountMod
           = (totalLocks' % CountMod)
    BY <1>3, <2>6, <2>7, <2>10 DEF all, Counted
  <2> QED
    BY <2>4, <2>11 DEF Conserved, Rows
<1> QED
  BY <1>1, <1>2, <1>3, CountEffect

\* How a thread gets to the store of its counter.
LEMMA AddEffect ==
    ASSUME Inv, [Next]_vars, NEW t \in Threads, th'[t].pc = "add"
    PROVE  \/ th[t].pc = "add" /\ th'[t] = th[t]
           \/ LoadAccessCount(t)
<1> USE DEF Goto, Idle, mutexVars, tableVars, countVars, exitVars
<1> DEFINE Same == th[t].pc = "add" /\ th'[t] = th[t]
<1>a. DOMAIN th = Threads /\ \A u \in Threads : DOMAIN th[u] = Fields
  BY DEF Inv, Shape
<1>0. CASE UNCHANGED th
  BY <1>0
<1>1. ASSUME NEW u \in Threads, NEW m \in Mutexes,
             Lock(u, m) \/ MutexInit(u, m) \/ MutexDestroy(u, m)
      PROVE  Same
  BY <1>a, <1>1 DEF Lock, MutexInit, MutexDestroy, Enter, Fields
<1>2. ASSUME NEW u \in Threads, CheckMutex(u) \/ SetIndex(u) \/ GetNextIndex(u) \/ ReadExpected(u)
      PROVE  Same
  BY <1>a, <1>2 DEF CheckMutex, SetIndex, GetNextIndex, ReadExpected, Fields
<1>3. ASSUME NEW u \in Threads, StorePointer(u) \/ Return(u) \/ DoubleCheck(u) \/ CompareAndSwap(u)
      PROVE  Same
  BY <1>a, <1>3 DEF StorePointer, Return, DoubleCheck, CompareAndSwap, Fields
<1>4. ASSUME NEW u \in Threads, GetMutex(u) \/ StoreAccessCount(u)
      PROVE  Same
  BY <1>a, <1>4 DEF GetMutex, StoreAccessCount, Fields
<1>5. ASSUME NEW u \in Threads, LoadAccessCount(u)
      PROVE  Same \/ LoadAccessCount(t)
  BY <1>a, <1>5 DEF LoadAccessCount, Fields
<1>6. ASSUME NEW u \in Threads, NEW orderly \in BOOLEAN, Exit(u, orderly) PROVE UNCHANGED th
  BY <1>6 DEF Exit
<1>7. ASSUME NEW m \in Mutexes, StaticInit(m) PROVE UNCHANGED th
  BY <1>7 DEF StaticInit
<1>8. ASSUME Report PROVE UNCHANGED th
  BY <1>8 DEF Report, ReportAssert, ReportSum, ReportCount, ReportStatistics
<1>9. ASSUME UNCHANGED vars PROVE UNCHANGED th
  BY <1>9 DEF vars
<1> HIDE DEF Goto, Idle
<1> QED
  BY <1>0, <1>1, <1>2, <1>3, <1>4, <1>5, <1>6, <1>7, <1>8, <1>9
     DEF Next, Step, Call, Terminated

\* No thread stores what another has counted meanwhile: the rows are apart.
LEMMA LoadedStep ==
    ASSUME Inv, Inv', CountInv, [Next]_vars
    PROVE  LoadedRight'
<1> SUFFICES ASSUME NEW t \in Threads, th'[t].pc = "add"
             PROVE  th'[t].loaded = access_count'[Row(th'[t].data, t)]
  BY DEF LoadedRight, Threads
<1>a. DOMAIN th = Threads /\ \A u \in Threads : DOMAIN th[u] = Fields
  BY DEF Inv, Shape
<1>1. CASE LoadAccessCount(t)
  <2>1. MyRow(t) = Row(th[t].data, t)
    BY <1>1, MyRowRight DEF LoadAccessCount
  <2>2. /\ th'[t].loaded = access_count[MyRow(t)] /\ th'[t].data = th[t].data
        /\ access_count' = access_count
    BY <1>a, <1>1 DEF LoadAccessCount, countVars, Fields
  <2> QED
    BY <2>1, <2>2
<1>2. CASE th[t].pc = "add" /\ th'[t] = th[t]
  <2>1. th[t].loaded = access_count[Row(th[t].data, t)]
    BY <1>2 DEF CountInv, LoadedRight
  <2>2. ASSUME access_count' = access_count
        PROVE  th'[t].loaded = access_count'[Row(th'[t].data, t)]
    BY <1>2, <2>1, <2>2
  <2>3. ASSUME NEW u \in Threads, Counted(u)
        PROVE  th'[t].loaded = access_count'[Row(th'[t].data, t)]
    <3>1. u # t
      BY <1>2, <2>3 DEF Counted, UnderWay
    <3>2. /\ MyRow(u) = Row(th[u].data, u) /\ MyRow(u) \in Rows /\ th[u].data \in Entries
          /\ MyRow(t) = Row(th[t].data, t) /\ MyRow(t) \in Rows /\ th[t].data \in Entries
      BY <1>2, <2>3, MyRowRight DEF Counted
    <3>3. MyRow(t) # MyRow(u)
      BY <3>1, <3>2, RowsApart
    <3>4. access_count'[MyRow(t)] = access_count[MyRow(t)]
      BY <2>3, <3>2, <3>3 DEF Counted, CountInv, CountShape
    <3> QED
      BY <1>2, <2>1, <3>2, <3>4
  <2> QED
    BY <2>2, <2>3, CountEffect DEF Quiet, Begun
<1> QED
  BY <1>1, <1>2, AddEffect

\* What a step does to the words, the table and the history of the entries.
WordsKept == UNCHANGED <<nominal, usedFor>> /\ _cur' >= _cur
Attached(t) == /\ UNCHANGED _cur /\ Attach(th[t].arg, th[t].fresh)
               /\ Unattached(t) /\ th[t].arg \in Mutexes
Forgotten(m) == UNCHANGED <<_cur, usedFor>> /\ nominal' = [nominal EXCEPT ![m] = NULL]

\* No other step touches the words and the history of the entries.
LEMMA WordsEffect ==
    ASSUME Inv, [Next]_vars
    PROVE  \/ WordsKept
           \/ \E t \in Threads : Attached(t) /\ Quiet
           \/ \E m \in Mutexes : Forgotten(m) /\ Quiet
<1> USE DEF Goto, mutexVars, tableVars, countVars, exitVars, WordsKept
<1>a. _cur \in Nat /\ DOMAIN th = Threads /\ \A u \in Threads : DOMAIN th[u] = Fields
  BY DEF Inv, Shape
<1>b. \A t \in Threads : PlaceRight(t)
  BY DEF Inv
<1>0. CASE UNCHANGED vars
  BY <1>a, <1>0 DEF vars
<1>1. ASSUME NEW t \in Threads, NEW m \in Mutexes,
             Lock(t, m) \/ MutexInit(t, m) \/ MutexDestroy(t, m)
      PROVE  WordsKept
  BY <1>a, <1>1 DEF Lock, MutexInit, MutexDestroy
<1>2. ASSUME NEW t \in Threads, CheckMutex(t) \/ SetIndex(t) \/ ReadExpected(t) \/ Return(t)
      PROVE  WordsKept
  BY <1>a, <1>2 DEF CheckMutex, SetIndex, ReadExpected, Return
<1>3. ASSUME NEW t \in Threads, GetNextIndex(t) PROVE WordsKept
  BY <1>a, <1>3 DEF GetNextIndex, Increment
<1>4. ASSUME NEW t \in Threads, DoubleCheck(t) \/ GetMutex(t) \/ LoadAccessCount(t) \/ StoreAccessCount(t)
      PROVE  WordsKept
  BY <1>a, <1>4 DEF DoubleCheck, GetMutex, LoadAccessCount, StoreAccessCount
<1>5. ASSUME NEW t \in Threads, StorePointer(t) PROVE Attached(t) /\ Quiet
  <2>1. Attached(t)
    BY <1>a, <1>b, <1>5 DEF StorePointer, Attached, Unattached, PlaceRight
  <2>2. UNCHANGED <<access_count, totalLocks>>
    BY <1>5 DEF StorePointer
  <2>3. UNCHANGED UnderWay
    BY <1>a, <1>b, <1>5, NullAssumption DEF StorePointer, UnderWay, Idle, PlaceRight, Fields
  <2> QED
    BY <2>1, <2>2, <2>3 DEF Quiet
<1>6. ASSUME NEW t \in Threads, CompareAndSwap(t) PROVE WordsKept \/ (Attached(t) /\ Quiet)
  <2>1. WordsKept \/ Attached(t)
    BY <1>a, <1>b, <1>6 DEF CompareAndSwap, Attached, Unattached, PlaceRight
  <2>2. UNCHANGED <<access_count, totalLocks>>
    BY <1>6 DEF CompareAndSwap
  <2>3. UNCHANGED UnderWay
    BY <1>a, <1>b, <1>6 DEF CompareAndSwap, UnderWay, PlaceRight, Fields
  <2> QED
    BY <2>1, <2>2, <2>3 DEF Quiet
<1>7. ASSUME NEW t \in Threads, NEW orderly \in BOOLEAN, Exit(t, orderly) PROVE WordsKept
  BY <1>a, <1>7 DEF Exit
<1>8. ASSUME NEW m \in Mutexes, StaticInit(m) PROVE Forgotten(m) /\ Quiet
  BY <1>8 DEF StaticInit, Forgotten, Quiet, UnderWay
<1>9. CASE Report
  BY <1>a, <1>9 DEF Report, ReportAssert, ReportSum, ReportCount, ReportStatistics
<1> HIDE DEF Goto, WordsKept
<1> QED
  BY <1>0, <1>1, <1>2, <1>3, <1>4, <1>5, <1>6, <1>7, <1>8, <1>9
     DEF Next, Step, Call, Terminated

\* A counter that is not 0 belongs to an entry that some mutex has or had.
LEMMA UsedStep ==
    ASSUME Inv, CountInv, [Next]_vars
    PROVE  UsedRight'
<1>a. /\ _cur \in Nat /\ DOMAIN nominal = Mutexes /\ DOMAIN usedFor = Entries
      /\ UsedRight
  BY DEF Inv, Shape, CountInv
<1>b. \A t \in Threads : Unattached(t) => th[t].fresh \in Entries /\ th[t].fresh < _cur
  BY DEF Inv, FreshRight
<1>1. \A m \in Mutexes : nominal'[m] # NULL => usedFor'[nominal'[m]] # NULL
  <2>1. CASE WordsKept
    BY <1>a, <2>1 DEF WordsKept, UsedRight
  <2>2. ASSUME NEW t \in Threads, Attached(t)
        PROVE  \A m \in Mutexes : nominal'[m] # NULL => usedFor'[nominal'[m]] # NULL
    BY <1>a, <1>b, <2>2, NullAssumption DEF Attached, Attach, UsedRight
  <2>3. ASSUME NEW n \in Mutexes, Forgotten(n)
        PROVE  \A m \in Mutexes : nominal'[m] # NULL => usedFor'[nominal'[m]] # NULL
    BY <1>a, <2>3 DEF Forgotten, UsedRight
  <2> QED
    BY <2>1, <2>2, <2>3, WordsEffect
<1>2. \A e \in Entries : /\ usedFor[e] # NULL => usedFor'[e] # NULL
                         /\ usedFor'[e] # NULL => e < _cur'
  <2>0. \A e \in Entries : e \in Int
    BY SizesAssumption DEF Entries
  <2>1. CASE WordsKept /\ _cur' \in Nat
    BY <1>a, <2>0, <2>1 DEF WordsKept, UsedRight
  <2>2. ASSUME NEW t \in Threads, Attached(t)
        PROVE  \A e \in Entries : /\ usedFor[e] # NULL => usedFor'[e] # NULL
                                  /\ usedFor'[e] # NULL => e < _cur'
    BY <1>a, <1>b, <2>2, NullAssumption DEF Attached, Attach, UsedRight
  <2>3. ASSUME NEW n \in Mutexes, Forgotten(n)
        PROVE  \A e \in Entries : /\ usedFor[e] # NULL => usedFor'[e] # NULL
                                  /\ usedFor'[e] # NULL => e < _cur'
    BY <1>a, <2>3 DEF Forgotten, UsedRight
  <2>4. _cur' \in Nat
    BY NextInv DEF Inv, Shape
  <2> QED
    BY <2>1, <2>2, <2>3, <2>4, WordsEffect
<1>3. ASSUME NEW e \in Entries, NEW t \in Threads, access_count'[Row(e, t)] # 0
      PROVE  usedFor'[e] # NULL
  <2>1. ASSUME access_count' = access_count PROVE usedFor'[e] # NULL
    BY <1>a, <1>2, <1>3, <2>1 DEF UsedRight
  <2>2. ASSUME NEW u \in Threads, Counted(u) PROVE usedFor'[e] # NULL
    <3>1. /\ MyRow(u) = Row(th[u].data, u) /\ th[u].data \in Entries
          /\ th[u].data = nominal[th[u].arg] /\ th[u].arg \in Mutexes /\ th[u].data # NULL
          /\ MyRow(u) \in Rows
      BY <2>2, MyRowRight DEF Counted
    <3>2. CASE Row(e, t) = MyRow(u)
      BY <1>a, <1>2, <3>1, <3>2, RowsApart DEF UsedRight
    <3>3. CASE Row(e, t) # MyRow(u)
      <4>1. access_count'[Row(e, t)] = access_count[Row(e, t)]
        BY <2>2, <3>1, <3>3, RowsApart DEF Counted, CountInv, CountShape
      <4> QED
        BY <1>a, <1>2, <1>3, <4>1 DEF UsedRight
    <3> QED
      BY <3>2, <3>3
  <2> QED
    BY <2>1, <2>2, CountEffect DEF Quiet, Begun
<1> QED
  BY <1>1, <1>2, <1>3 DEF UsedRight, Entries, Threads, Row

\* The counters stay right.
LEMMA CountInvariant == Spec => []CountInv
<1>1. Init => CountInv
  <2> SUFFICES ASSUME Init PROVE CountInv
    OBVIOUS
  <2>1. /\ \A t \in Threads : th[t] = Idle /\ th[t].pc = "out" /\ th[t].op = NULL
        /\ \A m \in Mutexes : nominal[m] = NULL
        /\ \A e \in Entries : usedFor[e] = NULL
        /\ \A r \in Rows : access_count[r] = 0
    BY DEF Init, Idle
  <2>2. CountShape
    BY CountAssumption DEF Init, CountShape
  <2>3. LoadedRight /\ UsedRight
    BY <2>1, RowsApart DEF LoadedRight, UsedRight
  <2>4. UnderWay = {} /\ Cardinality({}) = 0
    BY <2>1, NullAssumption, FS_EmptySet DEF UnderWay
  <2>5. Sum(access_count, Rows) = 0
    BY <2>1, <2>2, Finite, SumZero
  <2>6. Conserved
    BY <2>4, <2>5 DEF Init, Conserved
  <2> QED
    BY <2>2, <2>3, <2>6 DEF CountInv
<1>2. Inv /\ Inv' /\ CountInv /\ [Next]_vars => CountInv'
  BY ConservedStep, LoadedStep, UsedStep DEF CountInv
<1> QED
  BY Invariance, <1>1, <1>2, PTL DEF Spec

\* No acquisition is lost.
THEOREM CountsConservedHolds == Spec => []CountsConserved
<1>1. CountInv => CountsConserved
  BY DEF CountInv, Conserved, CountsConserved, UnderWay, Sum
<1> QED
  BY CountInvariant, <1>1, PTL

-----------------------------------------------------------------------------
(***************************************************************************)
(* The report of an orderly exit.                                          *)
(***************************************************************************)

\* The rows the loops of the report have added so far.
Added == {r \in Rows : \E e \in Entries, t \in Threads :
                          /\ r = Row(e, t)
                          /\ e < report.i \/ (e = report.i /\ t < report.idx)}

\* The entries some mutex has or had, before the one the report is at.
UsedBefore == {e \in Entries : usedFor[e] # NULL /\ e < report.i}

\* Where the report is, and that nobody else does anything.
PositionRight ==
    /\ \A t \in Threads : th[t].pc = "out"
    /\ aborted = "no" /\ report.total = _cur
    /\ report.at \in {"assert", "sum", "done"}
    /\ report.i \in Nat /\ report.i <= _cur
    /\ report.idx \in 0 .. MaxThreads
    /\ report.at = "sum" => report.i < _cur
    /\ report.at # "sum" => report.idx = 0 /\ report.count = 0
    /\ report.at = "done" => report.i = _cur /\ report.locks = totalLocks

TotalsRight ==
    /\ report.count \in Int /\ report.sum \in Int /\ report.id \in Nat
    /\ (report.sum + report.count) % CountMod = (Sum(access_count, Added) % CountMod)
    /\ report.count # 0 => usedFor[report.i] # NULL
    /\ report.id <= Cardinality(UsedBefore)

ReportInv ==
    /\ report.at = "idle" => report = NoReport
    /\ report.orderly \in BOOLEAN
    /\ report.orderly => PositionRight /\ TotalsRight

Others == <<mutexVars, tableVars, countVars, th>>

\* In an orderly exit only the report moves.
LEMMA OrderlyEffect ==
    ASSUME Inv, ReportInv, [Next]_vars
    PROVE  \/ /\ report.orderly
              /\ \/ UNCHANGED vars
                 \/ ReportAssert \/ ReportSum \/ ReportCount \/ ReportStatistics
           \/ ~report.orderly /\ report'.orderly = FALSE /\ (report'.at = "idle" => report' = NoReport)
           \/ Running /\ \E t \in Threads : Exit(t, TRUE)
<1> USE DEF mutexVars, tableVars, countVars, exitVars
<1> DEFINE Kept == report' = report
<1>a. report.orderly \in BOOLEAN
  BY DEF ReportInv
<1>b. report.at = "idle" => ~report.orderly /\ DOMAIN report = DOMAIN NoReport
  BY DEF ReportInv, NoReport
<1>1. ASSUME NEW t \in Threads, Call(t) \/ Step(t) PROVE Kept
  <2>1. CASE Call(t)
    BY <2>1 DEF Call, Lock, MutexInit, MutexDestroy
  <2>2. CASE Step(t)
    BY <2>2 DEF Step, CheckMutex, GetNextIndex, SetIndex, StorePointer, ReadExpected,
       DoubleCheck,
       CompareAndSwap, GetMutex, LoadAccessCount, StoreAccessCount, Return
  <2> QED
    BY <1>1, <2>1, <2>2
<1>2. ASSUME NEW m \in Mutexes, StaticInit(m) PROVE Kept
  BY <1>2 DEF StaticInit
<1>3. ASSUME NEW t \in Threads, Exit(t, FALSE)
      PROVE  ~report.orderly /\ report'.orderly = FALSE /\ report'.at # "idle"
  BY <1>b, <1>3 DEF Exit, NoReport
<1>4. ASSUME Report, ~report.orderly
      PROVE  report'.orderly = FALSE /\ (report'.at = "idle" => report' = NoReport)
  <2>1. DOMAIN report = DOMAIN NoReport
    BY DEF Inv, Shape
  <2>2. report.orderly = FALSE
    BY <1>a, <1>4
  <2>3. CASE ReportAssert
    BY <2>1, <2>2, <2>3 DEF ReportAssert, NoReport
  <2>4. CASE ReportSum
    BY <2>1, <2>2, <2>4 DEF ReportSum, NoReport
  <2>5. CASE ReportCount
    BY <2>1, <2>2, <2>5 DEF ReportCount, NoReport
  <2>6. CASE ReportStatistics
    BY <2>1, <2>2, <2>6 DEF ReportStatistics, NoReport
  <2> QED
    BY <1>4, <2>3, <2>4, <2>5, <2>6 DEF Report
<1>5. ASSUME UNCHANGED vars PROVE Kept
  BY <1>5 DEF vars
<1>6. CASE Kept /\ ~report.orderly
  BY <1>6 DEF ReportInv
<1>7. CASE report.orderly
  <2>1. report.at # "idle"
    BY <1>b, <1>7
  <2>2. \A t \in Threads : ~MayRun(t)
    BY <1>7, <2>1 DEF MayRun
  <2>3. \A t \in Threads, orderly \in BOOLEAN : ~Exit(t, orderly)
    BY <2>1 DEF Exit
  <2> QED
    BY <1>7, <2>1, <2>2, <2>3 DEF Next, Report, Terminated
<1>8. CASE ~report.orderly
  <2>1. ASSUME NEW t \in Threads, NEW orderly \in BOOLEAN, Exit(t, orderly)
        PROVE  Exit(t, FALSE) \/ Exit(t, TRUE)
    <3>1. orderly = TRUE \/ orderly = FALSE
      OBVIOUS
    <3> QED
      BY <2>1, <3>1
  <2> QED
    BY <1>1, <1>2, <1>3, <1>4, <1>5, <1>6, <1>8, <2>1 DEF Next, Terminated
<1> QED
  BY <1>a, <1>7, <1>8

\* The entry the report is at knows its index.
LEMMA AtEntry ==
    ASSUME Inv, PositionRight, report.i < _cur
    PROVE  report.i \in Entries /\ entry_index[report.i] = report.i /\ _cur <= MaxSyncEntries
<1>1. _cur \in Nat /\ _cur <= MaxSyncEntries
  BY DEF Inv, Shape, PositionRight
<1>2. report.i \in Entries
  BY <1>1, SizesAssumption DEF PositionRight, Entries
<1> QED
  BY <1>1, <1>2 DEF Inv, IndexRight, PositionRight

\* The report starts from nothing.
LEMMA ReportStart ==
    ASSUME Inv, Inv', CountInv, ReportInv, Running, NEW t \in Threads, Exit(t, TRUE)
    PROVE  PositionRight' /\ TotalsRight'
<1>1. report = NoReport /\ aborted = "no" /\ _cur \in Nat
  BY DEF Exit, ReportInv, Running, Inv, Shape
<1>2. /\ report' = [NoReport EXCEPT !.at = "assert", !.by = t, !.orderly = TRUE, !.total = _cur]
      /\ \A u \in Threads : th[u].pc = "out"
      /\ UNCHANGED <<th, aborted, _cur, totalLocks, access_count, usedFor>>
  BY <1>1 DEF Exit, mutexVars, tableVars, countVars
<1>3. /\ report'.at = "assert" /\ report'.total = _cur /\ report'.i = 0 /\ report'.idx = 0
      /\ report'.count = 0 /\ report'.sum = 0 /\ report'.id = 0
  BY <1>2 DEF NoReport
<1>4. PositionRight'
  BY <1>1, <1>2, <1>3, SizesAssumption DEF PositionRight, Threads
<1>5. Added' = {}
  BY <1>3, SizesAssumption DEF Added, Entries, Threads
<1>6. Sum(access_count', {}) = 0
  BY SumEmpty
<1>7. Cardinality(UsedBefore') \in Nat
  <2>1. UsedBefore' = {}
    BY <1>3, SizesAssumption DEF UsedBefore, Entries
  <2> QED
    BY <2>1, FS_EmptySet
<1>8. TotalsRight'
  BY <1>3, <1>5, <1>6, <1>7, CountAssumption DEF TotalsRight
<1> QED
  BY <1>4, <1>8

\* One row more.
LEMMA SumStepRight ==
    ASSUME Inv, CountInv, PositionRight, TotalsRight, ReportSum
    PROVE  PositionRight' /\ TotalsRight'
<1> USE CountAssumption, SizesAssumption
<1>a. UNCHANGED <<th, aborted, _cur, totalLocks, access_count, usedFor>> /\ _cur \in Nat
      /\ DOMAIN report = DOMAIN NoReport
  BY DEF ReportSum, mutexVars, tableVars, countVars, Inv, Shape
<1>b. /\ report.at = "sum" /\ report.i < _cur /\ report.idx \in Threads
      /\ report.i \in Entries /\ entry_index[report.i] = report.i
  BY AtEntry DEF ReportSum, PositionRight, Threads
<1> DEFINE r == Row(report.i, report.idx)
           c == access_count[r]
<1>c. r \in Rows /\ c \in Int
  BY <1>b, RowsApart, Finite DEF CountInv
<1>1. /\ report'.idx = report.idx + 1 /\ report'.count = (report.count + c) % CountMod
      /\ \A f \in {"at", "total", "i", "sum", "id", "locks"} : report'[f] = report[f]
  BY <1>a, <1>b DEF ReportSum, NoReport
<1>d. /\ report'.at = report.at /\ report'.total = report.total /\ report'.i = report.i
      /\ report'.sum = report.sum /\ report'.id = report.id /\ report'.locks = report.locks
  BY <1>1
<1> HIDE DEF c, r
<1>2. PositionRight'
  BY <1>a, <1>b, <1>1, <1>d DEF PositionRight, Threads
<1>3. r \notin Added /\ Added' = Added \cup {r}
  <2>1. r \notin Added
    BY <1>b, RowsApart DEF Added, r, Entries, Threads
  <2>2. \A e \in Entries, t \in Threads :
           (e < report.i \/ (e = report.i /\ t < report.idx + 1))
             <=> \/ (e < report.i \/ (e = report.i /\ t < report.idx))
                 \/ e = report.i /\ t = report.idx
    BY <1>b DEF Entries, Threads
  <2>3. Added' = {s \in Rows : \E e \in Entries, t \in Threads :
                     s = Row(e, t) /\ (e < report.i \/ (e = report.i /\ t < report.idx + 1))}
    BY <1>1, <1>d DEF Added, Rows, Entries, Threads, Row
  <2>4. ASSUME NEW s \in Rows PROVE s \in Added' <=> s \in Added \/ s = r
    BY <1>b, <2>2, <2>3 DEF Added, r
  <2>5. Added' \subseteq Rows /\ Added \subseteq Rows
    BY <2>3 DEF Added
  <2> QED
    BY <1>c, <2>1, <2>4, <2>5
<1>4. IsFiniteSet(Added) /\ \A x \in Added \cup {r} : access_count[x] \in Int
  BY <1>c, Finite, FS_Subset DEF CountInv, Added
<1> DEFINE old == Sum(access_count, Added)
<1>5. old \in Int /\ Sum(access_count', Added') = old + c
  BY <1>a, <1>3, <1>4, SumAdd, SumInt DEF c
<1> DEFINE before == report.sum + report.count
<1>6. before \in Int /\ (before % CountMod) = (old % CountMod)
  BY DEF TotalsRight
<1> HIDE DEF old
<1> DEFINE s == report.sum
           n == report.count + c
<1>7. s \in Int /\ n \in Int /\ n + s = before + c /\ (n % CountMod) \in Int
  BY <1>c DEF TotalsRight
<1> HIDE DEF before, s, n
<1>8. (before + c) % CountMod = (old + c) % CountMod
  BY <1>c, <1>5, <1>6, AddBoth
<1>9. ((n % CountMod) + s) % CountMod = (n + s) % CountMod
  BY <1>7, WrapOnce
<1>10. (report'.sum + report'.count) % CountMod = (Sum(access_count', Added') % CountMod)
  <2>1. report'.sum + report'.count = (n % CountMod) + s
    BY <1>1, <1>d, <1>7 DEF n, s
  <2> QED
    BY <1>5, <1>7, <1>8, <1>9, <2>1
<1>11. report'.count # 0 => usedFor'[report'.i] # NULL
  <2>1. SUFFICES ASSUME usedFor[report.i] = NULL PROVE report'.count = 0
    BY <1>a, <1>d
  <2>2. c = 0
    BY <1>b, <2>1 DEF CountInv, UsedRight, c, r
  <2>3. report.count = 0
    BY <2>1 DEF TotalsRight
  <2> QED
    BY <1>1, <2>2, <2>3
<1>12. TotalsRight'
  <2>1. report'.count \in Int /\ report'.sum \in Int /\ report'.id \in Nat
    BY <1>1, <1>d, <1>7 DEF TotalsRight, n
  <2>2. UsedBefore' = UsedBefore
    BY <1>a, <1>d DEF UsedBefore, Entries
  <2> QED
    BY <1>d, <1>10, <1>11, <2>1, <2>2 DEF TotalsRight
<1> QED
  BY <1>2, <1>12

\* On to the next entry.
LEMMA CountStepRight ==
    ASSUME Inv, CountInv, PositionRight, TotalsRight, ReportCount
    PROVE  PositionRight' /\ TotalsRight'
<1> USE CountAssumption, SizesAssumption
<1>a. UNCHANGED <<th, aborted, _cur, totalLocks, access_count, usedFor>> /\ _cur \in Nat
      /\ DOMAIN report = DOMAIN NoReport
  BY DEF ReportCount, mutexVars, tableVars, countVars, Inv, Shape
<1>b. /\ report.at = "sum" /\ report.i < _cur /\ report.idx = MaxThreads
      /\ report.i \in Entries /\ report.i \in Nat
  BY AtEntry DEF ReportCount, PositionRight
<1>1. /\ report'.at = "assert" /\ report'.i = report.i + 1 /\ report'.idx = 0
      /\ report'.count = 0 /\ report'.sum = report.sum + report.count
      /\ report'.id = report.id + (IF IsReported(report.count) THEN 1 ELSE 0)
      /\ report'.total = report.total /\ report'.locks = report.locks
  BY <1>a, <1>b DEF ReportCount, NextTotal, NoReport
<1>2. PositionRight'
  BY <1>a, <1>b, <1>1 DEF PositionRight, Threads
<1>3. Added' = Added
  <2>1. \A e \in Entries, t \in Threads :
           (e < report.i + 1 \/ (e = report.i + 1 /\ t < 0))
             <=> (e < report.i \/ (e = report.i /\ t < report.idx))
    BY <1>b DEF Entries, Threads
  <2> QED
    BY <1>1, <2>1 DEF Added, Rows, Entries, Threads, Row
<1>4. /\ UsedBefore \subseteq UsedBefore'
      /\ usedFor[report.i] # NULL => /\ UsedBefore' = UsedBefore \cup {report.i}
                                    /\ report.i \notin UsedBefore
  BY <1>a, <1>b, <1>1 DEF UsedBefore, Entries
<1>5. IsFiniteSet(UsedBefore) /\ IsFiniteSet(UsedBefore')
  <2>1. IsFiniteSet(Entries)
    BY FS_Interval DEF Entries
  <2>2. UsedBefore \subseteq Entries /\ UsedBefore' \subseteq Entries
    BY DEF UsedBefore, Entries
  <2> QED
    BY <2>1, <2>2, FS_Subset
<1> DEFINE before == Cardinality(UsedBefore)
           after == Cardinality(UsedBefore')
<1>6. /\ before \in Nat /\ after \in Nat /\ before <= after
      /\ usedFor[report.i] # NULL => after = before + 1
  BY <1>4, <1>5, FS_CardinalityType, FS_Subset, FS_AddElement
<1>7. report'.id \in Nat /\ report'.id <= after
  <2> HIDE DEF before, after
  <2>1. report.id \in Nat /\ report.id <= before /\ (report.count # 0 => usedFor[report.i] # NULL)
    BY DEF TotalsRight, before
  <2>2. CASE report.count = 0
    BY <1>1, <1>6, <2>1, <2>2 DEF IsReported
  <2>3. CASE report.count # 0
    BY <1>1, <1>6, <2>1, <2>3 DEF IsReported
  <2> QED
    BY <2>2, <2>3
<1>9. /\ report'.sum + report'.count = report.sum + report.count
      /\ report'.sum \in Int /\ report'.count \in Int
  BY <1>1 DEF TotalsRight
<1> QED
  BY <1>a, <1>1, <1>2, <1>3, <1>7, <1>9 DEF TotalsRight

\* The loops stop at no entry, and end behind the last one.
LEMMA OtherStepsRight ==
    ASSUME Inv, CountInv, PositionRight, TotalsRight, ReportAssert \/ ReportStatistics
    PROVE  PositionRight' /\ TotalsRight'
<1>a. UNCHANGED <<th, _cur, totalLocks, access_count, usedFor>> /\ _cur \in Nat
      /\ DOMAIN report = DOMAIN NoReport
  BY DEF ReportAssert, ReportStatistics, mutexVars, tableVars, countVars, Inv, Shape
<1>1. ASSUME /\ \A f \in {"i", "idx", "count", "sum", "id"} : report'[f] = report[f]
      PROVE  TotalsRight'
  <2>1. /\ report'.i = report.i /\ report'.idx = report.idx /\ report'.count = report.count
        /\ report'.sum = report.sum /\ report'.id = report.id
    BY <1>1
  <2>2. Added' = Added /\ UsedBefore' = UsedBefore
    BY <1>a, <2>1 DEF Added, UsedBefore, Rows, Row, Entries, Threads
  <2> QED
    BY <1>a, <2>1, <2>2 DEF TotalsRight
<1>2. CASE ReportAssert
  <2>1. report.i < _cur
    BY <1>2 DEF ReportAssert, PositionRight
  <2>2. report' = [report EXCEPT !.at = "sum"] /\ UNCHANGED aborted /\ report.at = "assert"
    BY <1>2, <2>1, AtEntry DEF ReportAssert
  <2>3. PositionRight'
    BY <1>a, <2>1, <2>2 DEF PositionRight, NoReport, Threads
  <2> QED
    BY <1>a, <1>1, <2>2, <2>3 DEF NoReport
<1>3. CASE ReportStatistics
  <2>1. /\ report' = [report EXCEPT !.at = "done", !.locks = totalLocks]
        /\ UNCHANGED aborted /\ report.at = "assert" /\ report.i >= report.total
    BY <1>3 DEF ReportStatistics
  <2>2. report.i = _cur
    BY <1>a, <2>1 DEF PositionRight
  <2>3. PositionRight'
    BY <1>a, <2>1, <2>2 DEF PositionRight, NoReport, Threads
  <2> QED
    BY <1>a, <1>1, <2>1, <2>3 DEF NoReport
<1> QED
  BY <1>2, <1>3

\* Every step keeps the books of the report.
LEMMA ReportStep ==
    ASSUME Inv, Inv', CountInv, ReportInv, [Next]_vars
    PROVE  ReportInv'
<1>1. CASE report'.orderly = FALSE /\ (report'.at = "idle" => report' = NoReport)
  BY <1>1 DEF ReportInv
<1>2. ASSUME Running, NEW t \in Threads, Exit(t, TRUE) PROVE ReportInv'
  <2>1. PositionRight' /\ TotalsRight'
    BY <1>2, ReportStart
  <2>2. report'.orderly = TRUE
    BY <1>2 DEF Exit, ReportInv, NoReport
  <2> QED
    BY <2>1, <2>2 DEF ReportInv, PositionRight
<1>3. CASE report.orderly /\ UNCHANGED vars
  <2>1. UNCHANGED <<th, _cur, totalLocks, access_count, usedFor, report, aborted>>
    BY <1>3 DEF vars, mutexVars, tableVars, countVars, exitVars
  <2>2. PositionRight' <=> PositionRight
    BY <2>1 DEF PositionRight, Threads
  <2>3. Added' = Added /\ UsedBefore' = UsedBefore
    BY <2>1 DEF Added, UsedBefore, Rows, Row, Entries, Threads
  <2>4. TotalsRight' <=> TotalsRight
    BY <2>1, <2>3 DEF TotalsRight
  <2> QED
    BY <1>3, <2>1, <2>2, <2>4 DEF ReportInv
<1>4. CASE report.orderly /\ (ReportAssert \/ ReportSum \/ ReportCount \/ ReportStatistics)
  <2>1. PositionRight' /\ TotalsRight'
    BY <1>4, SumStepRight, CountStepRight, OtherStepsRight DEF ReportInv
  <2>2. report'.orderly = report.orderly
    <3>1. DOMAIN report = DOMAIN NoReport
      BY DEF Inv, Shape
    <3>2. ReportSum => report'.orderly = report.orderly
      BY <3>1 DEF ReportSum, NoReport
    <3>3. ReportCount => report'.orderly = report.orderly
      BY <3>1 DEF ReportCount, NoReport
    <3>4. ReportAssert => report'.orderly = report.orderly
      BY <3>1 DEF ReportAssert, NoReport
    <3>5. ReportStatistics => report'.orderly = report.orderly
      BY <3>1 DEF ReportStatistics, NoReport
    <3> QED
      BY <1>4, <3>2, <3>3, <3>4, <3>5
  <2> QED
    BY <2>1, <2>2 DEF ReportInv, PositionRight
<1> QED
  BY <1>1, <1>2, <1>3, <1>4, OrderlyEffect

\* The report invariant holds in every reachable state.
LEMMA ReportInvariant == Spec => []ReportInv
<1>1. Init => ReportInv
  BY DEF Init, ReportInv, NoReport
<1>2. Inv /\ Inv' /\ CountInv /\ ReportInv /\ [Next]_vars => ReportInv'
  BY ReportStep
<1> QED
  BY Invariance, CountInvariant, <1>1, <1>2, PTL DEF Spec

\* The report of an orderly exit is exact.
THEOREM ReportExactHolds == Spec => []ReportExact
<1>1. ASSUME Inv, CountInv, ReportInv PROVE ReportExact
  <2> SUFFICES ASSUME report.orderly PROVE
        /\ aborted # "report"
        /\ report.at = "done" =>
              /\ (report.sum % CountMod) = (report.locks % CountMod)
              /\ report.id <= Cardinality({e \in Entries : usedFor[e] # NULL})
    BY DEF ReportExact
  <2>1. PositionRight /\ TotalsRight
    BY <1>1 DEF ReportInv
  <2>2. ASSUME report.at = "done" PROVE (report.sum % CountMod) = (report.locks % CountMod)
    <3>1. ASSUME NEW r \in Rows, r \notin Added PROVE access_count[r] = 0
      <4>1. PICK e \in Entries, t \in Threads : r = Row(e, t)
        BY RowsCovered
      <4>2. ~(e < report.i) /\ report.i = _cur
        BY <2>1, <2>2, <3>1, <4>1 DEF Added, PositionRight
      <4> QED
        BY <1>1, <4>1, <4>2 DEF CountInv, UsedRight
    <3>2. Sum(access_count, Rows) = Sum(access_count, Added)
      BY <1>1, <3>1, Finite, SumPart DEF CountInv, Added
    <3>3. Cardinality(UnderWay) = 0
      <4>1. UnderWay = {}
        BY <1>1, <2>1, NullAssumption DEF UnderWay, PositionRight, Inv, PlaceRight, Idle
      <4> QED
        BY <4>1, FS_EmptySet
    <3>4. (Sum(access_count, Rows) % CountMod) = (totalLocks % CountMod)
      BY <1>1, <3>3, Finite DEF CountInv, Conserved
    <3>5. report.sum + report.count = report.sum /\ report.locks = totalLocks
      BY <2>1, <2>2 DEF TotalsRight, PositionRight
    <3> QED
      BY <2>1, <3>2, <3>4, <3>5 DEF TotalsRight
  <2>3. report.id <= Cardinality({e \in Entries : usedFor[e] # NULL})
    <3> DEFINE used == {e \in Entries : usedFor[e] # NULL}
    <3>1. IsFiniteSet(used) /\ UsedBefore \subseteq used
      <4>1. IsFiniteSet(Entries)
        BY SizesAssumption, FS_Interval DEF Entries
      <4> QED
        BY <4>1, FS_Subset DEF UsedBefore
    <3>2. /\ Cardinality(UsedBefore) <= Cardinality(used)
          /\ Cardinality(UsedBefore) \in Nat /\ Cardinality(used) \in Nat
      BY <3>1, FS_Subset, FS_CardinalityType
    <3> QED
      BY <2>1, <3>2 DEF TotalsRight
  <2> QED
    BY <2>1, <2>2, <2>3 DEF PositionRight
<1> QED
  BY Invariance, CountInvariant, ReportInvariant, <1>1, PTL
=============================================================================
