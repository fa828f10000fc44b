---------------------------- MODULE SyncRegistry ----------------------------
(***************************************************************************)
(* How SyncPerf attaches its own record to a mutex of the program.         *)
(*                                                                         *)
(* The first word of the program's pthread_mutex_t (the "nominal" mutex)   *)
(* is overwritten by a pointer to a mutex_t of the table sync_vars.  A     *)
(* mutex with a static initialiser gets its record at its first lock or    *)
(* trylock, so several threads may race to create it; a losing thread      *)
(* leaves its table entry unused forever.  Each thread counts its          *)
(* acquisitions in its own row of thread_sync_data, and the report adds    *)
(* the rows up when the process exits, whatever the other threads are      *)
(* doing.                                                                  *)
(*                                                                         *)
(* One action per access to memory that other threads write.               *)
(***************************************************************************)
EXTENDS Integers, FiniteSets, FiniteSetsExt

CONSTANTS
    Mutexes,            \* pthread_mutex_t objects of the program
    MaxThreads,         \* xdefines::MAX_THREADS
    MaxSyncEntries,     \* xdefines::MAX_SYNC_ENTRIES
    CountMod,           \* 2^32 in the code: the counters are UINT32
    MaxLocks,           \* bound on the calls of lock and trylock
    NULL

ASSUME SizesAssumption == /\ MaxThreads \in Nat \ {0}
                          /\ MaxSyncEntries \in Nat \ {0}
ASSUME CountAssumption == /\ CountMod \in Nat \ {0}
                          /\ MaxLocks \in Nat
ASSUME NullAssumption == NULL \notin Nat \cup Mutexes \cup {"lock"}

Threads == 0 .. MaxThreads - 1          \* thread_t::index
Entries == 0 .. MaxSyncEntries - 1      \* indices of sync_vars
Rows == 0 .. MaxThreads * MaxSyncEntries - 1

VARIABLES
    nominal,        \* first word of each nominal mutex: NULL or an entry
    life,           \* the program's view of a mutex: fresh, live or dead
    usedFor,        \* history: the mutex an entry was ever attached to
    _cur,           \* RecordEntries::_cur
    entry_index,    \* mutex_t::entry_index of every table entry
    access_count,   \* thread_sync_data[row].access_count
    totalLocks,
    th,             \* the threads: their place in the code and their locals
    report,         \* the locals of Report::print
    aborted         \* why the process died: "no", "full", "get_mutex", "report"

mutexVars == <<nominal, life, usedFor>>
tableVars == <<_cur, entry_index>>
countVars == <<access_count, totalLocks>>
exitVars == <<report, aborted>>
vars == <<mutexVars, tableVars, countVars, th, exitVars>>

\* MUTANT of Row: the rows of two threads overlap.
Row_Overlapping(mut_index, thd_index) == thd_index + mut_index

\* get_thread_mutex_data: the row of an entry in the data of a thread.
Row(mut_index, thd_index) == thd_index * MaxSyncEntries + mut_index

\* A thread outside of the intercepted functions.  op and arg are the call and
\* its mutex, fresh the local new_mutex, expected the local of setSyncEntry,
\* data the local mutex_data and loaded the register of access_count++.
Idle == [pc |-> "out", op |-> NULL, arg |-> NULL, fresh |-> NULL,
         expected |-> NULL, data |-> NULL, loaded |-> 0]

NoReport == [at |-> "idle", by |-> NULL, orderly |-> FALSE, total |-> 0, i |-> 0, idx |-> 0,
             count |-> 0, sum |-> 0, id |-> 0, locks |-> 0]

\* initializer(): both tables come zeroed from mmap.
Init ==
    /\ nominal = [m \in Mutexes |-> NULL]
    /\ life = [m \in Mutexes |-> "fresh"]
    /\ usedFor = [e \in Entries |-> NULL]
    /\ _cur = 0
    /\ entry_index = [e \in Entries |-> 0]
    /\ access_count = [r \in Rows |-> 0]
    /\ totalLocks = 0
    /\ th = [t \in Threads |-> Idle]
    /\ report = NoReport
    /\ aborted = "no"

Goto(t, label) == th' = [th EXCEPT ![t].pc = label]

\* Nobody is in a call on m.
Unused(m) == \A t \in Threads : th[t].arg # m

Enter(t, call, m, label) ==
    /\ th[t].pc = "out"
    /\ th' = [th EXCEPT ![t].op = call, ![t].arg = m, ![t].pc = label]

-----------------------------------------------------------------------------
(***************************************************************************)
(* The calls of the program, which uses its mutexes correctly: init and    *)
(* destroy are not concurrent with another call on the same mutex.         *)
(***************************************************************************)

\* pthread_mutex_lock or pthread_mutex_trylock up to the first counter.
Lock(t, m) ==
    /\ life[m] # "dead"
    /\ \A u \in Threads : th[u].arg = m => th[u].op = "lock"
    /\ totalLocks < MaxLocks
    /\ totalLocks' = totalLocks + 1
    /\ life' = [life EXCEPT ![m] = "live"]
    /\ Enter(t, "lock", m, "check")
    /\ UNCHANGED <<nominal, usedFor, tableVars, access_count, exitVars>>

\* pthread_mutex_init, of a mutex never used before or destroyed.
MutexInit(t, m) ==
    /\ life[m] \in {"fresh", "dead"}
    /\ Unused(m)
    /\ life' = [life EXCEPT ![m] = "live"]
    /\ Enter(t, "init", m, "next_index")
    /\ UNCHANGED <<nominal, usedFor, tableVars, countVars, exitVars>>

\* pthread_mutex_destroy; the record stays in the table.
MutexDestroy(t, m) ==
    /\ life[m] \in {"fresh", "live"}
    /\ Unused(m)
    /\ life' = [life EXCEPT ![m] = "dead"]
    /\ Enter(t, "destroy", m, "get_mutex")
    /\ UNCHANGED <<nominal, usedFor, tableVars, countVars, exitVars>>

\* The memory of a destroyed mutex gets PTHREAD_MUTEX_INITIALIZER again.
StaticInit(m) ==
    /\ life[m] = "dead"
    /\ Unused(m)
    /\ nominal' = [nominal EXCEPT ![m] = NULL]
    /\ life' = [life EXCEPT ![m] = "fresh"]
    /\ UNCHANGED <<usedFor, tableVars, countVars, th, exitVars>>

-----------------------------------------------------------------------------
(***************************************************************************)
(* The steps inside the calls.                                             *)
(***************************************************************************)

is_my_mutex(m) == nominal[m] # NULL

CheckMutex(t) ==
    /\ th[t].pc = "check"
    /\ Goto(t, IF is_my_mutex(th[t].arg) THEN "get_mutex" ELSE "next_index")
    /\ UNCHANGED <<mutexVars, tableVars, countVars, exitVars>>

HasRoom(val) == val < MaxSyncEntries

\* MUTANT of Increment: the table is used as a ring.
Increment_Ring(val) == (val + 1) % MaxSyncEntries

\* __atomic_fetch_add(&_cur, 1, ...).
Increment(val) == val + 1

\* create_mutex, first half: RecordEntries::get_next_index.
GetNextIndex(t) ==
    /\ th[t].pc = "next_index"
    /\ _cur' = Increment(_cur)
    /\ IF HasRoom(_cur)
         THEN /\ th' = [th EXCEPT ![t].fresh = _cur, ![t].pc = "set_index"]
              /\ UNCHANGED aborted
         ELSE aborted' = "full" /\ UNCHANGED th
    /\ UNCHANGED <<mutexVars, entry_index, countVars, report>>

\* MUTANT of OwnIndex: the entry is left as mmap returned it.
OwnIndex_Unset(e) == entry_index[e]

OwnIndex(e) == e

\* create_mutex, second half: the entry learns its own index.
SetIndex(t) ==
    /\ th[t].pc = "set_index"
    /\ LET e == th[t].fresh
       IN entry_index' = [entry_index EXCEPT ![e] = OwnIndex(e)]
    /\ Goto(t, IF th[t].op = "init" THEN "store" ELSE "expected")
    /\ UNCHANGED <<mutexVars, _cur, countVars, exitVars>>

Attach(m, e) == /\ nominal' = [nominal EXCEPT ![m] = e]
                /\ usedFor' = [usedFor EXCEPT ![e] = m]

\* pthread_mutex_init stores the pointer without looking; what it does to the
\* real mutex afterwards is outside of this module.
StorePointer(t) ==
    /\ th[t].pc = "store"
    /\ Attach(th[t].arg, th[t].fresh)
    /\ th' = [th EXCEPT ![t] = Idle]
    /\ UNCHANGED <<life, tableVars, countVars, exitVars>>

\* setSyncEntry: read the expected value ...
ReadExpected(t) ==
    /\ th[t].pc = "expected"
    /\ th' = [th EXCEPT ![t].expected = nominal[th[t].arg], ![t].pc = "double_check"]
    /\ UNCHANGED <<mutexVars, tableVars, countVars, exitVars>>

\* ... check again ...
DoubleCheck(t) ==
    /\ th[t].pc = "double_check"
    /\ Goto(t, IF is_my_mutex(th[t].arg) THEN "get_mutex" ELSE "cas")
    /\ UNCHANGED <<mutexVars, tableVars, countVars, exitVars>>

\* MUTANT of SwapSucceeds: a plain store instead of the compare-and-swap.
SwapSucceeds_PlainStore(t) == TRUE

\* MUTANT of SwapSucceeds: compared with the new pointer instead of the old one.
SwapSucceeds_WrongOperand(t) == nominal[th[t].arg] = th[t].fresh

SwapSucceeds(t) == nominal[th[t].arg] = th[t].expected

\* ... and swap.  The caller ignores the result: the loser's entry is lost.
CompareAndSwap(t) ==
    /\ th[t].pc = "cas"
    /\ IF SwapSucceeds(t) THEN Attach(th[t].arg, th[t].fresh)
                          ELSE UNCHANGED <<nominal, usedFor>>
    /\ Goto(t, "get_mutex")
    /\ UNCHANGED <<life, tableVars, countVars, exitVars>>

\* MUTANT of RecordOf: a thread that created an entry goes on with it,
\* whether or not its swap succeeded.
RecordOf_Own(t) == IF th[t].fresh # NULL THEN th[t].fresh ELSE nominal[th[t].arg]

RecordOf(t) == nominal[th[t].arg]

\* get_mutex, with its assertion.
GetMutex(t) ==
    /\ th[t].pc = "get_mutex"
    /\ IF is_my_mutex(th[t].arg)
         THEN /\ th' = [th EXCEPT ![t].data = RecordOf(t),
                        ![t].pc = IF th[t].op = "destroy" THEN "leave" ELSE "count"]
              /\ UNCHANGED aborted
         ELSE aborted' = "get_mutex" /\ UNCHANGED th
    /\ UNCHANGED <<mutexVars, tableVars, countVars, report>>

\* inc_access_count: access_count++ is a load and a store, without a lock
\* prefix; the row is this thread's own.
MyRow(t) == Row(entry_index[th[t].data], t)

LoadAccessCount(t) ==
    /\ th[t].pc = "count"
    /\ th' = [th EXCEPT ![t].loaded = access_count[MyRow(t)], ![t].pc = "add"]
    /\ UNCHANGED <<mutexVars, tableVars, countVars, exitVars>>

StoreAccessCount(t) ==
    /\ th[t].pc = "add"
    /\ access_count' = [access_count EXCEPT ![MyRow(t)] = (th[t].loaded + 1) % CountMod]
    /\ Goto(t, "leave")
    /\ UNCHANGED <<mutexVars, tableVars, totalLocks, exitVars>>

\* The thread goes on with the real mutex in data: locks it and unlocks it
\* through the same pointer, or marks it destroyed (PthreadMutex).
Return(t) ==
    /\ th[t].pc = "leave"
    /\ th' = [th EXCEPT ![t] = Idle]
    /\ UNCHANGED <<mutexVars, tableVars, countVars, exitVars>>

-----------------------------------------------------------------------------
(***************************************************************************)
(* exit(), also from the SIGINT handler: finalizer() calls Report::print.  *)
(***************************************************************************)

\* Thread t calls exit() after all the others have finished (orderly), or in
\* spite of them, perhaps from the signal handler in the middle of a call.
\* total_sync_vars is read once.
Exit(t, orderly) ==
    /\ report.at = "idle"
    /\ orderly => \A u \in Threads : th[u].pc = "out"
    /\ report' = [report EXCEPT !.at = "assert", !.by = t, !.orderly = orderly,
                                !.total = _cur]
    /\ UNCHANGED <<mutexVars, tableVars, countVars, th, aborted>>

\* assert(m->entry_index == i).
ReportAssert ==
    /\ report.at = "assert"
    /\ report.i < report.total
    /\ IF entry_index[report.i] = report.i
         THEN report' = [report EXCEPT !.at = "sum"] /\ UNCHANGED aborted
         ELSE aborted' = "report" /\ UNCHANGED report
    /\ UNCHANGED <<mutexVars, tableVars, countVars, th>>

\* One row of the inner loop.
ReportSum ==
    /\ report.at = "sum"
    /\ report.idx < MaxThreads
    /\ LET r == Row(entry_index[report.i], report.idx)
       IN report' = [report EXCEPT !.idx = @ + 1,
                                   !.count = (@ + access_count[r]) % CountMod]
    /\ UNCHANGED <<mutexVars, tableVars, countVars, th, aborted>>

\* MUTANT of NextTotal: total_access_count is declared outside of the loop.
NextTotal_Kept(count) == count

\* unsigned int total_access_count = 0, in the body of the loop.
NextTotal(count) == 0

\* if (total_access_count > 0).
IsReported(count) == count > 0

\* The end of the body: an entry with accesses is a lock of the report.
ReportCount ==
    /\ report.at = "sum"
    /\ report.idx = MaxThreads
    /\ report' = [report EXCEPT !.at = "assert", !.i = @ + 1, !.idx = 0,
                                !.count = NextTotal(@), !.sum = @ + report.count,
                                !.id = @ + (IF IsReported(report.count) THEN 1 ELSE 0)]
    /\ UNCHANGED <<mutexVars, tableVars, countVars, th, aborted>>

\* The statistics are printed last.
ReportStatistics ==
    /\ report.at = "assert"
    /\ report.i >= report.total
    /\ report' = [report EXCEPT !.at = "done", !.locks = totalLocks]
    /\ UNCHANGED <<mutexVars, tableVars, countVars, th, aborted>>

-----------------------------------------------------------------------------
Running == aborted = "no" /\ report.at # "done"

Step(t) == \/ CheckMutex(t) \/ GetNextIndex(t) \/ SetIndex(t) \/ StorePointer(t)
           \/ ReadExpected(t) \/ DoubleCheck(t) \/ CompareAndSwap(t)
           \/ GetMutex(t) \/ LoadAccessCount(t) \/ StoreAccessCount(t) \/ Return(t)

Call(t) == \E m \in Mutexes : Lock(t, m) \/ MutexInit(t, m) \/ MutexDestroy(t, m)

Report == ReportAssert \/ ReportSum \/ ReportCount \/ ReportStatistics

\* The thread that called exit() does nothing else; the others go on.
MayRun(t) == \/ report.at = "idle"
             \/ ~report.orderly /\ report.by # t

\* The process has exited or died.
Terminated == ~Running /\ UNCHANGED vars

Next == \/ /\ Running
           /\ \/ \E t \in Threads : MayRun(t) /\ (Call(t) \/ Step(t))
              \/ \E t \in Threads, orderly \in BOOLEAN : Exit(t, orderly)
              \/ \E m \in Mutexes : report.at = "idle" /\ StaticInit(m)
              \/ Report
        \/ Terminated

Spec == Init /\ [][Next]_vars

-----------------------------------------------------------------------------
\* Two mutexes of the program never share a record: their statistics and
\* their real mutexes stay apart, even when they are created concurrently; and
\* every record lies in the table, also when it runs full.
OneEntryPerMutex ==
    /\ \A m, n \in Mutexes : nominal[m] = nominal[n] /\ nominal[m] # NULL => m = n
    /\ \A t \in Threads : th[t].fresh # NULL => th[t].fresh \in Entries

\* All threads that lock a mutex work on one record, so on one real mutex:
\* the loser of the race in setSyncEntry switches to the winner's record.
SameRecord ==
    \A t \in Threads :
        th[t].pc \in {"count", "add", "leave"} => th[t].data = nominal[th[t].arg]

\* A record stays attached to its mutex as long as the mutex lives: a lock and
\* the unlock that looks it up again through get_mutex meet the same one.
Initialising(m) == \E t \in Threads : th[t].arg = m /\ th[t].op = "init"
RecordForLife ==
    [][\A m \in Mutexes :
          nominal[m] # NULL /\ life[m] = "live" /\ ~Initialising(m) =>
              nominal'[m] = nominal[m]]_vars

\* The assertion of get_mutex cannot fail in lock and trylock: whoever lost
\* the race, the word is set by then.
LockFindsRecord ==
    \A t \in Threads :
        th[t].pc = "get_mutex" /\ th[t].op = "lock" => nominal[th[t].arg] # NULL

\* No acquisition is lost although access_count++ is not atomic: the rows and
\* the calls under way add up to totalLocks, modulo the width of a counter.
CountsConserved ==
    LET underWay == {t \in Threads : th[t].op = "lock" /\ th[t].pc # "leave"}
        Accesses == MapThenSumSet(LAMBDA r : access_count[r], Rows)
    IN (Accesses + Cardinality(underWay)) % CountMod
          = totalLocks % CountMod

\* assert(m->entry_index == i) in Report::print fails for one reason only: the
\* report meets the entry of a thread that is, at that moment, between
\* get_next_index and the store of entry_index in create_mutex.
AssertOnlyMidCreate ==
    aborted = "report" => \E t \in Threads : th[t].pc = "set_index" /\ th[t].fresh = report.i

\* After an orderly exit the report is exact: no assertion stops it, also not
\* at the entry of a thread that lost the race, the counts of its locks add up
\* to totalLocks, and it lists no lock the program never used
\* ("access_count = 0 is poosible", report.h:297).
ReportExact ==
    report.orderly =>
        /\ aborted # "report"
        /\ report.at = "done" =>
              /\ report.sum % CountMod = report.locks % CountMod
              /\ report.id <= Cardinality({e \in Entries : usedFor[e] # NULL})
=============================================================================
