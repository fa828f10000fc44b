------------------------------- MODULE Report -------------------------------
(***************************************************************************)
(* What SyncPerf tells its user: the counters each thread keeps of its     *)
(* calls on a record, the time stamps of its waits, and Report::print,     *)
(* which sums them up at exit, sorts the locks into quadrants of conflict  *)
(* rate and frequency and looks for asymmetric locks.                      *)
(*                                                                         *)
(* exit() does not stop the other threads: they go on counting while the   *)
(* report reads their rows, without any lock.  The fields of a row are     *)
(* plain memory, so the compiler may load them in any order.  The records  *)
(* and their threads are there (SyncRegistry, XThread), a record keeps the *)
(* call stacks it was used from (CallContexts), and a lock is just held or *)
(* not (PthreadMutex).  A rate is a fraction, a call stack the sequence of *)
(* its return addresses, and a line of the report the sequence of source   *)
(* lines it is made of.                                                    *)
(***************************************************************************)
EXTENDS Integers, Sequences, FiniteSets, SequencesExt

CONSTANTS
    Threads,            \* 0 .. total_threads - 1
    Records,            \* 0 .. total_sync_vars - 1
    Adaptive,           \* the records of adaptive mutexes
    StacksOf,           \* the call stacks each thread uses each record from
    Exiters,            \* the threads that may call exit()
    LineOf,             \* what addr2line prints for each address
    NotFound,           \* the line of an address it does not know
    CpuFreq,            \* cpu_freq, cycles in a millisecond
    MinElapsed,         \* the 1000 ms a level is taken to last at least
    UIntMod,            \* 2 to the width of an unsigned int
    LowMod,             \* 2 to the width of the words rdtsc returns
    BootCycles,         \* the counter when the process starts
    SpinCounts,         \* numbers of turns of the spin loop to consider
    HighWords,          \* words behind the stamp of a condition wait to consider
    MaxLocks, MaxTime,  \* bounds on calls and cycles
    MaxCond             \* and on a thread's condition waits, as it counts them

ASSUME ReportAssumption ==
    /\ Threads = 0 .. Cardinality(Threads) - 1
    /\ Records = 0 .. Cardinality(Records) - 1
    /\ Adaptive \subseteq Records /\ Exiters \subseteq Threads
    /\ {CpuFreq, MinElapsed, UIntMod, LowMod} \subseteq Nat \ {0}
    \* The counter itself does not wrap within a run: that takes centuries.
    /\ BootCycles + MaxTime < LowMod * LowMod

VARIABLES
    row,                \* thread_mutex_t of each thread and record
    stacks,             \* the contexts of each record, in order
    th,                 \* the threads: place, record and locals
    cycles,             \* time since the start of the process
    rep,                \* the report: place and locals
    thread_waits, call_stack_map,
    results,            \* the locks the report has looked at
    asym_locks,
    locks,              \* number of calls, for the bound
    waited,             \* history: the time each thread waited for locks
    atExit              \* history: what was true when the report began

progVars == <<row, stacks, th, locks, waited>>
outVars == <<thread_waits, call_stack_map, results, asym_locks>>
vars == <<progVars, cycles, rep, outVars, atExit>>

NoCounts == [access_count |-> 0, fail_count |-> 0, futex_wait |-> 0, cond_futex_wait |-> 0]

-----------------------------------------------------------------------------
(***************************************************************************)
(* finetime: rdtsc returns the counter as two words.                       *)
(***************************************************************************)
TscAt(time) == LET tsc == BootCycles + time
               IN [low |-> tsc % LowMod, high |-> tsc \div LowMod]

get_tsc == TscAt(cycles)

TscMax == LowMod - 1

Joined(ti) == ti.low + ti.high * LowMod

\* MUTANT of get_elapsed_cycle: only the low words are looked at.
get_elapsed_cycle_LowWord(start, stop) ==
    IF stop.low < start.low THEN (TscMax - start.low) + stop.low ELSE stop.low - start.low

\* Unsigned arithmetic of the two words together.
get_elapsed_cycle(start, stop) ==
    LET begin == Joined(start)
        end == Joined(stop)
    IN IF stop.high < start.high THEN ((TscMax - begin) + end) % (LowMod * LowMod)
                                 ELSE (end - begin) % (LowMod * LowMod)

Elapsed(start) == get_elapsed_cycle(start, get_tsc)

-----------------------------------------------------------------------------
\* Places of a thread: user, counted (access_count incremented), wait (for the
\* lock), held and cond (in a condition wait).  spun: the call has
\* been through its spin loop.  begin: wait_start.
NoTime == [low |-> 0, high |-> 0]
Outside == [at |-> "user", r |-> 0, spun |-> FALSE, begin |-> NoTime]

Init ==
    /\ row = [t \in Threads |-> [r \in Records |-> NoCounts]]
    /\ stacks = [r \in Records |-> <<>>]
    /\ th = [t \in Threads |-> Outside]
    /\ cycles = 0
    /\ rep = [at |-> "no", by |-> 0, elapsed_time_for_freq |-> 0, i |-> 0, idx |-> 0,
              todo |-> {}, access |-> 0, fail |-> 0]
    /\ thread_waits = [t \in Threads |-> 0]
    /\ call_stack_map = <<>>
    /\ results = <<>>
    /\ asym_locks = {}
    /\ locks = 0
    /\ waited = [t \in Threads |-> 0]
    /\ atExit = [row |-> row, waited |-> waited, cycles |-> 0, locks |-> 0]

Return(t) == th' = [th EXCEPT ![t] = Outside]

\* inc_access_count and the others: field++ in the thread's own row.
Count(t, field, n) ==
    row' = [row EXCEPT ![t][th[t].r] = [@ EXCEPT ![field] = (@ + n) % UIntMod]]

\* Somebody else has the mutex of record r.
Taken(t, r) == \E u \in Threads \ {t} : th[u].at = "held" /\ th[u].r = r

\* pthread_mutex_lock or pthread_mutex_trylock is called from stack s.
Lock(t, r, s) ==
    /\ th[t].at = "user"
    /\ locks < MaxLocks
    /\ locks' = locks + 1
    /\ row' = [row EXCEPT ![t][r].access_count = (@ + 1) % UIntMod]
    /\ stacks' = [stacks EXCEPT ![r] = IF Contains(@, s) THEN @ ELSE Append(@, s)]
    /\ th' = [th EXCEPT ![t].at = "counted", ![t].r = r]
    /\ UNCHANGED waited

\* The lock is there, or will be before its word says 2: no failure counted.
Acquire(t) ==
    /\ th[t].at = "counted"
    /\ ~Taken(t, th[t].r)
    /\ th' = [th EXCEPT ![t].at = "held", ![t].spun = FALSE]
    /\ UNCHANGED <<row, stacks, locks, waited>>

\* The word says 2: the time stamp, then the failure.
Conflict(t) ==
    /\ th[t].at = "counted"
    /\ th[t].r \notin Adaptive
    /\ Taken(t, th[t].r)
    /\ th' = [th EXCEPT ![t].at = "wait", ![t].begin = get_tsc]
    /\ Count(t, "fail_count", 1)
    /\ UNCHANGED <<stacks, locks, waited>>

\* The spin loop of an adaptive mutex counts a failure in each turn.
Spin(t) ==
    /\ th[t].at = "counted" /\ ~th[t].spun
    /\ th[t].r \in Adaptive
    /\ Taken(t, th[t].r)
    /\ th' = [th EXCEPT ![t].spun = TRUE]
    /\ \E n \in SpinCounts : Count(t, "fail_count", n)
    /\ UNCHANGED <<stacks, locks, waited>>

\* inc_trylock_fail_count: the call was a trylock.
TrylockFails(t) ==
    /\ th[t].at = "counted" /\ ~th[t].spun
    /\ Taken(t, th[t].r)
    /\ Return(t)
    /\ Count(t, "fail_count", 1)
    /\ UNCHANGED <<stacks, locks, waited>>

\* get_elapsed2ms (times are in cycles), added to one of the two waiting times.
AddTime(t, field, begin) ==
    row' = [row EXCEPT ![t][th[t].r] = [@ EXCEPT ![field] = @ + Elapsed(begin)]]

\* The wait ends with the lock taken.
WaitEnds(t, at) ==
    /\ th[t].at = at
    /\ ~Taken(t, th[t].r)
    /\ th' = [th EXCEPT ![t].at = "held", ![t].begin = NoTime]
    /\ UNCHANGED <<stacks, locks>>

\* add_futex_wait.
LockWaited(t) ==
    /\ WaitEnds(t, "wait")
    /\ AddTime(t, "futex_wait", th[t].begin)
    /\ waited' = [waited EXCEPT ![t] = @ + (BootCycles + cycles - Joined(th[t].begin))]

\* add_cond_wait_time.  The variable of the stamp is a pointer, which has room
\* for the low word: the high word is what the memory behind it holds by then,
\* which may be more than any clock shows.
CondWaited(t) ==
    /\ WaitEnds(t, "cond")
    /\ \E high \in HighWords :
          AddTime(t, "cond_futex_wait", [low |-> th[t].begin.low, high |-> high])
    /\ UNCHANGED waited

\* The waits in condition variables the rows of a thread have.
CondPart(rows, t) == SumFunction([r \in Records |-> rows[t][r].cond_futex_wait])

CondWait(t) ==
    /\ th[t].at = "held"
    /\ CondPart(row, t) < MaxCond
    /\ th' = [th EXCEPT ![t].at = "cond", ![t].begin = get_tsc]
    /\ UNCHANGED <<row, stacks, locks, waited>>

\* A thread woken for nothing takes a new time stamp before it waits again:
\* the report knows its wait from here on only.
WaitAgain(t) ==
    /\ th[t].at = "cond"
    /\ th' = [th EXCEPT ![t].begin = get_tsc]
    /\ UNCHANGED <<row, stacks, locks, waited>>

Unlock(t) ==
    /\ th[t].at = "held"
    /\ Return(t)
    /\ UNCHANGED <<row, stacks, locks, waited>>

\* Every other thread of the program goes on, also during the report.
ThreadStep(t) ==
    /\ rep.at \in {"no", "sum"}
    /\ rep.at # "no" => t # rep.by
    /\ \/ \E r \in Records : \E s \in StacksOf[t][r] : Lock(t, r, s)
       \/ Acquire(t) \/ Conflict(t) \/ Spin(t) \/ TrylockFails(t)
       \/ LockWaited(t) \/ CondWaited(t) \/ CondWait(t) \/ WaitAgain(t)
       \/ Unlock(t)
    /\ UNCHANGED <<cycles, rep, outVars, atExit>>

Tick ==
    /\ cycles < MaxTime
    /\ rep.at = "no"
    /\ cycles' = cycles + 1
    /\ UNCHANGED <<progVars, rep, outVars, atExit>>

-----------------------------------------------------------------------------
(***************************************************************************)
(* finalizer(): xthread::finalize takes the time of the last level, then   *)
(* Report::print.                                                          *)
(***************************************************************************)
Fields == {"access", "fail"}

\* "TODO: remove this": a short level is taken to have lasted a second.
TimeForFreq(elapse) == IF elapse < MinElapsed * CpuFreq THEN MinElapsed * CpuFreq ELSE elapse

\* Thread t calls exit(): when the others are done, or in spite of them,
\* perhaps in the middle of a call when SIGINT arrives.  The last thread level
\* has begun at some time since, with the creation or the join of a thread.
Exit(t, since) ==
    /\ rep.at = "no"
    /\ rep' = [rep EXCEPT !.at = "sum", !.by = t, !.todo = Fields,
                          !.elapsed_time_for_freq = TimeForFreq(Elapsed(TscAt(since)))]
    /\ atExit' = [row |-> row, waited |-> waited, cycles |-> cycles, locks |-> locks]
    /\ UNCHANGED <<progVars, cycles, outVars>>

\* get_thread_mutex_data(m->entry_index, idx).
Current == row[rep.idx][rep.i]

\* One count of the row, in either order; with the second, the waits of the
\* row go into the total of its thread and the loop moves on.
Load(field) ==
    /\ rep.at = "sum" /\ rep.i \in Records
    /\ field \in rep.todo
    /\ LET last == rep.todo = {field}
       IN /\ rep' = [rep EXCEPT
                       !.access = (@ + (IF field = "access" THEN Current.access_count ELSE 0)) % UIntMod,
                       !.fail = (@ + (IF field = "fail" THEN Current.fail_count ELSE 0)) % UIntMod,
                       !.idx = IF last THEN @ + 1 ELSE @,
                       !.todo = IF last /\ rep.idx + 1 \in Threads THEN Fields ELSE @ \ {field}]
          /\ thread_waits' = [thread_waits EXCEPT ![rep.idx] =
                @ + (IF last THEN Current.cond_futex_wait + Current.futex_wait ELSE 0)]
    /\ UNCHANGED <<progVars, cycles, call_stack_map, results, asym_locks, atExit>>

-----------------------------------------------------------------------------
\* get_call_stack_string: addresses without a source line leave no trace.
get_call_stack_string(stack) ==
    SelectSeq([j \in DOMAIN stack |-> LineOf[stack[j]]], LAMBDA line : line # NotFound)

\* MUTANT of Rate: the quotient of the integers, times 100.
Rate_Early(access, fail) == [num |-> 100 * (fail \div access), den |-> 1]

\* (100*total_fail_count)/double(total_access_count): an unsigned product.
Rate(access, fail) == [num |-> (100 * fail) % UIntMod, den |-> access]

THRESHOLD_CONFLICT == 5
THRESHOLD_FREQUENCY == 1

IsHighConflict(rate) == rate.num > THRESHOLD_CONFLICT * rate.den

IsHighFrequency(access) == access * CpuFreq > THRESHOLD_FREQUENCY * rep.elapsed_time_for_freq

\* Locks of low conflict and low frequency are not listed.
Quadrant(rate, access) == <<IF IsHighConflict(rate) THEN "high" ELSE "low",
                            IF IsHighFrequency(access) THEN "high" ELSE "low">>

updateCallStackMap(map, line, rate) ==
    [l \in DOMAIN map \cup {line} |->
        IF l # line THEN map[l]
        ELSE IF line \in DOMAIN map THEN Append(map[line], rate) ELSE <<rate>>]

\* MUTANT of NextTotals: the totals are declared outside of the loop.
NextTotals_Kept == [rep EXCEPT !.i = @ + 1, !.idx = 0, !.todo = Fields]

\* The totals are locals of the body of the loop over the records.
NextTotals == [rep EXCEPT !.i = @ + 1, !.idx = 0, !.todo = Fields, !.access = 0, !.fail = 0]

\* The rest of the body: a record with accesses is a lock of the report.
Classify ==
    /\ rep.at = "sum" /\ rep.i \in Records
    /\ rep.idx \notin Threads
    /\ rep' = NextTotals
    /\ IF rep.access = 0
         THEN UNCHANGED <<call_stack_map, results>>
         ELSE LET rate == Rate(rep.access, rep.fail)
                  lines == [con \in DOMAIN stacks[rep.i] |-> get_call_stack_string(stacks[rep.i][con])]
              IN /\ call_stack_map' =
                       FoldLeft(LAMBDA map, line : updateCallStackMap(map, line, rate),
                                call_stack_map, lines)
                 /\ results' = Append(results,
                       [record |-> rep.i, access |-> rep.access, fail |-> rep.fail, rate |-> rate,
                        quadrant |-> Quadrant(rate, rep.access), line_info |-> lines])
    /\ UNCHANGED <<progVars, cycles, thread_waits, asym_locks, atExit>>

Less(a, b) == a.num * b.den < b.num * a.den
MinOf(rates) == FoldLeft(LAMBDA m, r : IF Less(r, m) THEN r ELSE m, Head(rates), rates)
MaxOf(rates) == FoldLeft(LAMBDA m, r : IF Less(m, r) THEN r ELSE m, Head(rates), rates)

\* The rates are more than 10 per cent apart.
Apart(low, high) == high.num * low.den - low.num * high.den > 10 * low.den * high.den

\* MUTANT of findAsymmetricLock: the last rate instead of the largest.
findAsymmetricLock_Last(map) ==
    {line \in DOMAIN map : Len(map[line]) > 1 /\ Apart(MinOf(map[line]), Last(map[line]))}

findAsymmetricLock(map) ==
    {line \in DOMAIN map : Len(map[line]) > 1 /\ Apart(MinOf(map[line]), MaxOf(map[line]))}

\* thread_waits.csv, the quadrants and the asymmetric locks are written.
WriteReport ==
    /\ rep.at = "sum"
    /\ rep.i \notin Records
    /\ rep' = [rep EXCEPT !.at = "done"]
    /\ asym_locks' = findAsymmetricLock(call_stack_map)
    /\ UNCHANGED <<progVars, cycles, thread_waits, call_stack_map, results, atExit>>

Terminated == rep.at = "done" /\ UNCHANGED vars

Next ==
    \/ \E t \in Threads : ThreadStep(t)
    \/ Tick
    \/ \E t \in Exiters, since \in 0 .. cycles : Exit(t, since)
    \/ \E field \in Fields : Load(field)
    \/ Classify \/ WriteReport
    \/ Terminated

Spec == Init /\ [][Next]_vars

-----------------------------------------------------------------------------
Entries == {results[n] : n \in DOMAIN results}

Total(rows, r, field) == SumFunction([t \in Threads |-> rows[t][r][field]])

\* No count of the program can have reached the width of an unsigned int.
NoCountWraps == locks * (1 + Max(SpinCounts \cup {0})) < UIntMod

\* What the report says of a lock happened: as long as no count can have
\* wrapped, its counts lie between those at the exit and those now, although
\* other threads go on counting while it reads; and a conflict rate above 100%
\* comes from the spin loop of an adaptive mutex or from calls made while the
\* report was being written.
CountsCredible ==
    NoCountWraps => \A e \in Entries :
        /\ Total(atExit.row, e.record, "access_count") <= e.access
        /\ e.access <= Total(row, e.record, "access_count")
        /\ Total(atExit.row, e.record, "fail_count") <= e.fail
        /\ e.fail <= Total(row, e.record, "fail_count")
        /\ e.record \notin Adaptive => e.fail <= e.access + (locks - atExit.locks)

\* The quadrants, given the sums of the counts: no lock is shown with a high
\* conflict rate that has a low one; one with a high rate is missed only if the
\* unsigned product 100*total_fail_count has wrapped; and a lock taken more than
\* once in a millisecond over the whole run is never missed among the frequent
\* ones, although the frequency is taken over the last thread level only.
QuadrantsRight ==
    \A e \in Entries :
        LET conflict == 100 * e.fail > 5 * e.access
        IN /\ e.quadrant[1] = "high" => conflict
           /\ conflict /\ e.quadrant[1] = "low" => 100 * e.fail >= UIntMod
           /\ e.access * CpuFreq > atExit.cycles /\ e.access > MinElapsed => e.quadrant[2] = "high"

\* thread_waits.csv gives every thread the time it waited for locks, to the
\* cycle and whatever the words of the time stamps did meanwhile, in all records
\* together, on top of what its rows have of condition waits, which need not be
\* the time those took (CondWaited); of waits that end while the report is being
\* written it may have part.
WaitsReported ==
    rep.at = "done" => \A t \in Threads :
        /\ atExit.waited[t] + CondPart(atExit.row, t) <= thread_waits[t]
        /\ thread_waits[t] <= waited[t] + CondPart(row, t)

\* A context is listed as asymmetric exactly when two locks of the report are
\* used from it with rates more than 10 per cent apart.
AsymmetricRight ==
    rep.at = "done" =>
        asym_locks = {line \in UNION {Range(e.line_info) : e \in Entries} :
                         \E e, f \in Entries : /\ {line} \subseteq Range(e.line_info) \cap Range(f.line_info)
                                               /\ Apart(e.rate, f.rate)}
=============================================================================
